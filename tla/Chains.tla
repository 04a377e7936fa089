-------------------------------- MODULE Chains --------------------------------
(***************************************************************************)
(* What following a chain of names from one of them leads to, however long *)
(* it is and whether or not it ends.  The world is a function g that takes *)
(* a name to the next one; A is the set of the aliases, and a name that is *)
(* none is its own next name.  Both the forwarder and the iterative        *)
(* resolver follow CNAMEs this way.                                        *)
(***************************************************************************)
EXTENDS Integers, FiniteSets, TLAPS, FiniteSetTheorems, WellFoundedInduction

World(S, A, g) ==
  /\ IsFiniteSet(S) /\ A \subseteq S /\ g \in [S -> S]
  /\ \A m \in S \ A : g[m] = m

IsOrbit(f, S, g, x) ==
  /\ f \in [Nat -> S] /\ f[0] = x
  /\ \A k \in Nat : f[k + 1] = g[f[k]]

\* The names met from x on, the first being x.
Orbit(S, g, x) == CHOOSE f \in [Nat -> S] : IsOrbit(f, S, g, x)

\* The aliases among the first k of them.
Owners(f, A, k) == {f[i] : i \in 0 .. (k - 1)} \cap A
-----------------------------------------------------------------------------
\* Induction over the natural numbers, said of a set.
LEMMA SetInduction ==
  ASSUME NEW S, 0 \in S, \A k \in Nat : k \in S => k + 1 \in S
  PROVE  Nat \subseteq S
<1> DEFINE T == {0 .. (x - 1) : x \in Nat \ S}
<1> SUFFICES ASSUME Nat \ S # {} PROVE FALSE
  OBVIOUS
<1>1. T # {} /\ T \subseteq FiniteSubsetsOf(Nat)
  <2>1. ASSUME NEW x \in Nat PROVE 0 .. (x - 1) \in FiniteSubsetsOf(Nat)
    <3>1. IsFiniteSet(0 .. (x - 1))
      BY FS_Interval
    <3> QED  BY <3>1 DEF FiniteSubsetsOf
  <2> QED  BY <2>1
<1>2. PICK M \in T : \A U \in T : ~ (<<U, M>> \in StrictSubsetOrdering(Nat))
  <2> HIDE DEF T
  <2> QED  BY <1>1, FS_StrictSubsetOrderingWellFounded, WFMin
<1>3. PICK x \in Nat \ S : M = 0 .. (x - 1)
  OBVIOUS
<1>4. x - 1 \in Nat /\ x - 1 \notin S
  <2>1. x # 0
    OBVIOUS
  <2>2. x - 1 \in Nat /\ (x - 1) + 1 = x
    BY <2>1
  <2> QED  BY <2>2
<1>5. 0 .. (x - 1 - 1) \in T
  BY <1>4
<1>6. <<0 .. (x - 1 - 1), 0 .. (x - 1)>> \in StrictSubsetOrdering(Nat)
  BY <1>4 DEF StrictSubsetOrdering
<1> QED  BY <1>2, <1>3, <1>5, <1>6

\* A chain can be followed for ever, in one way.
LEMMA OrbitFollows ==
  ASSUME NEW S, NEW g \in [S -> S], NEW x \in S
  PROVE  IsOrbit(Orbit(S, g, x), S, g, x)
<1> DEFINE Begins(f, k) ==
             /\ f \in [0 .. k -> S] /\ f[0] = x
             /\ \A i \in 0 .. (k - 1) : f[i + 1] = g[f[i]]
           D == {k \in Nat : \E f : Begins(f, k)}
           F(k) == CHOOSE f : Begins(f, k)
           h == [k \in Nat |-> F(k)[k]]
<1>1. 0 \in D
  <2>1. Begins([i \in 0 .. 0 |-> x], 0)
    OBVIOUS
  <2> QED  BY <2>1
<1>2. ASSUME NEW k \in Nat, k \in D PROVE k + 1 \in D
  <2>1. PICK f : Begins(f, k)
    BY <1>2
  <2> DEFINE e == [i \in 0 .. (k + 1) |-> IF i = k + 1 THEN g[f[k]] ELSE f[i]]
  <2>2. e \in [0 .. (k + 1) -> S] /\ e[0] = x
    BY <2>1
  <2>3. ASSUME NEW i \in 0 .. k PROVE e[i + 1] = g[e[i]]
    BY <2>1
  <2>4. (k + 1) - 1 = k
    OBVIOUS
  <2>5. Begins(e, k + 1)
    <3> HIDE DEF e
    <3> QED  BY <2>2, <2>3, <2>4
  <2> HIDE DEF e, Begins
  <2> QED  BY <2>5
<1>3. Nat \subseteq D
  <2> HIDE DEF D
  <2> QED  BY <1>1, <1>2, SetInduction
<1>4. ASSUME NEW k \in Nat PROVE Begins(F(k), k)
  <2> HIDE DEF Begins
  <2> QED  BY <1>3
<1>5. ASSUME NEW k \in Nat PROVE F(k + 1)[k] = F(k)[k]
  <2> DEFINE E == {i \in Nat : i <= k => F(k + 1)[i] = F(k)[i]}
  <2>1. Begins(F(k), k) /\ Begins(F(k + 1), k + 1)
    <3> HIDE DEF F, Begins
    <3> QED  BY <1>4
  <2> HIDE DEF F
  <2>2. 0 \in E
    BY <2>1
  <2>3. ASSUME NEW i \in Nat, i \in E PROVE i + 1 \in E
    <3> SUFFICES ASSUME i + 1 <= k PROVE F(k + 1)[i + 1] = F(k)[i + 1]
      OBVIOUS
    <3>1. i \in 0 .. (k - 1) /\ i \in 0 .. (k + 1 - 1) /\ F(k + 1)[i] = F(k)[i]
      BY <2>3
    <3> QED  BY <2>1, <3>1
  <2>4. Nat \subseteq E
    <3> HIDE DEF E
    <3> QED  BY <2>2, <2>3, SetInduction
  <2> QED  BY <2>4
<1>6. IsOrbit(h, S, g, x)
  <2>1. ASSUME NEW k \in Nat PROVE F(k)[k] \in S
    BY <1>4
  <2>2. F(0)[0] = x
    BY <1>4
  <2>3. ASSUME NEW k \in Nat PROVE F(k + 1)[k + 1] = g[F(k)[k]]
    <3>1. Begins(F(k + 1), k + 1)
      <4> HIDE DEF F, Begins
      <4> QED  BY <1>4
    <3> HIDE DEF F
    <3>2. k \in 0 .. (k + 1 - 1) /\ F(k + 1)[k] = F(k)[k]
      BY <1>5
    <3> QED  BY <3>1, <3>2
  <2> HIDE DEF F
  <2> QED  BY <2>1, <2>2, <2>3 DEF IsOrbit
<1>7. h \in [Nat -> S]
  BY <1>6 DEF IsOrbit
<1> HIDE DEF h
<1> QED  BY <1>6, <1>7 DEF Orbit

\* Following it from a name further down is following it from there.
LEMMA OrbitShifts ==
  ASSUME NEW S, NEW g \in [S -> S], NEW x \in S, NEW i \in Nat, NEW k \in Nat
  PROVE  Orbit(S, g, Orbit(S, g, x)[i])[k] = Orbit(S, g, x)[i + k]
<1> DEFINE f == Orbit(S, g, x)
           e == Orbit(S, g, f[i])
           E == {l \in Nat : e[l] = f[i + l]}
<1>1. IsOrbit(f, S, g, x)
  BY OrbitFollows
<1> HIDE DEF f
<1>2. IsOrbit(e, S, g, f[i])
  <2>1. f[i] \in S
    BY <1>1 DEF IsOrbit
  <2> QED  BY <2>1, OrbitFollows
<1> HIDE DEF e
<1>3. 0 \in E
  BY <1>1, <1>2 DEF IsOrbit
<1>4. ASSUME NEW l \in Nat, l \in E PROVE l + 1 \in E
  <2>1. i + (l + 1) = (i + l) + 1 /\ i + l \in Nat
    OBVIOUS
  <2>2. f[(i + l) + 1] = g[f[i + l]] /\ e[l + 1] = g[e[l]]
    BY <1>1, <1>2, <2>1 DEF IsOrbit
  <2> QED  BY <1>4, <2>1, <2>2
<1>5. Nat \subseteq E
  <2> HIDE DEF E
  <2> QED  BY <1>3, <1>4, SetInduction
<1> QED  BY <1>5 DEF e, f

\* At a name that is no alias it ends.
LEMMA OrbitEnds ==
  ASSUME NEW S, NEW A, NEW g, World(S, A, g), NEW x \in S, NEW f, IsOrbit(f, S, g, x),
         NEW i \in Nat, f[i] \notin A, NEW k \in Nat, i <= k
  PROVE  f[k] = f[i]
<1> DEFINE E == {l \in Nat : i <= l => f[l] = f[i]}
<1>1. 0 \in E
  OBVIOUS
<1>2. ASSUME NEW l \in Nat, l \in E PROVE l + 1 \in E
  <2>1. CASE i <= l
    <3>1. f[l] = f[i] /\ f[l + 1] = g[f[l]] /\ f[i] \in S
      BY <1>2, <2>1 DEF IsOrbit
    <3> QED  BY <3>1 DEF World
  <2>2. CASE i = l + 1
    BY <2>2
  <2>3. CASE i > l + 1
    BY <2>3
  <2> QED  BY <2>1, <2>2, <2>3
<1>3. Nat \subseteq E
  <2> HIDE DEF E
  <2> QED  BY <1>1, <1>2, SetInduction
<1> QED  BY <1>3

\* There are only so many names: whatever is met is met early.
LEMMA OrbitIsShort ==
  ASSUME NEW S, NEW A, NEW g, World(S, A, g), NEW x \in S, NEW f, IsOrbit(f, S, g, x),
         NEW k \in Nat
  PROVE  \E l \in 0 .. (Cardinality(S) - 1) : f[k] = f[l]
<1> DEFINE C == Cardinality(S)
<1>1. C \in Nat
  BY FS_CardinalityType DEF World
<1>2. PICK i, j \in 0 .. C : i # j /\ f[i] = f[j]
  <2> DEFINE e == [l \in 0 .. C |-> f[l]]
  <2>1. IsFiniteSet(0 .. C) /\ Cardinality(0 .. C) = C + 1
    BY <1>1, FS_Interval
  <2>2. e \in [0 .. C -> S]
    BY <1>1 DEF IsOrbit
  <2>3. \E i, j \in 0 .. C : i # j /\ e[i] = e[j]
    <3> HIDE DEF e
    <3> QED  BY <1>1, <2>1, <2>2, FS_PigeonHole DEF World
  <2> QED  BY <2>3
<1> HIDE DEF C
<1>3. PICK a \in 0 .. C, b \in 0 .. C : a < b /\ f[a] = f[b]
  BY <1>1, <1>2
<1> DEFINE E == {l \in Nat : \E m \in 0 .. (b - 1) : f[l] = f[m]}
<1>4. 0 \in E
  BY <1>1, <1>3
<1>5. ASSUME NEW l \in Nat, l \in E PROVE l + 1 \in E
  <2>1. PICK m \in 0 .. (b - 1) : f[l] = f[m]
    BY <1>5
  <2>2. f[l + 1] = f[m + 1]
    BY <1>1, <2>1 DEF IsOrbit
  <2>3. CASE m + 1 = b
    BY <1>1, <1>3, <2>2, <2>3
  <2>4. CASE m + 1 # b
    <3>1. m + 1 \in 0 .. (b - 1)
      BY <1>1, <2>4
    <3> QED  BY <2>2, <3>1
  <2> QED  BY <2>3, <2>4
<1>6. Nat \subseteq E
  <2> HIDE DEF E
  <2> QED  BY <1>4, <1>5, SetInduction
<1>7. PICK m \in 0 .. (b - 1) : f[k] = f[m]
  BY <1>6
<1>8. m \in 0 .. (C - 1)
  BY <1>1, <1>3
<1> QED  BY <1>7, <1>8 DEF C

\* So as many steps as there are names tell all of its aliases.
LEMMA OwnersSaturate ==
  ASSUME NEW S, NEW A, NEW g, World(S, A, g), NEW x \in S, NEW f, IsOrbit(f, S, g, x),
         NEW k \in Nat, Cardinality(S) <= k
  PROVE  Owners(f, A, k) = Owners(f, A, Cardinality(S))
<1> DEFINE C == Cardinality(S)
<1>1. C \in Nat
  BY FS_CardinalityType DEF World
<1> HIDE DEF C
<1>2. ASSUME NEW i \in 0 .. (k - 1) PROVE f[i] \in {f[l] : l \in 0 .. (C - 1)}
  BY <1>2, OrbitIsShort DEF C
<1>3. 0 .. (C - 1) \subseteq 0 .. (k - 1)
  BY <1>1 DEF C
<1>4. {f[i] : i \in 0 .. (k - 1)} = {f[l] : l \in 0 .. (C - 1)}
  BY <1>2, <1>3
<1> QED  BY <1>4 DEF Owners, C

\* The last name, if there is one, is met by then.
LEMMA OrbitEndsEarly ==
  ASSUME NEW S, NEW A, NEW g, World(S, A, g), NEW x \in S, NEW f, IsOrbit(f, S, g, x),
         NEW k \in Nat, f[k] \notin A
  PROVE  f[Cardinality(S)] = f[k]
<1>1. Cardinality(S) \in Nat
  BY FS_CardinalityType DEF World
<1>2. PICK l \in 0 .. (Cardinality(S) - 1) : f[k] = f[l]
  BY OrbitIsShort
<1> QED  BY <1>1, <1>2, OrbitEnds

\* A chain that ends does not come back to an alias.
LEMMA NoReturn ==
  ASSUME NEW S, NEW A, NEW g, World(S, A, g), NEW x \in S, NEW f, IsOrbit(f, S, g, x),
         f[Cardinality(S)] \notin A,
         NEW a \in Nat, NEW b \in Nat, a < b, f[a] \in A
  PROVE  f[a] # f[b]
<1> DEFINE C == Cardinality(S)
           E == {l \in Nat : a <= l => f[l] \in A}
<1> SUFFICES ASSUME f[a] = f[b] PROVE FALSE
  OBVIOUS
<1>1. C \in Nat
  BY FS_CardinalityType DEF World
<1>2. ASSUME NEW l \in Nat, a <= l PROVE f[l] \in A
  <2> DEFINE G == {n \in Nat : \E m \in a .. (b - 1) : f[a + n] = f[m]}
  <2>1. 0 \in G
    OBVIOUS
  <2>2. ASSUME NEW n \in Nat, n \in G PROVE n + 1 \in G
    <3>1. PICK m \in a .. (b - 1) : f[a + n] = f[m]
      BY <2>2
    <3>2. f[a + (n + 1)] = f[m + 1]
      <4>1. a + (n + 1) = (a + n) + 1 /\ a + n \in Nat /\ m \in Nat
        OBVIOUS
      <4>2. f[(a + n) + 1] = g[f[a + n]] /\ f[m + 1] = g[f[m]]
        BY <4>1 DEF IsOrbit
      <4> QED  BY <3>1, <4>1, <4>2
    <3>3. CASE m + 1 = b
      BY <3>2, <3>3
    <3>4. CASE m + 1 # b
      <4>1. m + 1 \in a .. (b - 1)
        BY <3>4
      <4> QED  BY <3>2, <4>1
    <3> QED  BY <3>3, <3>4
  <2>3. Nat \subseteq G
    <3> HIDE DEF G
    <3> QED  BY <2>1, <2>2, SetInduction
  <2>4. PICK m \in a .. (b - 1) : f[l] = f[m]
    <3>1. l - a \in Nat /\ a + (l - a) = l
      BY <1>2
    <3>2. l - a \in G
      BY <2>3, <3>1
    <3> QED  BY <3>1, <3>2
  <2>5. CASE f[m] \notin A
    <3>1. f[b] = f[m]
      BY <2>5, OrbitEnds
    <3> QED  BY <2>5, <3>1
  <2> QED  BY <2>4, <2>5
<1>3. CASE a <= C
  BY <1>1, <1>2, <1>3
<1>4. CASE C < a
  <2>1. f[a] = f[C]
    BY <1>1, <1>4, OrbitEnds
  <2> QED  BY <2>1
<1> QED  BY <1>1, <1>3, <1>4

\* Before an alias there are only aliases.
LEMMA AliasesBefore ==
  ASSUME NEW S, NEW A, NEW g, World(S, A, g), NEW x \in S, NEW f, IsOrbit(f, S, g, x),
         NEW i \in Nat, f[i] \in A, NEW l \in 0 .. i
  PROVE  f[l] \in A
BY OrbitEnds

\* So as many aliases as there are steps up to one.
LEMMA OwnersCounted ==
  ASSUME NEW S, NEW A, NEW g, World(S, A, g), NEW x \in S, NEW f, IsOrbit(f, S, g, x),
         f[Cardinality(S)] \notin A, NEW i \in Nat, f[i] \in A
  PROVE  Cardinality(Owners(f, A, Cardinality(S))) > i
<1> DEFINE C == Cardinality(S)
           O == Owners(f, A, C)
           e == [l \in 0 .. i |-> f[l]]
<1>1. C \in Nat
  BY FS_CardinalityType DEF World
<1>2. i < C
  <2> SUFFICES ASSUME C <= i PROVE FALSE
    BY <1>1
  <2>1. f[i] = f[C]
    BY <1>1, OrbitEnds
  <2> QED  BY <2>1
<1>3. IsFiniteSet(O) /\ Cardinality(O) \in Nat
  <2>1. O \in SUBSET S
    BY DEF Owners, World
  <2>2. IsFiniteSet(O)
    BY <2>1, FS_Subset DEF World
  <2> QED  BY <2>2, FS_CardinalityType
<1>4. e \in Injection(0 .. i, O)
  <2>1. ASSUME NEW l \in 0 .. i PROVE f[l] \in O
    BY <1>1, <1>2, AliasesBefore DEF Owners
  <2>2. ASSUME NEW l \in 0 .. i, NEW m \in 0 .. i, f[l] = f[m] PROVE l = m
    <3>1. f[l] \in A /\ f[m] \in A
      BY AliasesBefore
    <3>2. ~(l < m)
      BY <2>2, <3>1, NoReturn
    <3>3. ~(m < l)
      BY <2>2, <3>1, NoReturn
    <3> QED  BY <3>2, <3>3
  <2> HIDE DEF O
  <2> QED  BY <2>1, <2>2 DEF Injection, IsInjective
<1>5. IsFiniteSet(0 .. i) /\ Cardinality(0 .. i) = i + 1
  BY FS_Interval
<1>6. Cardinality(0 .. i) <= Cardinality(O)
  <2> HIDE DEF O, e
  <2> QED  BY <1>3, <1>4, FS_Injection
<1> QED  BY <1>3, <1>5, <1>6

\* The aliases of a chain and those of the rest of it are a longer part of it.
LEMMA OwnersJoin ==
  ASSUME NEW S, NEW A, NEW g, World(S, A, g), NEW x \in S,
         NEW i \in Nat, NEW j \in Nat, i <= j, NEW k \in Nat,
         NEW f, f = Orbit(S, g, x), NEW e, e = Orbit(S, g, f[i])
  PROVE  Owners(f, A, j) \cup Owners(e, A, k) = Owners(f, A, IF j < i + k THEN i + k ELSE j)
<1> DEFINE h == IF j < i + k THEN i + k ELSE j
<1>1. h \in Nat /\ h >= j /\ h >= i + k /\ (h = j \/ h = i + k)
  OBVIOUS
<1>2. ASSUME NEW l \in Nat PROVE e[l] = f[i + l]
  BY OrbitShifts DEF World
<1> HIDE DEF h
<1>3. Owners(f, A, j) \subseteq Owners(f, A, h)
  BY <1>1 DEF Owners
<1>4. Owners(e, A, k) \subseteq Owners(f, A, h)
  <2> SUFFICES ASSUME NEW l \in 0 .. (k - 1) PROVE \E m \in 0 .. (h - 1) : e[l] = f[m]
    BY DEF Owners
  <2>1. e[l] = f[i + l] /\ i + l \in 0 .. (h - 1)
    BY <1>1, <1>2
  <2> QED  BY <2>1
<1>5. Owners(f, A, h) \subseteq Owners(f, A, j) \cup Owners(e, A, k)
  <2> SUFFICES ASSUME NEW m \in 0 .. (h - 1), ~(m \in 0 .. (j - 1))
               PROVE \E l \in 0 .. (k - 1) : f[m] = e[l]
    BY DEF Owners
  <2>1. m - i \in 0 .. (k - 1) /\ i + (m - i) = m
    BY <1>1
  <2>2. e[m - i] = f[m]
    BY <1>2, <2>1
  <2> QED  BY <2>1, <2>2
<1> QED  BY <1>3, <1>4, <1>5 DEF h

\* The aliases of a part of a chain are the first names of the chain, and what
\* follows them is the name that part ends at, if it ends.
LEMMA OwnersAreFirst ==
  ASSUME NEW S, NEW A, NEW g, World(S, A, g), NEW x \in S, NEW f, IsOrbit(f, S, g, x),
         NEW j \in Nat
  PROVE  \E k \in 0 .. Cardinality(S) :
           /\ Owners(f, A, j) = {f[i] : i \in 0 .. (k - 1)}
           /\ f[j] \notin A => f[k] = f[j]
<1> DEFINE C == Cardinality(S)
           Whole(k, l) == k \in 0 .. l /\ (\A i \in 0 .. (k - 1) : f[i] \in A) /\ (k = l \/ f[k] \notin A)
           E == {l \in Nat : \E k \in 0 .. l : Whole(k, l)}
<1>1. C \in Nat
  BY FS_CardinalityType DEF World
<1>2. 0 \in E
  <2>1. Whole(0, 0)
    OBVIOUS
  <2> QED  BY <2>1
<1>3. ASSUME NEW l \in Nat, l \in E PROVE l + 1 \in E
  <2>1. PICK k \in 0 .. l : Whole(k, l)
    BY <1>3
  <2>2. CASE f[k] \notin A
    <3>1. Whole(k, l + 1) /\ k \in 0 .. (l + 1)
      BY <2>1, <2>2
    <3> QED  BY <3>1
  <2>3. CASE f[k] \in A
    <3>1. k = l /\ \A i \in 0 .. (l + 1 - 1) : f[i] \in A
      BY <2>1, <2>3
    <3>2. Whole(l + 1, l + 1)
      BY <3>1
    <3> HIDE DEF Whole
    <3> QED  BY <3>2
  <2> QED  BY <2>2, <2>3
<1>4. Nat \subseteq E
  <2> HIDE DEF E
  <2> QED  BY <1>2, <1>3, SetInduction
<1>5. PICK k \in 0 .. j : Whole(k, j)
  BY <1>4
<1>6. f[k] \notin A => \A i \in k .. j : f[i] = f[k]
  BY OrbitEnds
<1>7. Owners(f, A, j) = {f[i] : i \in 0 .. (k - 1)}
  <2>1. \A i \in 0 .. (j - 1) : f[i] \in A => i \in 0 .. (k - 1)
    BY <1>5, <1>6
  <2>2. \A i \in 0 .. (k - 1) : f[i] \in A /\ i \in 0 .. (j - 1)
    BY <1>5
  <2> QED  BY <2>1, <2>2 DEF Owners
<1>8. f[j] \notin A => f[k] = f[j]
  BY <1>5, <1>6
<1>9. CASE k <= C
  <2>1. k \in 0 .. C
    BY <1>1, <1>9
  <2> QED  BY <1>7, <1>8, <2>1
<1>10. CASE C < k
  <2>1. f[C] \in A
    BY <1>1, <1>5, <1>10
  <2>2. f[j] \in A
    <3> SUFFICES ASSUME f[j] \notin A PROVE FALSE
      OBVIOUS
    <3> QED  BY <2>1, OrbitEndsEarly
  <2>3. {f[i] : i \in 0 .. (k - 1)} = {f[i] : i \in 0 .. (C - 1)}
    <3> HIDE DEF C
    <3>1. \A i \in 0 .. (k - 1) : f[i] \in {f[l] : l \in 0 .. (C - 1)}
      <4> TAKE i \in 0 .. (k - 1)
      <4>1. i \in Nat
        OBVIOUS
      <4> QED  BY <4>1, OrbitIsShort DEF C
    <3>2. 0 .. (C - 1) \subseteq 0 .. (k - 1)
      BY <1>1, <1>10
    <3> QED  BY <3>1, <3>2
  <2>4. C \in 0 .. C
    BY <1>1
  <2> QED  BY <1>7, <2>2, <2>3, <2>4
<1> QED  BY <1>1, <1>9, <1>10
==============================================================================
