-------------------------------- MODULE Sums --------------------------------
(***************************************************************************)
(* Sums over finite sets (SumFunctionOnSet of the community modules): what *)
(* an element adds.  The induction is over the size of the set, from the   *)
(* least number for which a statement fails.                               *)
(***************************************************************************)
EXTENDS Integers, FiniteSets, Functions, FiniteSetTheorems, WellFoundedInduction, TLAPS

SumOver(f, S) == SumFunctionOnSet(f, S)

\* A set of numbers has a least one.
LEMMA LeastNumber ==
  ASSUME NEW T, T \subseteq Nat, T # {}
  PROVE  \E n \in T : \A m \in T : n <= m
  <1>1. PICK R : R = OpToRel(<, Nat)
    OBVIOUS
  <1>2. \A x, y \in Nat : <<x, y>> \in R <=> x < y
    BY <1>1 DEF OpToRel
  <1>3. IsWellFoundedOn(R, Nat)
    BY <1>1, NatLessThanWellFounded
  <1>4. PICK n \in T : \A m \in T : ~ (<<m, n>> \in R)
    BY <1>3, WFMin
  <1>5. ASSUME NEW m \in T PROVE n <= m
    <2>1. m \in Nat /\ n \in Nat /\ ~ (m < n)
      BY <1>2, <1>4, <1>5
    <2> QED BY <2>1
  <1> QED BY <1>5

\* The element that a sum starts with, and the table of the sums of the
\* subsets that the definition makes.
Pick(s) == CHOOSE x \in s : TRUE
Rest(s) == s \ {Pick(s)}
Adds(g, f, S) == g = [s \in SUBSET S |-> IF s = {} THEN 0 ELSE f[Pick(s)] + g[Rest(s)]]

LEMMA SumIsTable ==
  ASSUME NEW f, NEW S
  PROVE  SumOver(f, S) = (CHOOSE g : Adds(g, f, S))[S]
  BY DEF SumOver, SumFunctionOnSet, FoldFunctionOnSet, MapThenFoldSet, Adds, Pick, Rest

\* The rest is smaller by one.
LEMMA RestSmaller ==
  ASSUME NEW S, IsFiniteSet(S), NEW s \in SUBSET S, s # {}
  PROVE  /\ Pick(s) \in s /\ Rest(s) \in SUBSET S /\ IsFiniteSet(s) /\ IsFiniteSet(Rest(s))
         /\ Cardinality(s) \in Nat /\ Cardinality(s) >= 1
         /\ Cardinality(Rest(s)) = Cardinality(s) - 1
  <1>1. Pick(s) \in s
    BY DEF Pick
  <1>2. IsFiniteSet(s)
    BY FS_Subset
  <1>3. Cardinality(s) \in Nat /\ Cardinality(s) # 0
    BY <1>2, FS_EmptySet, FS_CardinalityType
  <1>4. IsFiniteSet(Rest(s)) /\ Cardinality(Rest(s)) = Cardinality(s) - 1
    BY <1>1, <1>2, FS_RemoveElement DEF Rest
  <1> QED BY <1>1, <1>2, <1>3, <1>4 DEF Rest

\* A table that is right for the subsets of up to n elements.
Upto(g, f, S, n) ==
  /\ g = [s \in SUBSET S |-> g[s]]
  /\ \A s \in SUBSET S :
       Cardinality(s) <= n => g[s] = IF s = {} THEN 0 ELSE f[Pick(s)] + g[Rest(s)]

LEMMA TableExists ==
  ASSUME NEW f, NEW S, IsFiniteSet(S)
  PROVE  \E g : Adds(g, f, S)
  <1> DEFINE Bad == {n \in Nat : ~ \E g : Upto(g, f, S, n)}
  <1>1. Bad = {}
    <2> SUFFICES ASSUME Bad # {} PROVE FALSE
      OBVIOUS
    <2>1. Bad \subseteq Nat
      OBVIOUS
    <2>2. PICK n \in Bad : \A m \in Bad : n <= m
      <3> HIDE DEF Bad
      <3> QED BY <2>1, LeastNumber
    <2>3. CASE n = 0
      <3>1. PICK g : g = [s \in SUBSET S |-> 0]
        OBVIOUS
      <3>2. \A s \in SUBSET S : Cardinality(s) <= 0 => s = {}
        BY RestSmaller
      <3>3. g = [s \in SUBSET S |-> g[s]] /\ \A s \in SUBSET S : g[s] = 0
        BY <3>1
      <3>4. Upto(g, f, S, 0)
        BY <3>2, <3>3, Zenon DEF Upto
      <3> QED BY <2>3, <3>4
    <2>4. CASE n # 0
      <3>1. n - 1 \in Nat /\ n - 1 \notin Bad
        BY <2>2, <2>4
      <3>2. PICK g : Upto(g, f, S, n - 1)
        BY <3>1
      <3>3. PICK h : h = [s \in SUBSET S |-> IF s = {} THEN 0 ELSE f[Pick(s)] + g[Rest(s)]]
        OBVIOUS
      <3>4. \A s \in SUBSET S : h[s] = IF s = {} THEN 0 ELSE f[Pick(s)] + g[Rest(s)]
        BY <3>3
      <3>5. \A s \in SUBSET S : Cardinality(s) <= n - 1 => h[s] = g[s]
        BY <3>2, <3>4, Zenon DEF Upto
      <3>6. ASSUME NEW s \in SUBSET S, Cardinality(s) <= n, s # {} PROVE h[Rest(s)] = g[Rest(s)]
        <4>1. Rest(s) \in SUBSET S /\ Cardinality(Rest(s)) <= n - 1
          BY <3>6, RestSmaller
        <4> QED BY <3>5, <4>1
      <3>7. h = [s \in SUBSET S |-> h[s]]
        BY <3>3
      <3>8. \A s \in SUBSET S :
              Cardinality(s) <= n => h[s] = IF s = {} THEN 0 ELSE f[Pick(s)] + h[Rest(s)]
        BY <3>4, <3>6, Zenon
      <3>9. Upto(h, f, S, n)
        BY <3>7, <3>8, Zenon DEF Upto
      <3> QED BY <3>9
    <2> QED BY <2>3, <2>4
  <1>2. Cardinality(S) \in Nat
    BY FS_CardinalityType
  <1>3. PICK g : Upto(g, f, S, Cardinality(S))
    BY <1>1, <1>2
  <1>4. \A s \in SUBSET S : Cardinality(s) <= Cardinality(S)
    BY FS_Subset
  <1>5. \A s \in SUBSET S : g[s] = IF s = {} THEN 0 ELSE f[Pick(s)] + g[Rest(s)]
    BY <1>3, <1>4, Zenon DEF Upto
  <1>6. g = [s \in SUBSET S |-> g[s]]
    BY <1>3, Zenon DEF Upto
  <1>7. Adds(g, f, S)
    BY <1>5, <1>6 DEF Adds
  <1> QED BY <1>7

\* Two tables agree where their functions do.
LEMMA TablesAgree ==
  ASSUME NEW f, NEW e, NEW S, NEW R, IsFiniteSet(S), IsFiniteSet(R), NEW g, NEW h,
         Adds(g, f, S), Adds(h, e, R), NEW t, t \in SUBSET S, t \in SUBSET R,
         \A x \in t : f[x] = e[x]
  PROVE  g[t] = h[t]
  <1> DEFINE Differ(n) == \E s \in SUBSET t : Cardinality(s) = n /\ g[s] # h[s]
             Bad == {n \in Nat : Differ(n)}
  <1>1. /\ \A s \in SUBSET S : g[s] = IF s = {} THEN 0 ELSE f[Pick(s)] + g[Rest(s)]
        /\ \A s \in SUBSET R : h[s] = IF s = {} THEN 0 ELSE e[Pick(s)] + h[Rest(s)]
    BY DEF Adds
  <1>2. Bad = {}
    <2> SUFFICES ASSUME Bad # {} PROVE FALSE
      OBVIOUS
    <2>1. Bad \subseteq Nat
      OBVIOUS
    <2>2. PICK n \in Bad : \A m \in Bad : n <= m
      <3> HIDE DEF Bad
      <3> QED BY <2>1, LeastNumber
    <2>3. PICK s \in SUBSET t : Cardinality(s) = n /\ g[s] # h[s]
      BY <2>2
    <2>4. s \in SUBSET S /\ s \in SUBSET R
      BY <2>3
    <2>5. s # {}
      BY <1>1, <2>3, <2>4
    <2>6. /\ Pick(s) \in s /\ Rest(s) \in SUBSET S /\ n \in Nat /\ n >= 1
          /\ Cardinality(Rest(s)) = n - 1
      BY <2>3, <2>4, <2>5, RestSmaller
    <2>7. Rest(s) \in SUBSET t /\ n - 1 \in Nat
      BY <2>3, <2>6 DEF Rest
    <2>8. n - 1 \notin Bad
      BY <2>2, <2>6
    <2>9. g[Rest(s)] = h[Rest(s)]
      BY <2>6, <2>7, <2>8
    <2>10. f[Pick(s)] = e[Pick(s)]
      BY <2>3, <2>6
    <2> QED BY <1>1, <2>3, <2>4, <2>5, <2>9, <2>10, Zenon
  <1>3. IsFiniteSet(t)
    BY FS_Subset
  <1>4. Cardinality(t) \in Nat
    BY <1>3, FS_CardinalityType
  <1>5. ~ Differ(Cardinality(t))
    BY <1>2, <1>4
  <1>6. t \in SUBSET t
    OBVIOUS
  <1> QED BY <1>5, <1>6

\* The sum of a subset is in the table of the set.
LEMMA SumInTable ==
  ASSUME NEW f, NEW S, IsFiniteSet(S), NEW t \in SUBSET S, NEW g, Adds(g, f, S)
  PROVE  g[t] = SumOver(f, t)
  <1>1. IsFiniteSet(t)
    BY FS_Subset
  <1>2. PICK h : h = CHOOSE c : Adds(c, f, t)
    OBVIOUS
  <1>3. Adds(h, f, t)
    BY <1>1, <1>2, TableExists, Zenon
  <1>4. SumOver(f, t) = h[t]
    BY <1>2, SumIsTable, Zenon
  <1>5. t \in SUBSET t
    OBVIOUS
  <1>6. PICK e : e = f
    OBVIOUS
  <1>7. g[t] = h[t]
    <2>1. Adds(h, e, t) /\ \A x \in t : f[x] = e[x]
      BY <1>3, <1>6
    <2> QED BY <1>1, <1>5, <2>1, TablesAgree
  <1> QED BY <1>4, <1>7

\* Functions that agree on a set have the same sum.
LEMMA SumAgrees ==
  ASSUME NEW f, NEW e, NEW S, IsFiniteSet(S), \A x \in S : f[x] = e[x]
  PROVE  SumOver(f, S) = SumOver(e, S)
  <1>1. PICK g : Adds(g, f, S)
    BY TableExists
  <1>2. PICK h : Adds(h, e, S)
    BY TableExists
  <1>3. S \in SUBSET S
    OBVIOUS
  <1>4. g[S] = h[S]
    BY <1>1, <1>2, <1>3, TablesAgree
  <1> QED BY <1>1, <1>2, <1>3, <1>4, SumInTable

\* How the definition adds.
LEMMA SumStep ==
  ASSUME NEW f, NEW S, IsFiniteSet(S)
  PROVE  SumOver(f, S) = IF S = {} THEN 0 ELSE f[Pick(S)] + SumOver(f, Rest(S))
  <1>1. PICK g : Adds(g, f, S)
    BY TableExists
  <1>2. S \in SUBSET S /\ Rest(S) \in SUBSET S
    BY DEF Rest
  <1>3. g[S] = IF S = {} THEN 0 ELSE f[Pick(S)] + g[Rest(S)]
    BY <1>1, <1>2 DEF Adds
  <1>4. g[S] = SumOver(f, S)
    BY <1>1, <1>2, SumInTable
  <1>5. g[Rest(S)] = SumOver(f, Rest(S))
    BY <1>1, <1>2, SumInTable
  <1> QED BY <1>3, <1>4, <1>5

\* A sum of numbers is a number, and any element can be the first.
LEMMA SumRemove ==
  ASSUME NEW f, NEW S, IsFiniteSet(S), \A x \in S : f[x] \in Nat
  PROVE  SumOver(f, S) \in Nat /\ \A y \in S : SumOver(f, S) = f[y] + SumOver(f, S \ {y})
  <1> DEFINE Good(s) == SumOver(f, s) \in Nat /\ \A y \in s : SumOver(f, s) = f[y] + SumOver(f, s \ {y})
             Fails(n) == \E s \in SUBSET S : Cardinality(s) = n /\ ~ Good(s)
             Bad == {n \in Nat : Fails(n)}
  <1>1. Bad = {}
    <2> SUFFICES ASSUME Bad # {} PROVE FALSE
      OBVIOUS
    <2>1. Bad \subseteq Nat
      OBVIOUS
    <2>2. PICK n \in Bad : \A m \in Bad : n <= m
      <3> HIDE DEF Bad
      <3> QED BY <2>1, LeastNumber
    <2>3. PICK s \in SUBSET S : Cardinality(s) = n /\ ~ Good(s)
      BY <2>2
    <2>4. ASSUME NEW r \in SUBSET S, Cardinality(r) \in Nat, Cardinality(r) < n PROVE Good(r)
      <3>1. Cardinality(r) \notin Bad
        BY <2>2, <2>4
      <3> QED BY <2>4, <3>1
    <2>5. IsFiniteSet(s) /\ n \in Nat
      BY <2>2, FS_Subset
    <2>6. CASE s = {}
      <3>1. SumOver(f, s) = 0
        BY <2>5, <2>6, SumStep
      <3>2. Good(s)
        BY <2>6, <3>1
      <3> QED BY <2>3, <3>2
    <2>7. CASE s # {}
      <3>1. PICK p : p = Pick(s)
        OBVIOUS
      <3>2. /\ p \in s /\ s \ {p} \in SUBSET S /\ IsFiniteSet(s \ {p})
            /\ Cardinality(s \ {p}) \in Nat /\ Cardinality(s \ {p}) < n
        <4>1. /\ p \in s /\ Rest(s) \in SUBSET S /\ IsFiniteSet(Rest(s))
              /\ Cardinality(Rest(s)) = Cardinality(s) - 1 /\ Cardinality(s) >= 1
          BY <2>3, <2>7, <3>1, RestSmaller, Zenon
        <4>2. Rest(s) = s \ {p}
          BY <3>1 DEF Rest
        <4>3. Cardinality(Rest(s)) \in Nat /\ Cardinality(Rest(s)) < n
          BY <2>3, <2>5, <4>1
        <4> QED BY <4>1, <4>2, <4>3, Zenon
      <3>3. SumOver(f, s) = f[p] + SumOver(f, s \ {p})
        BY <2>5, <2>7, <3>1, SumStep DEF Rest
      <3>4. Good(s \ {p})
        BY <2>4, <3>2
      <3>5. f[p] \in Nat
        BY <2>3, <3>2
      <3>6. SumOver(f, s) \in Nat
        BY <3>3, <3>4, <3>5
      <3>7. ASSUME NEW y \in s PROVE SumOver(f, s) = f[y] + SumOver(f, s \ {y})
        <4>1. CASE y = p
          BY <3>3, <4>1
        <4>2. CASE y # p
          <5>1. y \in s \ {p} /\ p \in s \ {y} /\ s \ {y} \in SUBSET S
            BY <2>3, <3>2, <3>7, <4>2
          <5>2. Cardinality(s \ {y}) \in Nat /\ Cardinality(s \ {y}) < n
            <6>1. Cardinality(s \ {y}) = Cardinality(s) - 1
              BY <2>5, <3>7, FS_RemoveElement
            <6>2. Cardinality(s) >= 1
              BY <2>7, RestSmaller
            <6> QED BY <2>3, <2>5, <6>1, <6>2
          <5>3. Good(s \ {y})
            BY <2>4, <5>1, <5>2
          <5>4. SumOver(f, s \ {p}) = f[y] + SumOver(f, (s \ {p}) \ {y})
            BY <3>4, <5>1
          <5>5. SumOver(f, s \ {y}) = f[p] + SumOver(f, (s \ {y}) \ {p})
            BY <5>1, <5>3
          <5>6. (s \ {p}) \ {y} = (s \ {y}) \ {p}
            OBVIOUS
          <5>7. PICK u, v, w : u = SumOver(f, s \ {p}) /\ v = SumOver(f, s \ {y})
                               /\ w = SumOver(f, (s \ {p}) \ {y})
            OBVIOUS
          <5>8. SumOver(f, s) = f[p] + u /\ u = f[y] + w /\ v = f[p] + w
            BY <3>3, <5>4, <5>5, <5>6, <5>7
          <5>9. w \in Nat /\ f[y] \in Nat
            <6>1. (s \ {p}) \ {y} \in SUBSET S
              BY <5>1
            <6>2. IsFiniteSet((s \ {p}) \ {y})
              BY <6>1, FS_Subset
            <6>3. Cardinality((s \ {p}) \ {y}) = Cardinality(s \ {p}) - 1
              BY <3>2, <5>1, FS_RemoveElement
            <6>4. Cardinality((s \ {p}) \ {y}) \in Nat
              BY <6>2, FS_CardinalityType
            <6>5. PICK r \in SUBSET S : r = (s \ {p}) \ {y}
              BY <6>1
            <6>6. Cardinality(r) \in Nat /\ Cardinality(r) < n
              BY <2>5, <3>2, <6>3, <6>4, <6>5
            <6>7. Good(r)
              BY <2>4, <6>6
            <6> QED BY <2>3, <3>7, <5>7, <6>5, <6>7
          <5> QED BY <3>5, <5>7, <5>8, <5>9
        <4> QED BY <4>1, <4>2
      <3> QED BY <2>3, <3>6, <3>7
    <2> QED BY <2>6, <2>7
  <1>2. Cardinality(S) \in Nat
    BY FS_CardinalityType
  <1>3. S \in SUBSET S /\ Cardinality(S) \notin Bad
    BY <1>1
  <1>4. Good(S)
    BY <1>2, <1>3
  <1> QED BY <1>4

\* What a new element adds.
LEMMA SumAdd ==
  ASSUME NEW f, NEW S, IsFiniteSet(S), NEW y, y \notin S, \A x \in S \cup {y} : f[x] \in Nat
  PROVE  SumOver(f, S \cup {y}) = SumOver(f, S) + f[y]
  <1>1. IsFiniteSet(S \cup {y}) /\ y \in S \cup {y} /\ (S \cup {y}) \ {y} = S
    BY FS_AddElement
  <1>2. PICK T : T = S \cup {y}
    OBVIOUS
  <1>3. SumOver(f, T) = f[y] + SumOver(f, T \ {y})
    BY <1>1, <1>2, SumRemove
  <1>4. SumOver(f, S) \in Nat /\ f[y] \in Nat
    BY SumRemove
  <1> QED BY <1>1, <1>2, <1>3, <1>4


\* A set's sum is that of a part and of the rest.
LEMMA SumSplit ==
  ASSUME NEW f, NEW S, IsFiniteSet(S), \A x \in S : f[x] \in Nat, NEW T \in SUBSET S
  PROVE  SumOver(f, S) = SumOver(f, T) + SumOver(f, S \ T)
  <1> DEFINE Good(t) == SumOver(f, S) = SumOver(f, t) + SumOver(f, S \ t)
             Fails(n) == \E t \in SUBSET S : Cardinality(t) = n /\ ~ Good(t)
             Bad == {n \in Nat : Fails(n)}
  <1>0. ASSUME NEW t \in SUBSET S
        PROVE  /\ IsFiniteSet(t) /\ Cardinality(t) \in Nat /\ SumOver(f, t) \in Nat
               /\ \A y \in t : SumOver(f, t) = f[y] + SumOver(f, t \ {y})
    <2>1. IsFiniteSet(t) /\ \A x \in t : f[x] \in Nat
      BY <1>0, FS_Subset
    <2> QED BY <2>1, FS_CardinalityType, SumRemove
  <1>1. Bad = {}
    <2> SUFFICES ASSUME Bad # {} PROVE FALSE
      OBVIOUS
    <2>1. Bad \subseteq Nat
      OBVIOUS
    <2>2. PICK n \in Bad : \A m \in Bad : n <= m
      <3> HIDE DEF Bad
      <3> QED BY <2>1, LeastNumber
    <2>3. PICK t \in SUBSET S : Cardinality(t) = n /\ ~ Good(t)
      BY <2>2
    <2>4. CASE t = {}
      <3>1. SumOver(f, t) = 0 /\ S \ t = S
        BY <2>4, <1>0, SumStep
      <3>2. SumOver(f, S) \in Nat
        BY SumRemove
      <3> QED BY <2>3, <3>1, <3>2
    <2>5. CASE t # {}
      <3>1. PICK p \in t : p = Pick(t)
        BY <2>5 DEF Pick
      <3>2. PICK r \in SUBSET S : r = t \ {p}
        BY <2>3
      <3>3. Cardinality(t) = n /\ n \in Nat /\ Cardinality(r) = n - 1 /\ Cardinality(r) \in Nat
        BY <1>0, <2>3, <3>1, <3>2, FS_RemoveElement
      <3>4. n - 1 \notin Bad
        <4> HIDE DEF Bad
        <4> QED BY <2>2, <3>3
      <3>5. SumOver(f, S) = SumOver(f, r) + SumOver(f, S \ r)
        BY <3>3, <3>4
      <3>6. SumOver(f, t) = f[p] + SumOver(f, r)
        BY <1>0, <3>1, <3>2
      <3>7. PICK q \in SUBSET S : q = S \ r
        OBVIOUS
      <3>8. p \in q /\ q \ {p} = S \ t
        BY <2>3, <3>1, <3>2, <3>7
      <3>9. SumOver(f, q) = f[p] + SumOver(f, S \ t)
        BY <1>0, <3>8
      <3>10. SumOver(f, r) \in Nat /\ SumOver(f, S \ t) \in Nat /\ f[p] \in Nat
        BY <1>0, <2>3, <3>1
      <3>11. PICK a, b, c \in Nat : a = SumOver(f, r) /\ b = SumOver(f, S \ t) /\ c = f[p]
        BY <3>10
      <3>12. SumOver(f, S) = a + (c + b) /\ SumOver(f, t) = c + a
        BY <3>5, <3>6, <3>7, <3>9, <3>11
      <3>13. SumOver(f, S) = SumOver(f, t) + b
        BY <3>12
      <3>14. Good(t)
        BY <3>11, <3>13
      <3> QED BY <2>3, <3>14
    <2> QED BY <2>4, <2>5
  <1>2. Cardinality(T) \in Nat /\ Cardinality(T) \notin Bad
    BY <1>0, <1>1
  <1> QED BY <1>2

\* The sum of zeros is 0, that of ones the size of the set.
LEMMA SumConstant ==
  ASSUME NEW f, NEW S, IsFiniteSet(S), NEW c \in {0, 1}, \A x \in S : f[x] = c
  PROVE  SumOver(f, S) = IF c = 0 THEN 0 ELSE Cardinality(S)
  <1> DEFINE Good(t) == SumOver(f, t) = IF c = 0 THEN 0 ELSE Cardinality(t)
             Fails(n) == \E t \in SUBSET S : Cardinality(t) = n /\ ~ Good(t)
             Bad == {n \in Nat : Fails(n)}
  <1>0. ASSUME NEW t \in SUBSET S PROVE IsFiniteSet(t) /\ Cardinality(t) \in Nat
    BY FS_Subset, FS_CardinalityType
  <1>1. Bad = {}
    <2> SUFFICES ASSUME Bad # {} PROVE FALSE
      OBVIOUS
    <2>1. Bad \subseteq Nat
      OBVIOUS
    <2>2. PICK n \in Bad : \A m \in Bad : n <= m
      <3> HIDE DEF Bad
      <3> QED BY <2>1, LeastNumber
    <2>3. PICK t \in SUBSET S : Cardinality(t) = n /\ ~ Good(t)
      BY <2>2
    <2>4. CASE t = {}
      <3>1. SumOver(f, t) = 0 /\ Cardinality(t) = 0
        BY <2>4, <1>0, SumStep, FS_EmptySet
      <3> QED BY <2>3, <3>1
    <2>5. CASE t # {}
      <3>1. PICK p \in t : p = Pick(t)
        BY <2>5 DEF Pick
      <3>2. PICK r \in SUBSET S : r = t \ {p}
        BY <2>3
      <3>3. Cardinality(t) = n /\ n \in Nat /\ Cardinality(r) = n - 1 /\ Cardinality(r) \in Nat
        BY <1>0, <2>3, <3>1, <3>2, FS_RemoveElement
      <3>4. n - 1 \notin Bad
        <4> HIDE DEF Bad
        <4> QED BY <2>2, <3>3
      <3>5. Good(r)
        BY <3>3, <3>4
      <3>6. SumOver(f, t) = f[p] + SumOver(f, r)
        BY <1>0, <2>5, <3>1, <3>2, SumStep DEF Rest
      <3>7. f[p] = c
        BY <3>1
      <3> QED BY <2>3, <3>3, <3>5, <3>6, <3>7
    <2> QED BY <2>4, <2>5
  <1>2. S \in SUBSET S /\ Cardinality(S) \in Nat /\ Cardinality(S) \notin Bad
    BY <1>1, FS_CardinalityType
  <1>3. Good(S)
    BY <1>2
  <1> QED BY <1>3

\* What is 0 does not count.
LEMMA SumWhere ==
  ASSUME NEW f, NEW S, IsFiniteSet(S), NEW T \in SUBSET S, \A x \in T : f[x] \in Nat,
         \A x \in S \ T : f[x] = 0
  PROVE  SumOver(f, S) = SumOver(f, T) /\ SumOver(f, T) \in Nat
  <1>1. \A x \in S : f[x] \in Nat
    OBVIOUS
  <1>2. SumOver(f, S) = SumOver(f, T) + SumOver(f, S \ T)
    BY <1>1, SumSplit
  <1>3. IsFiniteSet(T) /\ IsFiniteSet(S \ T)
    BY FS_Subset
  <1>4. PICK R : R = S \ T
    OBVIOUS
  <1>5. SumOver(f, R) = 0
    BY <1>3, <1>4, SumConstant
  <1>6. SumOver(f, T) \in Nat
    BY <1>3, SumRemove
  <1> QED BY <1>2, <1>4, <1>5, <1>6

\* A sum that goes on for n elements of which at most one, the j-th, counts.
GoesOn(f, g, a, n, j, p) ==
  /\ a \in Nat /\ n \in Nat /\ p \in Nat /\ (p = 0 \/ j \in 1 .. n)
  /\ \A i \in 1 .. a : f[i] \in Nat /\ g[i] = f[i]
  /\ \A i \in 1 .. n : g[a + i] = IF i = j THEN p ELSE 0

LEMMA SumExtend ==
  ASSUME NEW f, NEW g, NEW a, NEW n, NEW j, NEW p, GoesOn(f, g, a, n, j, p)
  PROVE  SumOver(g, 1 .. a + n) = SumOver(f, 1 .. a) + p
  <1>0. /\ a \in Nat /\ n \in Nat /\ p \in Nat /\ (p = 0 \/ j \in 1 .. n)
        /\ \A i \in 1 .. a : f[i] \in Nat /\ g[i] = f[i]
        /\ \A i \in 1 .. n : g[a + i] = IF i = j THEN p ELSE 0
    BY Zenon DEF GoesOn
  <1>1. PICK S, T, R : S = 1 .. a + n /\ T = 1 .. a /\ R = S \ T
    OBVIOUS
  <1>2. IsFiniteSet(S) /\ IsFiniteSet(T) /\ IsFiniteSet(R) /\ T \in SUBSET S
    <2>1. a + n \in Int /\ T \in SUBSET S /\ R \in SUBSET S
      BY <1>0, <1>1
    <2>2. IsFiniteSet(S)
      BY <1>1, <2>1, FS_Interval
    <2> QED BY <2>1, <2>2, FS_Subset
  <1>3. ASSUME NEW x \in R PROVE x \in Int /\ x - a \in 1 .. n /\ g[x] = IF x = a + j THEN p ELSE 0
    <2>1. x \in Int /\ x - a \in 1 .. n /\ x = a + (x - a)
      BY <1>0, <1>1, <1>3
    <2>2. g[x] = IF x - a = j THEN p ELSE 0
      BY <1>0, <2>1
    <2>3. CASE p = 0
      BY <1>0, <2>1, <2>2, <2>3
    <2>4. CASE j \in 1 .. n
      BY <1>0, <2>1, <2>2, <2>4
    <2> QED BY <1>0, <2>3, <2>4
  <1>4. \A x \in T : f[x] \in Nat /\ g[x] = f[x]
    BY <1>0, <1>1
  <1>5. \A x \in S : g[x] \in Nat
    BY <1>0, <1>1, <1>3, <1>4
  <1>6. SumOver(g, S) = SumOver(g, T) + SumOver(g, R)
    <2>1. SumOver(g, S) = SumOver(g, T) + SumOver(g, S \ T)
      BY <1>2, <1>5, SumSplit
    <2> QED BY <1>1, <2>1
  <1>7. SumOver(g, T) = SumOver(f, T) /\ SumOver(f, T) \in Nat
    BY <1>2, <1>4, SumAgrees, SumRemove
  <1>8. SumOver(g, R) = p
    <2>1. CASE p = 0
      <3>1. \A x \in R : g[x] = 0
        BY <1>3, <2>1
      <3> QED BY <1>2, <2>1, <3>1, SumConstant
    <2>2. CASE j \in 1 .. n
      <3>1. PICK y \in R : y = a + j
        BY <1>0, <1>1, <2>2
      <3>2. g[y] = p /\ \A x \in R \ {y} : g[x] = 0
        BY <1>3, <3>1
      <3>3. IsFiniteSet(R \ {y})
        BY <1>2, FS_Subset
      <3>4. PICK Q : Q = R \ {y}
        OBVIOUS
      <3>5. SumOver(g, Q) = 0
        BY <3>2, <3>3, <3>4, SumConstant
      <3>6. SumOver(g, R) = g[y] + SumOver(g, Q)
        BY <1>0, <1>2, <1>3, <3>4, SumRemove
      <3> QED BY <1>0, <3>2, <3>5, <3>6
    <2> QED BY <1>0, <2>1, <2>2
  <1> QED BY <1>1, <1>6, <1>7, <1>8
=============================================================================
