------------------------------ MODULE SumLemmas ------------------------------
(***************************************************************************)
(* Sums over finite sets.  MapThenSumSet(f, S) is defined by a recursive     *)
(* function that takes the elements in an order chosen by CHOOSE; what is    *)
(* proved here is that the order does not matter, that sums add up over      *)
(* disjoint sets and groups, and that a sum of opposites is the opposite.    *)
(*                                                                          *)
(* Each proof is an induction over finite sets in the form the provers can   *)
(* take: if some subset failed, one of least cardinality would (Smallest),   *)
(* and without one of its elements it holds.                                 *)
(***************************************************************************)
EXTENDS FiniteSetsExt, FiniteSetTheorems, TLAPS

LEMMA LeastNat ==
  ASSUME NEW T \in SUBSET Nat, T # {}
  PROVE  \E n \in T : \A m \in T : n <= m
<1> DEFINE R == {ss \in Nat \X Nat : ss[1] < ss[2]}
<1>1. IsWellFoundedOn(R, Nat)
  BY NatLessThanWellFounded, Zenon DEF OpToRel
<1>2. \E n \in T : \A m \in T : ~(<<m, n>> \in R)
  BY <1>1, WFMin
<1>3. \A m, n \in T : m < n => <<m, n>> \in R
  OBVIOUS
<1> HIDE DEF R
<1>4. PICK n \in T : \A m \in T : ~(<<m, n>> \in R)
  BY <1>2
<1>5. ASSUME NEW m \in T PROVE n <= m
  <2>1. n \in Nat /\ m \in Nat /\ ~(m < n)
    BY <1>3, <1>4
  <2> QED  BY <2>1
<1> QED  BY <1>5

\* Induction over finite sets without a predicate to instantiate: a family of
\* finite sets has a smallest member.
LEMMA Smallest ==
  ASSUME NEW F, F # {}, \A T \in F : IsFiniteSet(T)
  PROVE  \E T \in F : \A U \in F : Cardinality(T) <= Cardinality(U)
<1> DEFINE C == {Cardinality(T) : T \in F}
<1>1. C \in SUBSET Nat /\ C # {}
  BY FS_CardinalityType
<1>2. \E n \in C : \A m \in C : n <= m
  BY <1>1, LeastNat
<1> QED  BY <1>2

Pick(s) == CHOOSE x \in s : TRUE

\* g is the recursive function a mapped sum is defined with, over f.
Sums(g, f, S) ==
  g = [s \in SUBSET S |-> IF s = {} THEN 0 ELSE f[Pick(s)] + g[s \ {Pick(s)}]]

Total(f, S) == (CHOOSE g : Sums(g, f, S))[S]

LEMMA PickIn ==
  ASSUME NEW s, s # {}
  PROVE  Pick(s) \in s
BY DEF Pick

LEMMA SumsExists ==
  ASSUME NEW f, NEW S, IsFiniteSet(S)
  PROVE  \E g : Sums(g, f, S)
<1> DEFINE Small(n) == {s \in SUBSET S : Cardinality(s) <= n}
           Eq(g, n) == g = [s \in Small(n) |-> IF s = {} THEN 0 ELSE f[Pick(s)] + g[s \ {Pick(s)}]]
           Bad == {n \in Nat : ~ \E g : Eq(g, n)}
<1>1. Bad = {}
  <2>1. SUFFICES ASSUME Bad # {} PROVE FALSE
    OBVIOUS
  <2>2. PICK n \in Bad : \A m \in Bad : n <= m
    <3>1. Bad \in SUBSET Nat
      OBVIOUS
    <3> QED  BY <2>1, <3>1, LeastNat
  <2>3. n # 0
    <3>1. SUFFICES ASSUME n = 0 PROVE FALSE
      OBVIOUS
    <3>2. \A s \in Small(0) : s = {}
      <4>1. ASSUME NEW s \in Small(0) PROVE s = {}
        <5>1. IsFiniteSet(s) /\ Cardinality(s) \in Nat
          BY FS_Subset, FS_CardinalityType
        <5> QED  BY <5>1, FS_EmptySet
      <4> QED  BY <4>1
    <3>3. Eq([s \in Small(0) |-> 0], 0)
      BY <3>2
    <3> QED  BY <3>1, <3>3
  <2>4. n - 1 \in Nat /\ n - 1 \notin Bad
    <3>1. n \in Nat
      OBVIOUS
    <3> HIDE DEF Bad
    <3> QED  BY <2>2, <2>3, <3>1
  <2>5. PICK g : Eq(g, n - 1)
    BY <2>4
  <2> DEFINE h == [s \in Small(n) |-> IF s = {} THEN 0 ELSE f[Pick(s)] + g[s \ {Pick(s)}]]
  <2>6. ASSUME NEW s \in Small(n), s # {} PROVE s \ {Pick(s)} \in Small(n - 1) /\ s \ {Pick(s)} \in Small(n)
    <3>1. IsFiniteSet(s) /\ Cardinality(s) \in Nat /\ Pick(s) \in s
      BY <2>6, FS_Subset, FS_CardinalityType, PickIn
    <3>2. Cardinality(s \ {Pick(s)}) = Cardinality(s) - 1
      BY <3>1, FS_RemoveElement
    <3> QED  BY <2>2, <3>1, <3>2
  <2>7. \A t \in Small(n - 1) : t \in Small(n) 
    <3>1. ASSUME NEW t \in Small(n - 1) PROVE t \in Small(n)
      <4>1. Cardinality(t) \in Nat
        BY FS_Subset, FS_CardinalityType
      <4> QED  BY <2>2, <4>1
    <3> QED  BY <3>1
  <2> HIDE DEF Small
  <2>8. \A t \in Small(n - 1) : h[t] = g[t]
    <3>1. ASSUME NEW t \in Small(n - 1) PROVE h[t] = g[t]
      <4>1. h[t] = IF t = {} THEN 0 ELSE f[Pick(t)] + g[t \ {Pick(t)}]
        BY <2>7
      <4>2. g[t] = IF t = {} THEN 0 ELSE f[Pick(t)] + g[t \ {Pick(t)}]
        BY <2>5
      <4> QED  BY <4>1, <4>2
    <3> QED  BY <3>1
  <2> DEFINE k == [s \in Small(n) |-> IF s = {} THEN 0 ELSE f[Pick(s)] + h[s \ {Pick(s)}]]
  <2>10. \A s \in Small(n) : h[s] = k[s]
    <3>1. ASSUME NEW s \in Small(n) PROVE h[s] = k[s]
      <4>1. h[s] = IF s = {} THEN 0 ELSE f[Pick(s)] + g[s \ {Pick(s)}]
        OBVIOUS
      <4>2. k[s] = IF s = {} THEN 0 ELSE f[Pick(s)] + h[s \ {Pick(s)}]
        OBVIOUS
      <4>3. s # {} => h[s \ {Pick(s)}] = g[s \ {Pick(s)}]
        BY <2>6, <2>8
      <4> HIDE DEF h, k
      <4> QED  BY <4>1, <4>2, <4>3
    <3> QED  BY <3>1
  <2>9. h = k
    BY <2>10
  <2>11. Eq(h, n)
    BY <2>9
  <2> QED  BY <2>2, <2>11
<1>2. Cardinality(S) \in Nat
  BY FS_CardinalityType
<1>3. PICK g : Eq(g, Cardinality(S))
  BY <1>1, <1>2
<1>4. Small(Cardinality(S)) = SUBSET S
  BY FS_Subset
<1> HIDE DEF Small
<1>5. Sums(g, f, S)
  BY <1>3, <1>4 DEF Sums
<1> QED  BY <1>5

\* Such a function is the same on a set whatever larger set it is defined for.
LEMMA SumsUnique ==
  ASSUME NEW f, NEW e, NEW g, NEW h, NEW S, NEW T, NEW U, IsFiniteSet(U),
         Sums(g, f, S), Sums(h, e, T), U \subseteq S, U \subseteq T,
         \A x \in U : f[x] = e[x]
  PROVE  g[U] = h[U]
<1> DEFINE Bad == {s \in SUBSET U : g[s] # h[s]}
<1>1. SUFFICES ASSUME Bad # {} PROVE FALSE
  OBVIOUS
<1>2. \A s \in Bad : IsFiniteSet(s)
  BY FS_Subset
<1>3. PICK s \in Bad : \A t \in Bad : Cardinality(s) <= Cardinality(t)
  BY <1>1, <1>2, Smallest
<1>4. g[s] = IF s = {} THEN 0 ELSE f[Pick(s)] + g[s \ {Pick(s)}]
  BY <1>3 DEF Sums
<1>5. h[s] = IF s = {} THEN 0 ELSE e[Pick(s)] + h[s \ {Pick(s)}]
  BY <1>3 DEF Sums
<1>6. s # {}
  BY <1>3, <1>4, <1>5
<1>7. Pick(s) \in s /\ IsFiniteSet(s)
  BY <1>2, <1>6, PickIn
<1>8. Cardinality(s) \in Nat /\ Cardinality(s \ {Pick(s)}) = Cardinality(s) - 1
  BY <1>7, FS_RemoveElement, FS_CardinalityType
<1>9. s \ {Pick(s)} \notin Bad
  BY <1>3, <1>8
<1>10. g[s \ {Pick(s)}] = h[s \ {Pick(s)}]
  BY <1>9
<1> QED  BY <1>3, <1>4, <1>5, <1>6, <1>7, <1>10

LEMMA TotalIs ==
  ASSUME NEW f, NEW g, NEW S, IsFiniteSet(S), Sums(g, f, S)
  PROVE  Total(f, S) = g[S]
<1>1. Sums(CHOOSE k : Sums(k, f, S), f, S)
  OBVIOUS
<1> QED  BY <1>1, SumsUnique DEF Total

LEMMA TotalEmpty ==
  ASSUME NEW f
  PROVE  Total(f, {}) = 0
<1>1. IsFiniteSet({})
  BY FS_EmptySet
<1>2. PICK g : Sums(g, f, {})
  BY <1>1, SumsExists
<1>3. g[{}] = 0
  BY <1>2 DEF Sums
<1> QED  BY <1>1, <1>2, <1>3, TotalIs

LEMMA TotalPick ==
  ASSUME NEW f, NEW S, IsFiniteSet(S), S # {}
  PROVE  Total(f, S) = f[Pick(S)] + Total(f, S \ {Pick(S)})
<1>1. PICK g : Sums(g, f, S)
  BY SumsExists
<1>2. Pick(S) \in S /\ IsFiniteSet(S \ {Pick(S)})
  BY PickIn, FS_RemoveElement
<1>3. PICK h : Sums(h, f, S \ {Pick(S)})
  BY <1>2, SumsExists
<1>4. g[S \ {Pick(S)}] = h[S \ {Pick(S)}]
  BY <1>1, <1>2, <1>3, SumsUnique
<1>5. Total(f, S) = g[S] /\ Total(f, S \ {Pick(S)}) = h[S \ {Pick(S)}]
  BY <1>1, <1>2, <1>3, TotalIs
<1>6. g[S] = f[Pick(S)] + g[S \ {Pick(S)}]
  BY <1>1 DEF Sums
<1> QED  BY <1>4, <1>5, <1>6

LEMMA TotalInt ==
  ASSUME NEW f, NEW S, IsFiniteSet(S), \A x \in S : f[x] \in Int
  PROVE  Total(f, S) \in Int
<1> DEFINE Bad == {s \in SUBSET S : Total(f, s) \notin Int}
<1>1. SUFFICES ASSUME Bad # {} PROVE FALSE
  OBVIOUS
<1>2. \A s \in Bad : IsFiniteSet(s)
  BY FS_Subset
<1>3. PICK s \in Bad : \A t \in Bad : Cardinality(s) <= Cardinality(t)
  BY <1>1, <1>2, Smallest
<1>4. s # {}
  BY <1>3, TotalEmpty
<1>5. Pick(s) \in s /\ IsFiniteSet(s)
  BY <1>2, <1>4, PickIn
<1>6. Cardinality(s) \in Nat /\ Cardinality(s \ {Pick(s)}) = Cardinality(s) - 1
  BY <1>5, FS_RemoveElement, FS_CardinalityType
<1>7. s \ {Pick(s)} \notin Bad
  BY <1>3, <1>6
<1>8. Total(f, s \ {Pick(s)}) \in Int
  BY <1>7
<1>9. Total(f, s) = f[Pick(s)] + Total(f, s \ {Pick(s)})
  BY <1>4, <1>5, TotalPick
<1> QED  BY <1>3, <1>5, <1>8, <1>9

\* Any element may be taken out first.
LEMMA TotalRemove ==
  ASSUME NEW f, NEW S, IsFiniteSet(S), \A x \in S : f[x] \in Int, NEW x \in S
  PROVE  Total(f, S) = f[x] + Total(f, S \ {x})
<1> DEFINE Bad == {s \in SUBSET S : \E y \in s : Total(f, s) # f[y] + Total(f, s \ {y})}
<1>1. SUFFICES ASSUME Bad # {} PROVE FALSE
  OBVIOUS
<1>2. \A s \in Bad : IsFiniteSet(s)
  BY FS_Subset
<1>3. PICK s \in Bad : \A t \in Bad : Cardinality(s) <= Cardinality(t)
  BY <1>1, <1>2, Smallest
<1>4. PICK y \in s : Total(f, s) # f[y] + Total(f, s \ {y})
  BY <1>3
<1> DEFINE p == Pick(s)
<1>5. p \in s /\ IsFiniteSet(s) /\ s \subseteq S
  BY <1>2, <1>4, PickIn
<1>6. Total(f, s) = f[p] + Total(f, s \ {p})
  BY <1>4, <1>5, TotalPick
<1>7. p # y
  BY <1>4, <1>6
<1>8. Cardinality(s) \in Nat /\ Cardinality(s \ {p}) = Cardinality(s) - 1 /\ IsFiniteSet(s \ {p})
      /\ Cardinality(s \ {y}) = Cardinality(s) - 1 /\ IsFiniteSet(s \ {y})
  BY <1>5, FS_RemoveElement, FS_CardinalityType
<1> HIDE DEF p
<1>9. s \ {p} \notin Bad /\ s \ {y} \notin Bad
  BY <1>3, <1>8
<1>10. Total(f, s \ {p}) = f[y] + Total(f, (s \ {p}) \ {y})
  BY <1>5, <1>7, <1>9
<1>11. Total(f, s \ {y}) = f[p] + Total(f, (s \ {y}) \ {p})
  BY <1>5, <1>7, <1>9
<1>12. (s \ {p}) \ {y} = (s \ {y}) \ {p} /\ IsFiniteSet((s \ {p}) \ {y})
  BY <1>8, FS_RemoveElement
<1> DEFINE z == Total(f, (s \ {p}) \ {y})
<1>13. z \in Int
  BY <1>5, <1>12, TotalInt
<1>14. Total(f, s \ {p}) = f[y] + z /\ Total(f, s \ {y}) = f[p] + z
  BY <1>10, <1>11, <1>12
<1>15. f[p] \in Int /\ f[y] \in Int
  BY <1>5
<1> HIDE DEF z
<1> QED  BY <1>4, <1>6, <1>13, <1>14, <1>15

LEMMA TotalSingle ==
  ASSUME NEW f, NEW x, f[x] \in Int
  PROVE  Total(f, {x}) = f[x]
<1>1. IsFiniteSet({x}) /\ {x} \ {x} = {}
  BY FS_Singleton
<1>2. Total(f, {x}) = f[x] + Total(f, {x} \ {x})
  BY <1>1, TotalRemove
<1> QED  BY <1>1, <1>2, TotalEmpty

\* The sum depends on the summands only.
LEMMA TotalSame ==
  ASSUME NEW f, NEW e, NEW S, IsFiniteSet(S), \A x \in S : f[x] = e[x]
  PROVE  Total(f, S) = Total(e, S)
<1>1. PICK h : Sums(h, e, S)
  BY SumsExists
<1>2. \A s \in SUBSET S : s # {} => f[Pick(s)] = e[Pick(s)]
  <2>1. ASSUME NEW s \in SUBSET S, s # {} PROVE Pick(s) \in S
    BY <2>1, PickIn
  <2> QED  BY <2>1
<1>3. Sums(h, f, S)
  BY <1>1, <1>2 DEF Sums
<1> QED  BY <1>1, <1>3, TotalIs

LEMMA TotalZero ==
  ASSUME NEW f, NEW S, IsFiniteSet(S), \A x \in S : f[x] = 0
  PROVE  Total(f, S) = 0
<1> DEFINE Bad == {s \in SUBSET S : Total(f, s) # 0}
<1>1. SUFFICES ASSUME Bad # {} PROVE FALSE
  OBVIOUS
<1>2. \A s \in Bad : IsFiniteSet(s)
  BY FS_Subset
<1>3. PICK s \in Bad : \A t \in Bad : Cardinality(s) <= Cardinality(t)
  BY <1>1, <1>2, Smallest
<1>4. s # {}
  BY <1>3, TotalEmpty
<1>5. Pick(s) \in s /\ IsFiniteSet(s)
  BY <1>2, <1>4, PickIn
<1>6. Cardinality(s) \in Nat /\ Cardinality(s \ {Pick(s)}) = Cardinality(s) - 1
  BY <1>5, FS_RemoveElement, FS_CardinalityType
<1>7. s \ {Pick(s)} \notin Bad
  BY <1>3, <1>6
<1>8. Total(f, s \ {Pick(s)}) = 0
  BY <1>7
<1>9. Total(f, s) = f[Pick(s)] + Total(f, s \ {Pick(s)})
  BY <1>4, <1>5, TotalPick
<1> QED  BY <1>3, <1>5, <1>8, <1>9

LEMMA TotalUnion ==
  ASSUME NEW f, NEW S, NEW T, IsFiniteSet(S), IsFiniteSet(T), S \cap T = {},
         \A x \in S \cup T : f[x] \in Int
  PROVE  Total(f, S \cup T) = Total(f, S) + Total(f, T)
<1> DEFINE Bad == {s \in SUBSET S : Total(f, s \cup T) # Total(f, s) + Total(f, T)}
<1>1. SUFFICES ASSUME Bad # {} PROVE FALSE
  OBVIOUS
<1>2. \A s \in Bad : IsFiniteSet(s)
  BY FS_Subset
<1>3. PICK s \in Bad : \A t \in Bad : Cardinality(s) <= Cardinality(t)
  BY <1>1, <1>2, Smallest
<1>4. s # {}
  <2>1. SUFFICES ASSUME s = {} PROVE FALSE
    OBVIOUS
  <2>2. s \cup T = T /\ Total(f, T) \in Int
    BY <2>1, TotalInt
  <2> QED  BY <1>3, <2>1, <2>2, TotalEmpty
<1>5. PICK p : p \in s
  BY <1>4
<1>6. IsFiniteSet(s) /\ s \subseteq S /\ p \in S /\ p \notin T
  BY <1>2, <1>3, <1>5
<1>7. Cardinality(s) \in Nat /\ Cardinality(s \ {p}) = Cardinality(s) - 1 /\ IsFiniteSet(s \ {p})
  BY <1>5, <1>6, FS_RemoveElement, FS_CardinalityType
<1>8. s \ {p} \notin Bad
  BY <1>3, <1>7
<1>9. Total(f, (s \ {p}) \cup T) = Total(f, s \ {p}) + Total(f, T)
  BY <1>6, <1>8
<1>10. (s \cup T) \ {p} = (s \ {p}) \cup T /\ IsFiniteSet(s \cup T)
  BY <1>6, FS_Union
<1>11. Total(f, s) = f[p] + Total(f, s \ {p})
  BY <1>5, <1>6, TotalRemove
<1>12. Total(f, s \cup T) = f[p] + Total(f, (s \cup T) \ {p})
  BY <1>5, <1>6, <1>10, TotalRemove
<1>13. /\ f[p] \in Int /\ Total(f, s \ {p}) \in Int /\ Total(f, T) \in Int
  BY <1>6, <1>7, TotalInt
<1>14. Total(f, s \cup T) # Total(f, s) + Total(f, T)
  BY <1>3
<1>15. Total(f, s \cup T) = f[p] + (Total(f, s \ {p}) + Total(f, T))
  BY <1>9, <1>10, <1>12
<1> QED  BY <1>11, <1>13, <1>14, <1>15

\* A sum by groups is the sum: B names the elements of each group of K.  This is
\* what makes a statement, a sum of sums per account or month, one sum of rows
\* (webapp/reporting.py).
THEOREM TotalFamily ==
  ASSUME NEW f, NEW S, NEW K, NEW B, NEW e, NEW U \in SUBSET S, IsFiniteSet(S), IsFiniteSet(K),
         \A x \in S : f[x] \in Int,
         \A k \in K : B[k] \in SUBSET S /\ e[k] = Total(f, B[k]),
         \A k, l \in K : k # l => B[k] \cap B[l] = {},
         \A x \in S : x \in U <=> \E k \in K : x \in B[k]
  PROVE  Total(e, K) = Total(f, U)
<1> DEFINE In(L) == {x \in S : \E k \in L : x \in B[k]}
           Bad == {L \in SUBSET K : Total(e, L) # Total(f, In(L))}
<1>0. U = In(K)
  OBVIOUS
<1>1. SUFFICES ASSUME Bad # {} PROVE FALSE
  <2>1. K \in SUBSET K
    OBVIOUS
  <2> HIDE DEF In
  <2> QED  BY <1>0, <2>1
<1>2. \A s \in Bad : IsFiniteSet(s)
  BY FS_Subset
<1>3. PICK s \in Bad : \A t \in Bad : Cardinality(s) <= Cardinality(t)
  BY <1>1, <1>2, Smallest
<1>4. s # {}
  <2>1. In({}) = {}
    OBVIOUS
  <2> QED  BY <1>3, <2>1, TotalEmpty
<1>5. PICK p : p \in s
  BY <1>4
<1>6. IsFiniteSet(s) /\ s \subseteq K /\ p \in K
  BY <1>2, <1>3, <1>5
<1>7. Cardinality(s) \in Nat /\ Cardinality(s \ {p}) = Cardinality(s) - 1 /\ IsFiniteSet(s \ {p})
  BY <1>5, <1>6, FS_RemoveElement, FS_CardinalityType
<1>8. s \ {p} \notin Bad
  BY <1>3, <1>7
<1>9. Total(e, s \ {p}) = Total(f, In(s \ {p}))
  BY <1>6, <1>8
<1>11. \A k \in K : e[k] \in Int
  <2>1. ASSUME NEW k \in K PROVE e[k] \in Int
    <3>1. IsFiniteSet(B[k]) /\ \A x \in B[k] : f[x] \in Int
      BY FS_Subset
    <3> QED  BY <3>1, TotalInt
  <2> QED  BY <2>1
<1>12. Total(e, s) = e[p] + Total(e, s \ {p})
  BY <1>5, <1>6, <1>11, TotalRemove
<1> DEFINE X == B[p]
           Y == In(s \ {p})
<1>13. In(s) = X \cup Y /\ X \cap Y = {} /\ X \subseteq S /\ Y \subseteq S
  <2>1. X \subseteq S /\ Y \subseteq S
    BY <1>6
  <2>2. X \cap Y = {}
    BY <1>6
  <2>3. In(s) = X \cup Y
    BY <1>5, <1>6
  <2> QED  BY <2>1, <2>2, <2>3
<1>14. e[p] = Total(f, X)
  BY <1>6
<1>15. IsFiniteSet(X) /\ IsFiniteSet(Y)
  BY <1>13, FS_Subset
<1>18. \A x \in X \cup Y : f[x] \in Int
  BY <1>13
<1> HIDE DEF X, Y, In
<1>16. Total(f, X \cup Y) = Total(f, X) + Total(f, Y)
  BY <1>13, <1>15, <1>18, TotalUnion
<1>17. Total(e, s) = Total(f, X) + Total(f, Y)
  BY <1>9, <1>12, <1>14 DEF Y
<1> QED  BY <1>3, <1>13, <1>16, <1>17

\* A sum of opposites, one for one.
LEMMA TotalOpposite ==
  ASSUME NEW f, NEW e, NEW b, NEW S, IsFiniteSet(S),
         \A x \in S : f[x] \in Int /\ e[b[x]] = -f[x],
         \A x, y \in S : b[x] = b[y] => x = y
  PROVE  Total(e, {b[x] : x \in S}) = -Total(f, S)
<1> DEFINE Im(s) == {b[x] : x \in s}
           Bad == {s \in SUBSET S : Total(e, Im(s)) # -Total(f, s)}
<1>1. SUFFICES ASSUME Bad # {} PROVE FALSE
  OBVIOUS
<1>2. \A s \in Bad : IsFiniteSet(s)
  BY FS_Subset
<1>3. PICK s \in Bad : \A t \in Bad : Cardinality(s) <= Cardinality(t)
  BY <1>1, <1>2, Smallest
<1>4. s # {}
  <2>1. Im({}) = {}
    OBVIOUS
  <2> QED  BY <1>3, <2>1, TotalEmpty
<1>5. PICK p : p \in s
  BY <1>4
<1>6. IsFiniteSet(s) /\ s \subseteq S /\ p \in S
  BY <1>2, <1>3, <1>5
<1>7. Cardinality(s) \in Nat /\ Cardinality(s \ {p}) = Cardinality(s) - 1 /\ IsFiniteSet(s \ {p})
  BY <1>5, <1>6, FS_RemoveElement, FS_CardinalityType
<1>8. s \ {p} \notin Bad
  BY <1>3, <1>7
<1>9. Total(e, Im(s \ {p})) = -Total(f, s \ {p})
  BY <1>6, <1>8
<1>10. Im(s) \ {b[p]} = Im(s \ {p}) /\ b[p] \in Im(s)
  BY <1>5, <1>6
<1>11. IsFiniteSet(Im(s))
  <2> DEFINE g == [x \in s |-> b[x]]
  <2>1. g \in Surjection(s, Im(s))
    BY DEF Surjection
  <2> QED  BY <1>6, <2>1, FS_Surjection
<1>12. \A y \in Im(s) : e[y] \in Int
  BY <1>6
<1> HIDE DEF Im
<1>13. Total(e, Im(s)) = e[b[p]] + Total(e, Im(s) \ {b[p]})
  BY <1>10, <1>11, <1>12, TotalRemove
<1>14. Total(f, s) = f[p] + Total(f, s \ {p})
  BY <1>5, <1>6, TotalRemove
<1>15. Total(f, s \ {p}) \in Int /\ f[p] \in Int /\ e[b[p]] = -f[p]
  BY <1>6, <1>7, TotalInt
<1>16. Total(e, Im(s)) # -Total(f, s)
  BY <1>3
<1>17. Total(e, Im(s)) = -f[p] + (-Total(f, s \ {p}))
  BY <1>9, <1>10, <1>13, <1>15
<1> QED  BY <1>14, <1>15, <1>16, <1>17

\* Elements of the same worth under other names.
LEMMA TotalRenamed ==
  ASSUME NEW f, NEW e, NEW b, NEW S, IsFiniteSet(S),
         \A x \in S : f[x] \in Int /\ e[b[x]] = f[x],
         \A x, y \in S : b[x] = b[y] => x = y
  PROVE  Total(e, {b[x] : x \in S}) = Total(f, S)
<1> DEFINE Im(s) == {b[x] : x \in s}
           Bad == {s \in SUBSET S : Total(e, Im(s)) # Total(f, s)}
<1>1. SUFFICES ASSUME Bad # {} PROVE FALSE
  OBVIOUS
<1>2. \A s \in Bad : IsFiniteSet(s)
  BY FS_Subset
<1>3. PICK s \in Bad : \A t \in Bad : Cardinality(s) <= Cardinality(t)
  BY <1>1, <1>2, Smallest
<1>4. s # {}
  <2>1. Im({}) = {}
    OBVIOUS
  <2> QED  BY <1>3, <2>1, TotalEmpty
<1>5. PICK p : p \in s
  BY <1>4
<1>6. IsFiniteSet(s) /\ s \subseteq S /\ p \in S
  BY <1>2, <1>3, <1>5
<1>7. Cardinality(s) \in Nat /\ Cardinality(s \ {p}) = Cardinality(s) - 1 /\ IsFiniteSet(s \ {p})
  BY <1>5, <1>6, FS_RemoveElement, FS_CardinalityType
<1>8. s \ {p} \notin Bad
  BY <1>3, <1>7
<1>9. Total(e, Im(s \ {p})) = Total(f, s \ {p})
  BY <1>6, <1>8
<1>10. Im(s) \ {b[p]} = Im(s \ {p}) /\ b[p] \in Im(s)
  BY <1>5, <1>6
<1>11. IsFiniteSet(Im(s))
  <2> DEFINE g == [x \in s |-> b[x]]
  <2>1. g \in Surjection(s, Im(s))
    BY DEF Surjection
  <2> QED  BY <1>6, <2>1, FS_Surjection
<1>12. \A y \in Im(s) : e[y] \in Int
  BY <1>6
<1> HIDE DEF Im
<1>13. Total(e, Im(s)) = e[b[p]] + Total(e, Im(s) \ {b[p]})
  BY <1>10, <1>11, <1>12, TotalRemove
<1>14. Total(f, s) = f[p] + Total(f, s \ {p})
  BY <1>5, <1>6, TotalRemove
<1>15. e[b[p]] = f[p]
  BY <1>6
<1>16. Total(e, Im(s)) # Total(f, s)
  BY <1>3
<1> QED  BY <1>9, <1>10, <1>13, <1>14, <1>15, <1>16

\* Elements of equal worth: named by distinct names b, each is worth c.
LEMMA TotalEach ==
  ASSUME NEW e, NEW b, NEW c \in Int, NEW S, IsFiniteSet(S),
         \A x \in S : e[b[x]] = c,
         \A x, y \in S : b[x] = b[y] => x = y
  PROVE  Total(e, {b[x] : x \in S}) = c * Cardinality(S)
<1> DEFINE Im(s) == {b[x] : x \in s}
           Bad == {s \in SUBSET S : Total(e, Im(s)) # c * Cardinality(s)}
<1>1. SUFFICES ASSUME Bad # {} PROVE FALSE
  OBVIOUS
<1>2. \A s \in Bad : IsFiniteSet(s)
  BY FS_Subset
<1>3. PICK s \in Bad : \A t \in Bad : Cardinality(s) <= Cardinality(t)
  BY <1>1, <1>2, Smallest
<1>4. s # {}
  <2>1. Im({}) = {} /\ Cardinality({}) = 0 /\ c * 0 = 0
    BY FS_EmptySet
  <2> QED  BY <1>3, <2>1, TotalEmpty
<1>5. PICK p : p \in s
  BY <1>4
<1>6. IsFiniteSet(s) /\ s \subseteq S /\ p \in S
  BY <1>2, <1>3, <1>5
<1>7. Cardinality(s) \in Nat /\ Cardinality(s \ {p}) = Cardinality(s) - 1 /\ IsFiniteSet(s \ {p})
  BY <1>5, <1>6, FS_RemoveElement, FS_CardinalityType
<1>8. s \ {p} \notin Bad
  BY <1>3, <1>7
<1>9. Total(e, Im(s \ {p})) = c * Cardinality(s \ {p})
  BY <1>6, <1>8
<1>10. Im(s) \ {b[p]} = Im(s \ {p}) /\ b[p] \in Im(s)
  BY <1>5, <1>6
<1>11. IsFiniteSet(Im(s))
  <2> DEFINE g == [x \in s |-> b[x]]
  <2>1. g \in Surjection(s, Im(s))
    BY DEF Surjection
  <2> QED  BY <1>6, <2>1, FS_Surjection
<1>12. \A y \in Im(s) : e[y] \in Int
  BY <1>6
<1> HIDE DEF Im
<1>13. Total(e, Im(s)) = e[b[p]] + Total(e, Im(s) \ {b[p]})
  BY <1>10, <1>11, <1>12, TotalRemove
<1>14. PICK n \in Nat : n = Cardinality(s)
  BY <1>7
<1>15. c + c * (n - 1) = c * n
  OBVIOUS
<1>16. Total(e, Im(s)) # c * n
  BY <1>3, <1>14
<1>17. Total(e, Im(s)) = c + c * (n - 1)
  BY <1>6, <1>7, <1>9, <1>10, <1>13, <1>14
<1> QED  BY <1>15, <1>16, <1>17

=============================================================================
