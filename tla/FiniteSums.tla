--------------------------- MODULE FiniteSums ---------------------------
(* Induction over naturals and finite sets, without an operator parameter,   *)
(* and what it gives about sums over finite sets: MapThenSumSet, by which    *)
(* the modules add up money, follows the algebra of sums.                    *)
EXTENDS Integers, FiniteSets, FiniteSetTheorems, WellFoundedInduction, TLAPS

-----------------------------------------------------------------------------
(* Induction. *)

LessThan == {p \in Nat \X Nat : p[1] < p[2]}

LEMMA LessThanWellFounded == IsWellFoundedOn(LessThan, Nat)
BY NatLessThanWellFounded DEF OpToRel, LessThan

LEMMA LeastNatural ==
  ASSUME NEW T, T \subseteq Nat, T # {}
  PROVE  \E m \in T : \A n \in T : m <= n
<1>1. PICK m \in T : \A n \in T : <<n, m>> \notin LessThan
  BY LessThanWellFounded, WFMin
<1>2. ASSUME NEW n \in T, n < m PROVE FALSE
  <2>1. <<n, m>> \in Nat \X Nat
    OBVIOUS
  <2>2. <<n, m>>[1] < <<n, m>>[2]
    BY <1>2
  <2> QED BY <1>1, <2>1, <2>2 DEF LessThan
<1>3. m \in Nat /\ \A n \in T : n \in Nat
  OBVIOUS
<1> QED BY <1>2, <1>3

LEMMA NaturalsInduced ==
  ASSUME NEW T, 0 \in T, \A n \in Nat : n \in T => n + 1 \in T
  PROVE  Nat \subseteq T
<1> SUFFICES ASSUME NEW n \in Nat \ T PROVE FALSE
  OBVIOUS
<1>1. PICK m \in Nat \ T : \A k \in Nat \ T : m <= k
  BY LeastNatural
<1>2. m - 1 \in Nat
  OBVIOUS
<1>3. m - 1 \in T
  BY <1>1, <1>2
<1> QED BY <1>2, <1>3

(* A family of subsets of S that has every subset all of whose proper        *)
(* subsets it has, has all of them.                                          *)
LEMMA SubsetsInduced ==
  ASSUME NEW S, IsFiniteSet(S), NEW G,
         \A T \in SUBSET S : (\A U \in SUBSET T : U # T => U \in G) => T \in G
  PROVE  SUBSET S \subseteq G
<1> SUFFICES ASSUME NEW T \in SUBSET S, T \notin G PROVE FALSE
  OBVIOUS
<1> DEFINE Sizes == {n \in Nat : \E U \in SUBSET S : U \notin G /\ Cardinality(U) = n}
<1>1. Cardinality(T) \in Sizes
  BY FS_Subset, FS_CardinalityType
<1>2. PICK m \in Sizes : \A n \in Sizes : m <= n
  BY <1>1, LeastNatural
<1>3. PICK U \in SUBSET S : U \notin G /\ Cardinality(U) = m
  BY <1>2
<1>4. PICK V \in SUBSET U : V # U /\ V \notin G
  BY <1>3
<1>5. IsFiniteSet(U) /\ IsFiniteSet(V) /\ Cardinality(V) \in Nat /\ Cardinality(U) \in Nat
  BY <1>3, <1>4, FS_Subset, FS_CardinalityType
<1>6. Cardinality(V) <= Cardinality(U) /\ Cardinality(V) # Cardinality(U)
  BY <1>4, <1>5, FS_Subset
<1>7. Cardinality(V) \in Sizes
  BY <1>4, <1>5
<1> HIDE DEF Sizes
<1> QED BY <1>2, <1>3, <1>5, <1>6, <1>7

(* The same one element at a time. *)
LEMMA SetInduced ==
  ASSUME NEW S, IsFiniteSet(S), NEW G, {} \in G,
         \A T \in SUBSET S : \A x \in T : T \ {x} \in G => T \in G
  PROVE  S \in G
<1>1. ASSUME NEW T \in SUBSET S, \A U \in SUBSET T : U # T => U \in G PROVE T \in G
  <2>1. CASE T = {}
    BY <2>1
  <2>2. CASE T # {}
    <3>1. PICK x \in T : TRUE
      BY <2>2
    <3>2. T \ {x} \in SUBSET T /\ T \ {x} # T
      OBVIOUS
    <3> QED BY <1>1, <3>1, <3>2
  <2> QED BY <2>1, <2>2
<1> QED BY <1>1, SubsetsInduced

(* Of the values of a finite set one is the greatest. *)
LEMMA GreatestValue ==
  ASSUME NEW S, IsFiniteSet(S), S # {}, NEW g \in [S -> Nat]
  PROVE  \E p \in S : \A q \in S : g[p] >= g[q]
<1> DEFINE G == {T \in SUBSET S : T # {} => \E p \in T : \A q \in T : g[p] >= g[q]}
<1>1. {} \in G
  OBVIOUS
<1>2. ASSUME NEW T \in SUBSET S, NEW x \in T, T \ {x} \in G PROVE T \in G
  <2>1. CASE T \ {x} = {}
    <3>1. T = {x} /\ g[x] \in Nat
      BY <2>1
    <3>2. \A q \in T : g[x] >= g[q]
      BY <3>1
    <3> QED BY <3>2
  <2>2. CASE T \ {x} # {}
    <3>1. PICK p \in T \ {x} : \A q \in T \ {x} : g[p] >= g[q]
      BY <1>2, <2>2
    <3>2. \A q \in T : g[q] \in Nat
      OBVIOUS
    <3>3. CASE g[p] >= g[x]
      <4>1. \A q \in T : g[p] >= g[q]
        BY <3>1, <3>3
      <4> QED BY <4>1
    <3>4. CASE ~(g[p] >= g[x])
      <4>1. \A q \in T : g[x] >= g[q]
        BY <3>1, <3>2, <3>4
      <4> QED BY <4>1
    <3> QED BY <3>3, <3>4
  <2> QED BY <2>1, <2>2
<1> HIDE DEF G
<1>3. S \in G
  BY <1>1, <1>2, SetInduced
<1> QED BY <1>3 DEF G

-----------------------------------------------------------------------------
(* Sums of a function over a finite set, as MapThenSumSet forms them. *)

AnyOf(s) == CHOOSE x \in s : TRUE

Summing(g, R, f) ==
    f = [s \in SUBSET R |-> IF s = {} THEN 0 ELSE g[AnyOf(s)] + f[s \ {AnyOf(s)}]]

SumOver(g, R) == (CHOOSE f : Summing(g, R, f))[R]

Upto(R, n) == {s \in SUBSET R : Cardinality(s) <= n}

SummingUpto(g, R, n, f) ==
    \A s \in Upto(R, n) : f[s] = IF s = {} THEN 0 ELSE g[AnyOf(s)] + f[s \ {AnyOf(s)}]

LEMMA AnyOfIn == ASSUME NEW s, s # {} PROVE AnyOf(s) \in s
BY DEF AnyOf

LEMMA SmallerWithout ==
  ASSUME NEW R, IsFiniteSet(R), NEW n \in Nat, NEW s \in Upto(R, n + 1), s # {}
  PROVE  s \ {AnyOf(s)} \in Upto(R, n)
<1>1. IsFiniteSet(s) /\ Cardinality(s) \in Nat /\ Cardinality(s) <= n + 1
  BY FS_Subset, FS_CardinalityType DEF Upto
<1>2. Cardinality(s \ {AnyOf(s)}) = Cardinality(s) - 1
  BY <1>1, AnyOfIn, FS_RemoveElement
<1> QED BY <1>1, <1>2 DEF Upto

LEMMA SummingUptoExists ==
  ASSUME NEW R, IsFiniteSet(R), NEW D, R \subseteq D, NEW g \in [D -> Int], NEW n \in Nat
  PROVE  \E f \in [Upto(R, n) -> Int] : SummingUpto(g, R, n, f)
<1> DEFINE T == {m \in Nat : \E f \in [Upto(R, m) -> Int] : SummingUpto(g, R, m, f)}
<1>1. 0 \in T
  <2>1. \A s \in Upto(R, 0) : s = {}
    BY FS_Subset, FS_CardinalityType, FS_EmptySet DEF Upto
  <2>2. SummingUpto(g, R, 0, [s \in Upto(R, 0) |-> 0])
    BY <2>1 DEF SummingUpto
  <2>3. [s \in Upto(R, 0) |-> 0] \in [Upto(R, 0) -> Int]
    OBVIOUS
  <2> QED BY <2>2, <2>3
<1>2. ASSUME NEW m \in Nat, m \in T PROVE m + 1 \in T
  <2>1. PICK f \in [Upto(R, m) -> Int] : SummingUpto(g, R, m, f)
    BY <1>2
  <2> DEFINE h == [s \in Upto(R, m + 1) |->
                     IF s = {} THEN 0 ELSE g[AnyOf(s)] + f[s \ {AnyOf(s)}]]
  <2>2. \A s \in Upto(R, m + 1) : s # {} => s \ {AnyOf(s)} \in Upto(R, m)
    BY SmallerWithout
  <2>3. h \in [Upto(R, m + 1) -> Int]
    <3>1. ASSUME NEW s \in Upto(R, m + 1), s # {}
          PROVE  g[AnyOf(s)] + f[s \ {AnyOf(s)}] \in Int
      <4>1. AnyOf(s) \in D
        BY <3>1, AnyOfIn DEF Upto
      <4> QED BY <2>1, <2>2, <3>1, <4>1
    <3>2. ASSUME NEW s \in Upto(R, m + 1)
          PROVE  (IF s = {} THEN 0 ELSE g[AnyOf(s)] + f[s \ {AnyOf(s)}]) \in Int
      BY <3>1
    <3> QED BY <3>2, Zenon
  <2>4. Upto(R, m) \subseteq Upto(R, m + 1)
    BY FS_Subset, FS_CardinalityType DEF Upto
  <2>5. \A s \in Upto(R, m) : h[s] = f[s]
    BY <2>1, <2>4 DEF SummingUpto
  <2>6. SummingUpto(g, R, m + 1, h)
    BY <2>2, <2>5 DEF SummingUpto
  <2> HIDE DEF h
  <2> QED BY <2>3, <2>6
<1> HIDE DEF T
<1>3. n \in T
  BY <1>1, <1>2, NaturalsInduced
<1> QED BY <1>3 DEF T

LEMMA SummingExists ==
  ASSUME NEW R, IsFiniteSet(R), NEW D, R \subseteq D, NEW g \in [D -> Int]
  PROVE  \E f \in [SUBSET R -> Int] : Summing(g, R, f)
<1>1. Cardinality(R) \in Nat /\ Upto(R, Cardinality(R)) = SUBSET R
  BY FS_Subset, FS_CardinalityType DEF Upto
<1>2. PICK f \in [Upto(R, Cardinality(R)) -> Int] : SummingUpto(g, R, Cardinality(R), f)
  BY <1>1, SummingUptoExists
<1>3. f = [s \in SUBSET R |-> IF s = {} THEN 0 ELSE g[AnyOf(s)] + f[s \ {AnyOf(s)}]]
  BY <1>1, <1>2 DEF SummingUpto
<1> QED BY <1>1, <1>2, <1>3 DEF Summing

(* The choice of the elements apart, a sum depends on nothing but the values *)
(* of the function on the set.                                               *)
LEMMA SummingUnique ==
  ASSUME NEW R, NEW Q, IsFiniteSet(Q), R \subseteq Q,
         NEW g, NEW h, \A x \in R : g[x] = h[x],
         NEW f, Summing(g, R, f), NEW k, Summing(h, Q, k)
  PROVE  \A s \in SUBSET R : f[s] = k[s]
<1> DEFINE G == {s \in SUBSET R : f[s] = k[s]}
<1>1. IsFiniteSet(R)
  BY FS_Subset
<1>2. ASSUME NEW s \in SUBSET R, \A u \in SUBSET s : u # s => u \in G PROVE s \in G
  <2>1. f[s] = IF s = {} THEN 0 ELSE g[AnyOf(s)] + f[s \ {AnyOf(s)}]
    BY DEF Summing
  <2>2. k[s] = IF s = {} THEN 0 ELSE h[AnyOf(s)] + k[s \ {AnyOf(s)}]
    <3>1. s \in SUBSET Q
      OBVIOUS
    <3> QED BY <3>1 DEF Summing
  <2>3. CASE s = {}
    BY <2>1, <2>2, <2>3
  <2>4. CASE s # {}
    <3>1. AnyOf(s) \in s
      BY <2>4, AnyOfIn
    <3>2. s \ {AnyOf(s)} \in G
      BY <1>2, <3>1
    <3>3. g[AnyOf(s)] = h[AnyOf(s)]
      BY <3>1
    <3> QED BY <2>1, <2>2, <2>4, <3>2, <3>3
  <2> QED BY <2>3, <2>4
<1> HIDE DEF G
<1>3. SUBSET R \subseteq G
  BY <1>1, <1>2, SubsetsInduced
<1> QED BY <1>3 DEF G

(* f holds the sums of g over the subsets of R. *)
Sums(g, R, f) ==
    /\ f \in [SUBSET R -> Int]
    /\ Summing(g, R, f)
    /\ \A s \in SUBSET R : SumOver(g, s) = f[s]

LEMMA SumOverFact ==
  ASSUME NEW R, IsFiniteSet(R), NEW D, R \subseteq D, NEW g \in [D -> Int]
  PROVE  \E f : Sums(g, R, f)
<1>1. PICK f \in [SUBSET R -> Int] : Summing(g, R, f)
  BY SummingExists
<1>2. ASSUME NEW s \in SUBSET R PROVE SumOver(g, s) = f[s]
  <2>1. IsFiniteSet(s) /\ s \subseteq D
    BY FS_Subset
  <2>2. \E h : Summing(g, s, h)
    BY <2>1, SummingExists
  <2>3. PICK h : Summing(g, s, h) /\ SumOver(g, s) = h[s]
    BY <2>2, Zenon DEF SumOver
  <2>4. h[s] = f[s]
    BY <1>1, <2>3, SummingUnique
  <2> QED BY <2>3, <2>4
<1> QED BY <1>1, <1>2 DEF Sums

LEMMA SumType ==
  ASSUME NEW R, IsFiniteSet(R), NEW D, R \subseteq D, NEW g \in [D -> Int]
  PROVE  SumOver(g, R) \in Int
<1>1. PICK f : Sums(g, R, f)
  BY SumOverFact
<1>2. R \in SUBSET R
  OBVIOUS
<1> QED BY <1>1, <1>2 DEF Sums

LEMMA SumEmpty ==
  ASSUME NEW D, NEW g \in [D -> Int]
  PROVE  SumOver(g, {}) = 0
<1>1. PICK f : Sums(g, {}, f)
  <2>1. {} \subseteq D
    OBVIOUS
  <2> QED BY <2>1, FS_EmptySet, SumOverFact
<1>2. {} \in SUBSET {}
  OBVIOUS
<1> QED BY <1>1, <1>2 DEF Sums, Summing

(* Any element may be taken out of a sum. *)
LEMMA SumSplit ==
  ASSUME NEW R, IsFiniteSet(R), NEW D, R \subseteq D, NEW g \in [D -> Int], NEW x \in R
  PROVE  SumOver(g, R) = g[x] + SumOver(g, R \ {x})
<1>0. PICK f : Sums(g, R, f)
  BY SumOverFact
<1>1. /\ f \in [SUBSET R -> Int]
      /\ Summing(g, R, f)
      /\ \A s \in SUBSET R : SumOver(g, s) = f[s]
  BY <1>0 DEF Sums
<1> DEFINE G == {s \in SUBSET R : \A y \in s : f[s] = g[y] + f[s \ {y}]}
<1>2. \A s \in SUBSET R : s # {} => f[s] = g[AnyOf(s)] + f[s \ {AnyOf(s)}]
  BY <1>1 DEF Summing
<1>3. ASSUME NEW s \in SUBSET R, \A u \in SUBSET s : u # s => u \in G PROVE s \in G
  <2> SUFFICES ASSUME NEW y \in s PROVE f[s] = g[y] + f[s \ {y}]
    OBVIOUS
  <2> DEFINE z == AnyOf(s)
  <2>1. z \in s /\ f[s] = g[z] + f[s \ {z}]
    BY <1>2, AnyOfIn
  <2> HIDE DEF z
  <2>2. CASE z = y
    BY <2>1, <2>2
  <2>3. CASE z # y
    <3>1. s \ {z} \in G /\ s \ {y} \in G
      BY <1>3, <2>1
    <3>2. f[s \ {z}] = g[y] + f[(s \ {z}) \ {y}]
      BY <2>3, <3>1
    <3>3. f[s \ {y}] = g[z] + f[(s \ {y}) \ {z}]
      BY <2>1, <2>3, <3>1
    <3>4. (s \ {z}) \ {y} = (s \ {y}) \ {z} /\ (s \ {y}) \ {z} \in SUBSET R
      OBVIOUS
    <3>5. g[y] \in Int /\ g[z] \in Int /\ f[(s \ {y}) \ {z}] \in Int
      BY <1>1, <2>1, <3>4
    <3> DEFINE rest == f[(s \ {y}) \ {z}]
    <3>6. f[s] = g[z] + (g[y] + rest) /\ f[s \ {y}] = g[z] + rest
      BY <2>1, <3>2, <3>3, <3>4
    <3>7. rest \in Int
      BY <3>5
    <3> HIDE DEF rest
    <3> QED BY <3>5, <3>6, <3>7
  <2> QED BY <2>2, <2>3
<1> HIDE DEF G
<1>4. R \in G
  BY <1>3, SubsetsInduced
<1>5. f[R] = g[x] + f[R \ {x}]
  BY <1>4 DEF G
<1>6. R \in SUBSET R /\ R \ {x} \in SUBSET R
  OBVIOUS
<1> QED BY <1>1, <1>5, <1>6

LEMMA SumAdd ==
  ASSUME NEW R, IsFiniteSet(R), NEW D, R \subseteq D, NEW g \in [D -> Int],
         NEW x \in D, x \notin R
  PROVE  SumOver(g, R \cup {x}) = SumOver(g, R) + g[x]
<1> DEFINE Q == R \cup {x}
<1>1. IsFiniteSet(Q) /\ Q \subseteq D /\ x \in Q /\ Q \ {x} = R
  BY FS_AddElement
<1> HIDE DEF Q
<1>2. SumOver(g, Q) = g[x] + SumOver(g, R)
  BY <1>1, SumSplit
<1>3. SumOver(g, R) \in Int /\ g[x] \in Int
  BY SumType
<1> QED BY <1>2, <1>3 DEF Q

LEMMA SumRemove ==
  ASSUME NEW R, IsFiniteSet(R), NEW D, R \subseteq D, NEW g \in [D -> Int], NEW x \in R
  PROVE  SumOver(g, R \ {x}) = SumOver(g, R) - g[x]
<1>1. SumOver(g, R) = g[x] + SumOver(g, R \ {x})
  BY SumSplit
<1>2. IsFiniteSet(R \ {x}) /\ R \ {x} \subseteq D
  BY FS_Subset
<1>3. SumOver(g, R \ {x}) \in Int /\ g[x] \in Int
  BY <1>2, SumType
<1> QED BY <1>1, <1>3

(* Functions with the same values on a set have the same sum over it.        *)
LEMMA SumSame ==
  ASSUME NEW R, IsFiniteSet(R), NEW D, R \subseteq D, NEW g \in [D -> Int],
         NEW E, R \subseteq E, NEW h \in [E -> Int], \A x \in R : g[x] = h[x]
  PROVE  SumOver(g, R) = SumOver(h, R)
<1>1. PICK f : Sums(g, R, f)
  BY SumOverFact
<1>2. PICK k : Sums(h, R, k)
  BY SumOverFact
<1>3. R \in SUBSET R
  OBVIOUS
<1>4. f[R] = k[R]
  BY <1>1, <1>2, <1>3, SummingUnique DEF Sums
<1> QED BY <1>1, <1>2, <1>3, <1>4 DEF Sums

LEMMA SumOfNaturals ==
  ASSUME NEW R, IsFiniteSet(R), NEW D, R \subseteq D, NEW g \in [D -> Int],
         \A x \in R : g[x] >= 0
  PROVE  SumOver(g, R) >= 0
<1> DEFINE G == {s \in SUBSET R : SumOver(g, s) >= 0}
<1>1. {} \in G
  BY SumEmpty
<1>2. ASSUME NEW s \in SUBSET R, NEW x \in s, s \ {x} \in G PROVE s \in G
  <2>1. IsFiniteSet(s) /\ IsFiniteSet(s \ {x}) /\ s \subseteq D /\ s \ {x} \subseteq D
    BY FS_Subset
  <2>2. SumOver(g, s) = g[x] + SumOver(g, s \ {x})
    BY <2>1, SumSplit
  <2>3. SumOver(g, s \ {x}) \in Int /\ g[x] \in Int /\ g[x] >= 0
    BY <2>1, SumType
  <2> QED BY <1>2, <2>2, <2>3
<1> HIDE DEF G
<1>3. R \in G
  BY <1>1, <1>2, SetInduced
<1> QED BY <1>3 DEF G

LEMMA SumDisjoint ==
  ASSUME NEW S, IsFiniteSet(S), NEW T, IsFiniteSet(T), S \cap T = {},
         NEW D, S \subseteq D, T \subseteq D, NEW g \in [D -> Int]
  PROVE  SumOver(g, S \cup T) = SumOver(g, S) + SumOver(g, T)
<1> DEFINE G == {t \in SUBSET T : SumOver(g, S \cup t) = SumOver(g, S) + SumOver(g, t)}
<1>0. SumOver(g, S) \in Int
  BY SumType
<1>1. {} \in G
  <2>1. SumOver(g, S \cup {}) = SumOver(g, S) /\ SumOver(g, {}) = 0
    BY SumEmpty
  <2> QED BY <1>0, <2>1
<1>2. ASSUME NEW t \in SUBSET T, NEW x \in t, t \ {x} \in G PROVE t \in G
  <2> DEFINE u == S \cup t
  <2>1. /\ IsFiniteSet(t) /\ t \subseteq D /\ IsFiniteSet(t \ {x}) /\ t \ {x} \subseteq D
        /\ IsFiniteSet(u) /\ u \subseteq D
    BY FS_Subset, FS_Union
  <2>2. x \in u /\ u \ {x} = S \cup (t \ {x})
    OBVIOUS
  <2>3. SumOver(g, u) = g[x] + SumOver(g, S \cup (t \ {x}))
    <3> HIDE DEF u
    <3> QED BY <2>1, <2>2, SumSplit
  <2>4. SumOver(g, t) = g[x] + SumOver(g, t \ {x})
    BY <2>1, SumSplit
  <2>5. SumOver(g, t \ {x}) \in Int /\ g[x] \in Int
    BY <2>1, SumType
  <2>6. SumOver(g, S \cup (t \ {x})) = SumOver(g, S) + SumOver(g, t \ {x})
    BY <1>2
  <2>7. SumOver(g, u) = SumOver(g, S) + SumOver(g, t)
    BY <1>0, <2>3, <2>4, <2>5, <2>6
  <2> QED BY <2>7
<1> HIDE DEF G
<1>3. T \in G
  BY <1>1, <1>2, SetInduced
<1> QED BY <1>3 DEF G

LEMMA SumMonotone ==
  ASSUME NEW Q, IsFiniteSet(Q), NEW P, P \subseteq Q, NEW D, Q \subseteq D,
         NEW g \in [D -> Int], \A x \in Q : g[x] >= 0
  PROVE  SumOver(g, P) <= SumOver(g, Q)
<1> DEFINE rest == Q \ P
<1>1. /\ IsFiniteSet(P) /\ IsFiniteSet(rest) /\ P \cap rest = {} /\ P \cup rest = Q
      /\ P \subseteq D /\ rest \subseteq D /\ \A x \in rest : g[x] >= 0
  BY FS_Subset
<1> HIDE DEF rest
<1>2. SumOver(g, Q) = SumOver(g, P) + SumOver(g, rest)
  BY <1>1, SumDisjoint
<1>3. SumOver(g, rest) >= 0
  BY <1>1, SumOfNaturals
<1>4. SumOver(g, P) \in Int /\ SumOver(g, rest) \in Int
  BY <1>1, SumType
<1> QED BY <1>2, <1>3, <1>4

(* What is added up on the left is found, no smaller, on the right, in a     *)
(* place of its own.                                                         *)
LEMMA SumCovered ==
  ASSUME NEW R, IsFiniteSet(R), NEW D, R \subseteq D, NEW g \in [D -> Int],
         NEW Q, IsFiniteSet(Q), NEW E, Q \subseteq E, NEW h \in [E -> Int],
         \A y \in Q : h[y] >= 0,
         NEW place \in [R -> Q],
         \A x, y \in R : place[x] = place[y] => x = y,
         \A x \in R : g[x] <= h[place[x]]
  PROVE  SumOver(g, R) <= SumOver(h, Q)
<1> DEFINE Places(s) == {place[x] : x \in s}
<1> DEFINE G == {s \in SUBSET R : SumOver(g, s) <= SumOver(h, Places(s))}
<1>0. ASSUME NEW s \in SUBSET R
      PROVE  IsFiniteSet(s) /\ s \subseteq D /\ Places(s) \subseteq Q /\ IsFiniteSet(Places(s))
  <2>1. Places(s) \subseteq Q
    OBVIOUS
  <2> QED BY <2>1, FS_Subset
<1>1. {} \in G
  <2>1. Places({}) = {} /\ {} \in SUBSET R
    OBVIOUS
  <2>2. SumOver(g, {}) = 0
    BY SumEmpty
  <2>3. SumOver(h, {}) = 0
    BY SumEmpty
  <2> HIDE DEF Places
  <2> QED BY <2>1, <2>2, <2>3
<1>2. ASSUME NEW s \in SUBSET R, NEW x \in s, s \ {x} \in G PROVE s \in G
  <2>1. /\ IsFiniteSet(s) /\ s \subseteq D
        /\ IsFiniteSet(s \ {x}) /\ s \ {x} \subseteq D
        /\ IsFiniteSet(Places(s)) /\ Places(s) \subseteq E
        /\ IsFiniteSet(Places(s \ {x})) /\ Places(s \ {x}) \subseteq E
    BY <1>0
  <2>2. SumOver(g, s) = g[x] + SumOver(g, s \ {x})
    BY <2>1, SumSplit
  <2>3. place[x] \in Places(s) /\ Places(s) \ {place[x]} = Places(s \ {x})
    OBVIOUS
  <2>4. SumOver(h, Places(s)) = h[place[x]] + SumOver(h, Places(s \ {x}))
    <3> DEFINE q == Places(s)
    <3>1. IsFiniteSet(q) /\ q \subseteq E /\ place[x] \in q
      BY <2>1, <2>3
    <3> HIDE DEF q
    <3>2. SumOver(h, q) = h[place[x]] + SumOver(h, q \ {place[x]})
      BY <3>1, SumSplit
    <3> QED BY <2>3, <3>2 DEF q
  <2>5. /\ SumOver(g, s \ {x}) \in Int /\ g[x] \in Int
        /\ SumOver(h, Places(s \ {x})) \in Int /\ h[place[x]] \in Int
    <3>1. place[x] \in E
      OBVIOUS
    <3> HIDE DEF Places
    <3> QED BY <2>1, <3>1, SumType
  <2>6. SumOver(g, s \ {x}) <= SumOver(h, Places(s \ {x})) /\ g[x] <= h[place[x]]
    BY <1>2
  <2> HIDE DEF Places
  <2>7. SumOver(g, s) <= SumOver(h, Places(s))
    BY <2>2, <2>4, <2>5, <2>6
  <2> QED BY <2>7
<1>3. R \in G
  <2> HIDE DEF G
  <2> QED BY <1>1, <1>2, SetInduced
<1>4. SumOver(g, R) <= SumOver(h, Places(R)) /\ SumOver(g, R) \in Int
  BY <1>3, SumType
<1>5. IsFiniteSet(Places(R)) /\ Places(R) \subseteq Q
  BY <1>0
<1> HIDE DEF Places
<1>6. SumOver(h, Places(R)) <= SumOver(h, Q)
  BY <1>5, SumMonotone
<1>7. SumOver(h, Places(R)) \in Int /\ SumOver(h, Q) \in Int
  <2>1. Places(R) \subseteq E
    BY <1>5
  <2> QED BY <1>5, <2>1, SumType
<1> QED BY <1>4, <1>6, <1>7

=============================================================================
