------------------------------- MODULE SumProofs -------------------------------
(***************************************************************************)
(* SumOver, with which the models add up what agents own and what offers   *)
(* hold: the facts on sums that the proofs about money rest on.            *)
(***************************************************************************)
EXTENDS World, FiniteSetTheorems, TLAPS

\* The sum of naturals over a finite set is natural.
LEMMA SumInNat ==
  ASSUME NEW S, IsFiniteSet(S), NEW f, \A x \in S : f[x] \in Nat
  PROVE  /\ SumOver(S, f) \in Nat
         /\ IsFiniteSet(UNION {{x} \X (1 .. f[x]) : x \in S})
<1> DEFINE C == {{x} \X (1 .. f[x]) : x \in S}
           g == [x \in S |-> {x} \X (1 .. f[x])]
<1>1. g \in Surjection(S, C)
  BY DEF Surjection
<1>2. IsFiniteSet(C)
  <2> HIDE DEF g, C
  <2> QED
    BY <1>1, FS_Surjection
<1>3. ASSUME NEW x \in S
      PROVE  IsFiniteSet({x} \X (1 .. f[x]))
  <2>1. IsFiniteSet({x})
    BY FS_Singleton
  <2>a. f[x] \in Int /\ 1 \in Int
    OBVIOUS
  <2>2. IsFiniteSet(1 .. f[x])
    BY <2>a, FS_Interval
  <2> QED
    BY <2>1, <2>2, FS_Product
<1>4. \A D \in C : IsFiniteSet(D)
  BY <1>3
<1>5. IsFiniteSet(UNION C)
  <2> HIDE DEF C
  <2> QED
    BY <1>2, <1>4, FS_UNION
<1> QED
  BY <1>5, FS_CardinalityType DEF SumOver

\* Only the values on the set count.
LEMMA SumSame ==
  ASSUME NEW S, NEW f, NEW g, \A x \in S : f[x] = g[x]
  PROVE  SumOver(S, f) = SumOver(S, g)
<1>1. {{x} \X (1 .. f[x]) : x \in S} = {{x} \X (1 .. g[x]) : x \in S}
  OBVIOUS
<1> QED
  BY <1>1 DEF SumOver

\* The sum over two disjoint sets is the sum of the two sums.
LEMMA SumUnion ==
  ASSUME NEW S, IsFiniteSet(S), NEW T, IsFiniteSet(T), S \cap T = {},
         NEW f, \A x \in S \cup T : f[x] \in Nat
  PROVE  SumOver(S \cup T, f) = SumOver(S, f) + SumOver(T, f)
<1> DEFINE A == UNION {{x} \X (1 .. f[x]) : x \in S}
           B == UNION {{x} \X (1 .. f[x]) : x \in T}
           D == UNION {{x} \X (1 .. f[x]) : x \in S \cup T}
<1>1. IsFiniteSet(A) /\ IsFiniteSet(B)
  BY SumInNat
<1>2. D = A \cup B
  OBVIOUS
<1>3. A \cap B = {}
  OBVIOUS
<1>4. Cardinality(A) \in Nat /\ Cardinality(B) \in Nat
  BY <1>1, FS_CardinalityType
<1>a. /\ SumOver(S, f) = Cardinality(A) /\ SumOver(T, f) = Cardinality(B)
      /\ SumOver(S \cup T, f) = Cardinality(D)
  BY DEF SumOver
<1> HIDE DEF A, B, D
<1>5. Cardinality(A \cup B) = Cardinality(A) + Cardinality(B) - Cardinality(A \cap B)
  BY <1>1, FS_Union
<1>6. Cardinality(A \cap B) = 0
  BY <1>3, FS_EmptySet
<1> QED
  BY <1>a, <1>2, <1>4, <1>5, <1>6

\* A sum of nothing is zero.
LEMMA SumZero ==
  ASSUME NEW S, NEW f, \A x \in S : f[x] = 0
  PROVE  SumOver(S, f) = 0
<1>1. UNION {{x} \X (1 .. f[x]) : x \in S} = {}
  OBVIOUS
<1> QED
  BY <1>1, FS_EmptySet DEF SumOver

\* The sum over one element is its value.
LEMMA SumOne ==
  ASSUME NEW x, NEW f, f[x] \in Nat
  PROVE  SumOver({x}, f) = f[x]
<1> DEFINE I == 1 .. f[x]
           P == {x} \X I
<1>1. UNION {{y} \X (1 .. f[y]) : y \in {x}} = P
  OBVIOUS
<1>2. IsFiniteSet({x}) /\ Cardinality({x}) = 1
  BY FS_Singleton
<1>a. 1 \in Int /\ f[x] \in Int
  OBVIOUS
<1>3. IsFiniteSet(I) /\ Cardinality(I) = f[x]
  BY <1>a, FS_Interval
<1> HIDE DEF I
<1>4. Cardinality({x} \X I) = Cardinality({x}) * Cardinality(I)
  BY <1>2, <1>3, FS_Product
<1>5. Cardinality(P) = f[x]
  BY <1>2, <1>3, <1>4
<1> HIDE DEF P
<1> QED
  BY <1>1, <1>5 DEF SumOver

\* The sums that follow, for one kind of value: o is what agents own and c what
\* offers hold.  The offers in S are emptied: n of it goes to agent a.
Shifted(o, p, c, d, S, a, n) ==
  /\ \A b \in Agents : o[b] \in Nat /\ p[b] \in Nat
  /\ \A t \in Transfers : c[t] \in Nat /\ d[t] \in Nat
  /\ S \in SUBSET Transfers /\ a \in Agents /\ n \in Int
  /\ \A b \in Agents \ {a} : p[b] = o[b]
  /\ p[a] = o[a] + n
  /\ \A t \in S : d[t] = 0
  /\ \A t \in Transfers \ S : d[t] = c[t]

LEMMA EmptyingTotal ==
  ASSUME NEW o, NEW p, NEW c, NEW d, NEW S, NEW a, NEW n,
         Shifted(o, p, c, d, S, a, n)
  PROVE  /\ SumOver(Agents, p) + SumOver(Transfers, d) + SumOver(S, c)
              = SumOver(Agents, o) + SumOver(Transfers, c) + n
         /\ SumOver(Agents, p) \in Nat /\ SumOver(Transfers, d) \in Nat
         /\ SumOver(Agents, o) \in Nat /\ SumOver(Transfers, c) \in Nat
         /\ SumOver(S, c) \in Nat
<1> DEFINE B == Agents \ {a}
           U == Transfers \ S
<1>0. /\ \A b \in Agents : o[b] \in Nat /\ p[b] \in Nat
      /\ \A t \in Transfers : c[t] \in Nat /\ d[t] \in Nat
      /\ S \in SUBSET Transfers /\ a \in Agents /\ n \in Int
      /\ \A b \in B : p[b] = o[b]
      /\ p[a] = o[a] + n
      /\ \A t \in S : d[t] = 0
      /\ \A t \in U : d[t] = c[t]
  BY DEF Shifted
<1>1. /\ IsFiniteSet(Agents) /\ IsFiniteSet(Transfers) /\ IsFiniteSet(B)
      /\ IsFiniteSet(S) /\ IsFiniteSet(U) /\ IsFiniteSet({a})
  BY <1>0, WorldAssumption, FS_Subset, FS_Singleton
<1>2. B \cup {a} = Agents /\ U \cup S = Transfers /\ B \cap {a} = {} /\ U \cap S = {}
  BY <1>0
<1> HIDE DEF B, U
<1>3. /\ SumOver(Agents, o) = SumOver(B, o) + o[a]
      /\ SumOver(Agents, p) = SumOver(B, p) + p[a]
  <2>1. /\ \A b \in B \cup {a} : o[b] \in Nat /\ p[b] \in Nat
    BY <1>0, <1>2
  <2>2. SumOver({a}, o) = o[a] /\ SumOver({a}, p) = p[a]
    BY <2>1, SumOne
  <2>3. /\ SumOver(B \cup {a}, o) = SumOver(B, o) + SumOver({a}, o)
        /\ SumOver(B \cup {a}, p) = SumOver(B, p) + SumOver({a}, p)
    BY <1>1, <1>2, <2>1, SumUnion
  <2> QED
    BY <1>2, <2>2, <2>3
<1>4. /\ SumOver(Transfers, c) = SumOver(U, c) + SumOver(S, c)
      /\ SumOver(Transfers, d) = SumOver(U, d) + SumOver(S, d)
  BY <1>0, <1>1, <1>2, SumUnion
<1>5. SumOver(B, o) = SumOver(B, p)
  BY <1>0, SumSame
<1>6. SumOver(U, c) = SumOver(U, d)
  BY <1>0, SumSame
<1>7. SumOver(S, d) = 0
  BY <1>0, SumZero
<1>8. /\ SumOver(B, o) \in Nat /\ SumOver(U, c) \in Nat /\ SumOver(S, c) \in Nat
      /\ o[a] \in Nat
  BY <1>0, <1>1, SumInNat DEF B, U
<1> QED
  BY <1>0, <1>3, <1>4, <1>5, <1>6, <1>7, <1>8

\* The sum of a constant.
LEMMA SumConstant ==
  ASSUME NEW S, IsFiniteSet(S), NEW n \in Nat
  PROVE  SumOver(S, [x \in S |-> n]) = Cardinality(S) * n
<1> DEFINE I == 1 .. n
<1>1. UNION {{x} \X (1 .. [y \in S |-> n][x]) : x \in S} = S \X I
  OBVIOUS
<1>2. 1 \in Int /\ n \in Int
  OBVIOUS
<1>3. IsFiniteSet(I) /\ Cardinality(I) = n
  BY <1>2, FS_Interval
<1> HIDE DEF I
<1>4. Cardinality(S \X I) = Cardinality(S) * Cardinality(I)
  BY <1>3, FS_Product
<1> QED
  BY <1>1, <1>3, <1>4 DEF SumOver

=============================================================================
