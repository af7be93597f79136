----------------------------- MODULE Sums_proofs -----------------------------
(***************************************************************************)
(* What the accounting proofs use of sums over finite sets: they are       *)
(* natural numbers, additive over disjoint sets, monotonic, the same for   *)
(* functions that agree, and kept by renaming the elements.  And of walks  *)
(* in chunks: a chunk has everything up to its last element, and one that  *)
(* is not full has everything there is.                                    *)
(***************************************************************************)
EXTENDS Sums, Chunks, FiniteSetTheorems, WellFoundedInduction, TLAPS

\* A pair is a unit of S iff it is one of an element of S.
LEMMA UnitsMember ==
  ASSUME NEW f, NEW S, NEW u
  PROVE  u \in UnitsOf(f, S) <=> \E x \in S : \E n \in 1..f[x] : u = <<x, n>>
  BY DEF UnitsOf

\* One element has as many units as its value.
LEMMA UnitsOfOne ==
  ASSUME NEW f, NEW x, f[x] \in Nat
  PROVE  IsFiniteSet({x} \X (1..f[x])) /\ Cardinality({x} \X (1..f[x])) = f[x]
  <1>0. PICK k \in Nat : k = f[x]
    OBVIOUS
  <1>1. IsFiniteSet(1..f[x]) /\ Cardinality(1..f[x]) = f[x]
    <2>1. IsFiniteSet(1..k) /\ Cardinality(1..k) = k
      BY FS_Interval
    <2> QED BY <1>0, <2>1
  <1>2. IsFiniteSet({x}) /\ Cardinality({x}) = 1
    BY FS_Singleton
  <1>3. IsFiniteSet({x} \X (1..f[x])) /\ Cardinality({x} \X (1..f[x])) = 1 * f[x]
    BY <1>1, <1>2, FS_Product
  <1> QED BY <1>3

\* The units of a finite set are finite.
LEMMA UnitsFinite ==
  ASSUME NEW f, NEW S, IsFiniteSet(S), \A x \in S : f[x] \in Nat
  PROVE  IsFiniteSet(UnitsOf(f, S))
  <1> DEFINE h == [x \in S |-> {x} \X (1..f[x])]
             T == {{x} \X (1..f[x]) : x \in S}
  <1>1. h \in Surjection(S, T)
    BY DEF Surjection
  <1>2. IsFiniteSet(T)
    BY <1>1, FS_Surjection
  <1>3. \A t \in T : IsFiniteSet(t)
    BY UnitsOfOne
  <1>4. IsFiniteSet(UNION T)
    BY <1>2, <1>3, FS_UNION
  <1> QED BY <1>4 DEF UnitsOf

\* A sum of natural numbers is one.
LEMMA SumNat ==
  ASSUME NEW f, NEW S, IsFiniteSet(S), \A x \in S : f[x] \in Nat
  PROVE  SumOver(f, S) \in Nat
  BY UnitsFinite, FS_CardinalityType DEF SumOver

\* Nothing sums up to zero.
LEMMA SumEmpty == \A f : SumOver(f, {}) = 0
  BY FS_EmptySet DEF SumOver, UnitsOf

\* Zeros sum up to zero.
LEMMA SumZero ==
  ASSUME NEW f, NEW S, \A x \in S : f[x] = 0
  PROVE  SumOver(f, S) = 0
  <1>1. UnitsOf(f, S) = {}
    BY UnitsMember
  <1> QED BY <1>1, FS_EmptySet DEF SumOver

\* Sums over disjoint sets add up.
LEMMA SumDisjoint ==
  ASSUME NEW f, NEW A, NEW B, IsFiniteSet(A), IsFiniteSet(B), A \cap B = {},
         \A x \in A \cup B : f[x] \in Nat
  PROVE  SumOver(f, A \cup B) = SumOver(f, A) + SumOver(f, B)
  <1>1. IsFiniteSet(UnitsOf(f, A)) /\ IsFiniteSet(UnitsOf(f, B))
    BY UnitsFinite
  <1>2. UnitsOf(f, A \cup B) = UnitsOf(f, A) \cup UnitsOf(f, B)
    BY DEF UnitsOf
  <1>3. UnitsOf(f, A) \cap UnitsOf(f, B) = {}
    <2> SUFFICES ASSUME NEW u \in UnitsOf(f, A), u \in UnitsOf(f, B) PROVE FALSE
      OBVIOUS
    <2>1. PICK x \in A : \E n \in 1..f[x] : u = <<x, n>>
      BY UnitsMember
    <2>2. PICK y \in B : \E n \in 1..f[y] : u = <<y, n>>
      BY UnitsMember
    <2>3. x = y
      BY <2>1, <2>2
    <2> QED BY <2>3
  <1>4. Cardinality(UnitsOf(f, A) \cup UnitsOf(f, B))
          = Cardinality(UnitsOf(f, A)) + Cardinality(UnitsOf(f, B))
            - Cardinality(UnitsOf(f, A) \cap UnitsOf(f, B))
    BY <1>1, FS_Union
  <1>5. Cardinality(UnitsOf(f, A) \cap UnitsOf(f, B)) = 0
    BY <1>3, FS_EmptySet
  <1>6. SumOver(f, A) \in Nat /\ SumOver(f, B) \in Nat
    BY SumNat
  <1>7. SumOver(f, A \cup B) = Cardinality(UnitsOf(f, A) \cup UnitsOf(f, B))
    BY <1>2 DEF SumOver
  <1>8. SumOver(f, A \cup B) = SumOver(f, A) + SumOver(f, B) - 0
    BY <1>4, <1>5, <1>7 DEF SumOver
  <1> QED BY <1>6, <1>8

\* The sum over one element is its value.
LEMMA SumOne ==
  ASSUME NEW f, NEW x, f[x] \in Nat
  PROVE  SumOver(f, {x}) = f[x]
  <1>1. UnitsOf(f, {x}) = {x} \X (1..f[x])
    BY DEF UnitsOf
  <1> QED BY <1>1, UnitsOfOne DEF SumOver

\* A new element adds its value.
LEMMA SumAdd ==
  ASSUME NEW f, NEW S, NEW x, IsFiniteSet(S), x \notin S, f[x] \in Nat, \A y \in S : f[y] \in Nat
  PROVE  SumOver(f, S \cup {x}) = SumOver(f, S) + f[x]
  <1>1. IsFiniteSet({x}) /\ S \cap {x} = {}
    BY FS_Singleton
  <1>2. SumOver(f, S \cup {x}) = SumOver(f, S) + SumOver(f, {x})
    BY <1>1, SumDisjoint
  <1> QED BY <1>2, SumOne

\* A subset has at most the sum, and the rest has the difference.
LEMMA SumSubset ==
  ASSUME NEW f, NEW S, NEW R, IsFiniteSet(S), R \subseteq S, \A x \in S : f[x] \in Nat
  PROVE  /\ SumOver(f, R) <= SumOver(f, S)
         /\ SumOver(f, S \ R) = SumOver(f, S) - SumOver(f, R)
         /\ SumOver(f, R) \in Nat /\ SumOver(f, S) \in Nat
  <1>1. IsFiniteSet(R) /\ IsFiniteSet(S \ R)
    BY FS_Subset, FS_Difference
  <1>2. R \cup (S \ R) = S /\ R \cap (S \ R) = {}
    OBVIOUS
  <1>3. SumOver(f, R \cup (S \ R)) = SumOver(f, R) + SumOver(f, S \ R)
    BY <1>1, <1>2, SumDisjoint
  <1>4. SumOver(f, R) \in Nat /\ SumOver(f, S \ R) \in Nat /\ SumOver(f, S) \in Nat
    BY <1>1, SumNat
  <1>5. SumOver(f, R \cup (S \ R)) = SumOver(f, S)
    BY <1>2
  <1> QED BY <1>3, <1>4, <1>5

\* Functions that agree on the set have the same sum.
LEMMA SumSame ==
  ASSUME NEW f, NEW g, NEW S, \A x \in S : f[x] = g[x]
  PROVE  SumOver(f, S) = SumOver(g, S)
  <1>1. UnitsOf(f, S) = UnitsOf(g, S)
    BY DEF UnitsOf
  <1> QED BY <1>1 DEF SumOver

\* A value that changes at one element changes the sum by the difference.
LEMMA SumChange ==
  ASSUME NEW f, NEW g, NEW S, NEW x \in S, IsFiniteSet(S), \A y \in S : f[y] \in Nat /\ g[y] \in Nat,
         \A y \in S : y # x => g[y] = f[y]
  PROVE  /\ SumOver(g, S) = SumOver(f, S) - f[x] + g[x]
         /\ SumOver(f, S) \in Nat /\ SumOver(g, S) \in Nat /\ SumOver(f, S) >= f[x]
  <1>1. SumOver(f, S \ {x}) = SumOver(f, S) - SumOver(f, {x}) /\ SumOver(f, {x}) <= SumOver(f, S)
    BY SumSubset
  <1>2. SumOver(g, S \ {x}) = SumOver(g, S) - SumOver(g, {x})
    BY SumSubset
  <1>3. SumOver(f, S \ {x}) = SumOver(g, S \ {x})
    BY SumSame
  <1>4. SumOver(f, {x}) = f[x] /\ SumOver(g, {x}) = g[x]
    BY SumOne
  <1>5. SumOver(f, S) \in Nat /\ SumOver(g, S) \in Nat
    BY SumNat
  <1> QED BY <1>1, <1>2, <1>3, <1>4, <1>5

\* Smaller values have a smaller sum.
LEMMA SumMonotone ==
  ASSUME NEW f, NEW g, NEW S, IsFiniteSet(S), \A y \in S : f[y] \in Nat /\ g[y] \in Nat /\ f[y] <= g[y]
  PROVE  SumOver(f, S) <= SumOver(g, S) /\ SumOver(f, S) \in Nat /\ SumOver(g, S) \in Nat
  <1>1. UnitsOf(f, S) \subseteq UnitsOf(g, S)
    <2> SUFFICES ASSUME NEW u \in UnitsOf(f, S) PROVE u \in UnitsOf(g, S)
      OBVIOUS
    <2>1. PICK x \in S : \E n \in 1..f[x] : u = <<x, n>>
      BY UnitsMember
    <2>2. \E n \in 1..g[x] : u = <<x, n>>
      BY <2>1
    <2> QED BY <2>2, UnitsMember
  <1>2. IsFiniteSet(UnitsOf(g, S))
    BY UnitsFinite
  <1> QED BY <1>1, <1>2, FS_Subset, SumNat DEF SumOver

\* Renaming the elements one to one keeps the sum.
LEMMA SumRename ==
  ASSUME NEW f, NEW g, NEW S, NEW T, NEW b \in Bijection(S, T), IsFiniteSet(S),
         \A x \in S : f[x] \in Nat /\ g[b[x]] = f[x]
  PROVE  SumOver(g, T) = SumOver(f, S)
  <1> DEFINE U == UnitsOf(f, S)
             V == UnitsOf(g, T)
             h == [u \in U |-> <<b[u[1]], u[2]>>]
  <1>0. /\ b \in [S -> T]
        /\ \A x, y \in S : b[x] = b[y] => x = y
        /\ \A y \in T : \E x \in S : b[x] = y
    BY DEF Bijection, Injection, Surjection, IsInjective
  <1>1. \A u \in U : u[1] \in S /\ u[2] \in 1..f[u[1]] /\ u = <<u[1], u[2]>>
    BY UnitsMember
  <1>2. h \in [U -> V]
    <2> SUFFICES ASSUME NEW u \in U PROVE <<b[u[1]], u[2]>> \in V
      OBVIOUS
    <2>1. u[1] \in S /\ u[2] \in 1..f[u[1]]
      BY <1>1
    <2>2. b[u[1]] \in T /\ u[2] \in 1..g[b[u[1]]]
      BY <2>1, <1>0
    <2> QED BY <2>2, UnitsMember
  <1>3. \A u, v \in U : h[u] = h[v] => u = v
    <2> SUFFICES ASSUME NEW u \in U, NEW v \in U, h[u] = h[v] PROVE u = v
      OBVIOUS
    <2>1. b[u[1]] = b[v[1]] /\ u[2] = v[2]
      OBVIOUS
    <2>2. u[1] = v[1]
      BY <2>1, <1>0, <1>1
    <2> QED BY <2>1, <2>2, <1>1
  <1>4. \A v \in V : \E u \in U : h[u] = v
    <2> SUFFICES ASSUME NEW v \in V PROVE \E u \in U : h[u] = v
      OBVIOUS
    <2>0. PICK y \in T : \E n \in 1..g[y] : v = <<y, n>>
      BY UnitsMember
    <2>1. PICK n \in 1..g[y] : v = <<y, n>>
      BY <2>0
    <2>2. PICK x \in S : b[x] = y
      BY <1>0
    <2>3. <<x, n>> \in U
      BY <2>1, <2>2, UnitsMember
    <2>4. h[<<x, n>>] = <<y, n>>
      BY <2>2, <2>3
    <2> QED BY <2>1, <2>3, <2>4
  <1>5. h \in Bijection(U, V)
    BY <1>2, <1>3, <1>4 DEF Bijection, Injection, Surjection, IsInjective
  <1>6. IsFiniteSet(U)
    BY UnitsFinite
  <1>7. ExistsBijection(U, V)
    BY <1>5 DEF ExistsBijection
  <1>8. Cardinality(V) = Cardinality(U)
    <2> HIDE DEF U, V
    <2> QED BY <1>6, <1>7, FS_Bijection
  <1> QED BY <1>8 DEF SumOver

-----------------------------------------------------------------------------
(* Numbers in order, and the chunks of a walk over them *)

\* A set of numbers has a least one.
LEMMA LeastNumber ==
  ASSUME NEW S, S \subseteq Nat, S # {}
  PROVE  \E x \in S : \A y \in S : x <= y
  <1> DEFINE R == OpToRel(<, Nat)
  <1>1. \A x, y \in Nat : x < y => <<x, y>> \in R
    BY DEF OpToRel
  <1>2. IsWellFoundedOn(R, Nat)
    BY NatLessThanWellFounded
  <1>3. \E x \in S : \A y \in S : ~ (<<y, x>> \in R)
    <2> HIDE DEF R
    <2> QED BY <1>2, WFMin
  <1>4. \A x, y \in Nat : ~(x <= y) => y < x
    OBVIOUS
  <1> HIDE DEF R
  <1> QED BY <1>1, <1>3, <1>4

\* A finite set of numbers has a greatest one.
LEMMA GreatestNumber ==
  ASSUME NEW S, S \subseteq Nat, S # {}, IsFiniteSet(S)
  PROVE  Max(S) \in S /\ \A y \in S : y <= Max(S)
  <1>1. SUFFICES \E x \in S : \A y \in S : y <= x
    BY DEF Max
  <1> DEFINE Rest(x) == {y \in S : y > x}
             Counts == {Cardinality(Rest(x)) : x \in S}
  <1>2. \A x \in S : IsFiniteSet(Rest(x)) /\ Cardinality(Rest(x)) \in Nat
    BY FS_Subset, FS_CardinalityType
  <1>3. PICK x \in S : \A y \in S : Cardinality(Rest(x)) <= Cardinality(Rest(y))
    <2>1. Counts \subseteq Nat /\ Counts # {}
      BY <1>2
    <2>2. \E n \in Counts : \A m \in Counts : n <= m
      BY <2>1, LeastNumber
    <2> QED BY <2>2
  <1>4. \A y \in S : y <= x
    <2> SUFFICES ASSUME NEW y \in S, y > x PROVE FALSE
      OBVIOUS
    <2>0. x \in Nat /\ y \in Nat /\ \A z \in S : z \in Nat
      OBVIOUS
    <2>1. Rest(y) \subseteq Rest(x) \ {y} /\ y \in Rest(x)
      <3>1. \A z \in S : z > y => z > x /\ z # y
        BY <2>0
      <3> QED BY <3>1
    <2>2. Cardinality(Rest(x) \ {y}) = Cardinality(Rest(x)) - 1 /\ IsFiniteSet(Rest(x) \ {y})
      BY <2>1, <1>2, FS_RemoveElement
    <2>3. Cardinality(Rest(y)) <= Cardinality(Rest(x) \ {y})
      BY <2>1, <2>2, FS_Subset
    <2> QED BY <2>2, <2>3, <1>2, <1>3
  <1> QED BY <1>4

\* Every element up to one of the first is among the first.
LEMMA FirstClosed ==
  ASSUME NEW S, S \subseteq Nat, IsFiniteSet(S), NEW n \in Nat, NEW k \in FirstOf(n, S), NEW j \in S, j <= k
  PROVE  j \in FirstOf(n, S)
  <1> DEFINE B(x) == {y \in S : y < x}
  <1>0. k \in Nat /\ j \in Nat /\ \A z \in S : z \in Nat
    BY DEF FirstOf
  <1>1. B(j) \subseteq B(k) /\ B(k) \subseteq S
    <2>1. \A z \in S : z < j => z < k
      BY <1>0
    <2> QED BY <2>1
  <1>2. Cardinality(B(j)) <= Cardinality(B(k)) /\ Cardinality(B(j)) \in Nat /\ Cardinality(B(k)) \in Nat
    <2>1. IsFiniteSet(B(k)) /\ IsFiniteSet(B(j))
      BY <1>1, FS_Subset
    <2> QED BY <1>1, <2>1, FS_Subset, FS_CardinalityType
  <1>3. Cardinality(B(k)) < n
    BY DEF FirstOf
  <1>4. Cardinality(B(j)) < n
    BY <1>2, <1>3
  <1> QED BY <1>4 DEF FirstOf

\* A chunk that is not full holds everything.
LEMMA FirstFull ==
  ASSUME NEW S, S \subseteq Nat, IsFiniteSet(S), NEW n \in Nat, Cardinality(FirstOf(n, S)) # n
  PROVE  FirstOf(n, S) = S
  <1> DEFINE F == FirstOf(n, S)
             B(x) == {y \in S : y < x}
  <1>1. F \subseteq S /\ \A x \in S : x \in F <=> Cardinality(B(x)) < n
    BY DEF FirstOf
  <1>2. IsFiniteSet(F) /\ Cardinality(F) \in Nat /\ \A x \in S : IsFiniteSet(B(x)) /\ Cardinality(B(x)) \in Nat
    BY <1>1, FS_Subset, FS_CardinalityType
  <1>3. \A x \in F, y \in S : y <= x => y \in F
    BY FirstClosed
  <1>4. \A x, y \in S : x \in B(y) <=> x < y
    OBVIOUS
  <1>5. \A x \in S : x \in Nat /\ B(x) \subseteq S
    OBVIOUS
  <1>6. Cardinality(F) # n
    OBVIOUS
  <1> HIDE DEF F, B
  <1> SUFFICES ASSUME S \ F # {} PROVE FALSE
    BY <1>1 DEF F
  <1>7. PICK k \in S \ F : \A y \in S \ F : k <= y
    BY LeastNumber
  <1>8. B(k) = F
    <2>1. \A z \in S : z < k => z \in F
      BY <1>5, <1>7
    <2>2. \A x \in F : x < k
      BY <1>1, <1>3, <1>5, <1>7
    <2> QED BY <2>1, <2>2, <1>1, <1>4, <1>5
  <1>9. Cardinality(F) >= n
    BY <1>1, <1>2, <1>7, <1>8
  <1>10. F # {}
    <2>1. ASSUME F = {} PROVE FALSE
      <3>1. Cardinality(F) = 0
        BY <2>1, FS_EmptySet
      <3> QED BY <3>1, <1>6, <1>9
    <2> QED BY <2>1
  <1> DEFINE m == Max(F)
  <1>11. m \in F /\ \A y \in F : y <= m
    BY <1>10, <1>1, <1>2, <1>5, GreatestNumber
  <1> HIDE DEF m
  <1>12. \A y \in F \ {m} : y \in B(m)
    BY <1>11, <1>1, <1>4, <1>5
  <1>13. Cardinality(F \ {m}) = Cardinality(F) - 1 /\ IsFiniteSet(F \ {m})
    BY <1>11, <1>2, FS_RemoveElement
  <1>14. Cardinality(F \ {m}) <= Cardinality(B(m))
    BY <1>1, <1>2, <1>11, <1>12, FS_Subset
  <1>15. Cardinality(B(m)) < n /\ Cardinality(B(m)) \in Nat
    BY <1>1, <1>2, <1>11
  <1> QED BY <1>2, <1>6, <1>9, <1>13, <1>14, <1>15

\* A walk over a table in chunks: a chunk is of the table, there is one while
\* something is ahead of the cursor, and what is not after its last key was
\* behind the cursor or is in it.
LEMMA ChunkWalk ==
  ASSUME NEW S, S \subseteq Nat, IsFiniteSet(S), NEW n \in Nat \ {0}, NEW cursor \in Nat,
         NEW chunk, chunk = FirstOf(n, AheadOf(S, cursor))
  PROVE  /\ chunk \subseteq S
         /\ AheadOf(S, cursor) # {} => chunk # {}
         /\ chunk # {} => /\ Max(chunk) \in Nat /\ Max(chunk) \in chunk
                          /\ \A k \in S : k <= Max(chunk) => k <= cursor \/ k \in chunk
  <1> DEFINE ahead == AheadOf(S, cursor)
  <1>1. ahead \subseteq S /\ ahead \subseteq Nat /\ \A k \in S : k \in ahead <=> ~(k <= cursor)
    <2>1. \A k \in S : k \in ahead <=> k > cursor
      BY DEF AheadOf
    <2>2. ASSUME NEW k \in S PROVE k \in ahead <=> ~(k <= cursor)
      <3>1. k \in Nat
        OBVIOUS
      <3> HIDE DEF ahead
      <3> QED BY <2>1, <3>1
    <2>3. ahead \subseteq S
      BY DEF AheadOf
    <2> QED BY <2>2, <2>3
  <1>2. IsFiniteSet(ahead)
    BY <1>1, FS_Subset
  <1>3. chunk \subseteq ahead
    BY DEF FirstOf
  <1> HIDE DEF ahead
  <1>4. chunk = FirstOf(n, ahead)
    BY DEF ahead
  <1>5. ahead # {} => chunk # {}
    <2>1. CASE Cardinality(chunk) = n
      BY <2>1, FS_EmptySet
    <2>2. CASE Cardinality(chunk) # n
      <3>1. chunk = ahead
        BY <1>1, <1>2, <1>4, <2>2, FirstFull
      <3> QED BY <3>1
    <2> QED BY <2>1, <2>2
  <1>6. ASSUME chunk # {}
        PROVE  /\ Max(chunk) \in Nat /\ Max(chunk) \in chunk
               /\ \A k \in S : k <= Max(chunk) => k <= cursor \/ k \in chunk
    <2>1. chunk \subseteq Nat /\ IsFiniteSet(chunk)
      BY <1>1, <1>2, <1>3, FS_Subset
    <2>2. Max(chunk) \in chunk
      BY <1>6, <2>1, GreatestNumber
    <2>3. ASSUME NEW p \in FirstOf(n, ahead), NEW k \in ahead, k <= p
          PROVE  k \in FirstOf(n, ahead)
      BY <2>3, <1>1, <1>2, FirstClosed
    <2>4. \A k \in ahead : k <= Max(chunk) => k \in chunk
      BY <1>4, <2>2, <2>3
    <2>5. Max(chunk) \in Nat
      BY <2>1, <2>2
    <2>6. \A k \in S : k <= Max(chunk) => k <= cursor \/ k \in chunk
      BY <1>1, <2>4
    <2> QED BY <2>2, <2>5, <2>6
  <1> QED BY <1>1, <1>3, <1>5, <1>6 DEF ahead

-----------------------------------------------------------------------------
(* Walks *)

\* What holds at 0 and is kept by each step holds up to n.
LEMMA WalkInduct ==
  ASSUME NEW D, NEW n \in Nat, NEW f, f[0] \in D, \A k \in 1..n : f[k - 1] \in D => f[k] \in D
  PROVE  \A k \in 0..n : f[k] \in D
  <1> DEFINE S == {k \in 0..n : f[k] \notin D}
  <1>1. SUFFICES ASSUME S # {} PROVE FALSE
    OBVIOUS
  <1>0. S \subseteq Nat
    OBVIOUS
  <1>2. PICK x \in S : \A y \in S : x <= y
    <2> HIDE DEF S
    <2> QED BY <1>0, <1>1, LeastNumber
  <1>3. x \in Nat /\ x <= n /\ f[x] \notin D /\ x # 0
    BY <1>2
  <1>4. x - 1 \in 0..n /\ x - 1 \notin S /\ x \in 1..n
    BY <1>2, <1>3
  <1> QED BY <1>3, <1>4

\* The first m steps of a walk through D, from b: the values of f from 0 to m.
Walks(D, b, G, m, f) ==
    f \in [0..m -> D] /\ f[0] = b /\ \A k \in 1..m : f[k] = G[<<f[k - 1], k>>]

\* There is a walk of any length.
LEMMA WalkExists ==
  ASSUME NEW D, NEW b \in D, NEW n \in Nat, NEW G \in [D \X (1..n) -> D]
  PROVE  \E f : Walks(D, b, G, n, f)
  <1> DEFINE S == {m \in 0..n : ~ \E f : Walks(D, b, G, m, f)}
  <1>1. S = {}
    <2>1. SUFFICES ASSUME S # {} PROVE FALSE
      OBVIOUS
    <2>0. S \subseteq Nat
      OBVIOUS
    <2>2. PICK x \in S : \A y \in S : x <= y
      <3> HIDE DEF S
      <3> QED BY <2>0, <2>1, LeastNumber
    <2>3. x # 0
      <3>1. Walks(D, b, G, 0, [k \in 0..0 |-> b])
        BY DEF Walks
      <3> QED BY <3>1, <2>2
    <2>4. x \in 1..n /\ x - 1 \in 0..n /\ x - 1 \notin S /\ x \in Nat
      BY <2>2, <2>3
    <2>5. PICK f : Walks(D, b, G, x - 1, f)
      BY <2>4
    <2>6. PICK v \in D : v = G[<<f[x - 1], x>>]
      BY <2>4, <2>5 DEF Walks
    <2>7. PICK g : g = [k \in 0..x |-> IF k = x THEN v ELSE f[k]]
      OBVIOUS
    <2>8. g \in [0..x -> D] /\ g[0] = b /\ g[x] = v /\ \A k \in 0..(x - 1) : g[k] = f[k]
      BY <2>4, <2>5, <2>6, <2>7 DEF Walks
    <2>9. \A k \in 1..x : g[k] = G[<<g[k - 1], k>>]
      <3> TAKE k \in 1..x
      <3>1. CASE k = x
        BY <3>1, <2>4, <2>6, <2>8
      <3>2. CASE k # x
        BY <3>2, <2>4, <2>5, <2>8 DEF Walks
      <3> QED BY <3>1, <3>2
    <2> QED BY <2>2, <2>8, <2>9 DEF Walks
  <1> QED BY <1>1
=============================================================================
