---------------------------- MODULE Intake_proofs ----------------------------
(***************************************************************************)
(* Proofs about the event intake, for any number of connections, authors,  *)
(* events and batches, and for every fault and stop of the model: the rate *)
(* limiters mirror their windows and keep their bounds, a key that         *)
(* vanished is not a member, a stored command was applied or is in the     *)
(* journal, and every answer is true.                                      *)
(***************************************************************************)
EXTENDS Intake, Sums_proofs, SequenceTheorems, TLAPS

-----------------------------------------------------------------------------
(* The limiters *)

\* What is kept of a sequence is in the set, and not longer than it.
LEMMA OnlyInKeeps ==
  ASSUME NEW S, NEW q \in Seq(S), NEW T
  PROVE  OnlyIn(q, T) \in Seq(S \cap T) /\ Len(OnlyIn(q, T)) <= Len(q)
  <1>0. PICK n \in Nat : n = Len(q) /\ \A k \in 1..n : q[k] \in S
    BY LenProperties, ElementOfSeq
  <1>1. PICK D : D = Seq(S \cap T)
    OBVIOUS
  <1>2. PICK e : e = <<>>
    OBVIOUS
  <1>3. e \in D /\ Len(e) = 0 /\ \A s \in D : Len(s) \in Nat
    BY <1>1, <1>2, LenProperties
  <1>4. \A s \in D, k \in 1..n : q[k] \in T => Append(s, q[k]) \in D /\ Len(Append(s, q[k])) = Len(s) + 1
    BY <1>0, <1>1, AppendProperties
  <1> DEFINE Walk1(s, k) == IF q[k] \in T THEN Append(s, q[k]) ELSE s
             G == [x \in D \X (1..n) |-> Walk1(x[1], x[2])]
             f == CHOOSE f : f = [k \in 0..n |-> IF k = 0 THEN e ELSE Walk1(f[k - 1], k)]
  <1>5. \A s \in D, k \in 1..n : Walk1(s, k) \in D /\ Len(Walk1(s, k)) <= Len(s) + 1
    BY <1>3, <1>4
  <1>8. OnlyIn(q, T) = f[n]
    BY <1>0, <1>2 DEF OnlyIn
  <1> HIDE DEF Walk1
  <1>6. PICK g : Walks(D, e, G, n, g)
    <2>1. G \in [D \X (1..n) -> D]
      BY <1>5
    <2> HIDE DEF G
    <2> QED BY <1>3, <2>1, WalkExists
  <1>7. g = [k \in 0..n |-> IF k = 0 THEN e ELSE Walk1(g[k - 1], k)]
    <2>1. g \in [0..n -> D] /\ g[0] = e /\ \A k \in 1..n : g[k] = Walk1(g[k - 1], k)
      BY <1>6 DEF Walks
    <2> QED BY <2>1
  <1>9. f[0] = e /\ \A k \in 1..n : f[k] = Walk1(f[k - 1], k)
    <2>1. f = [k \in 0..n |-> IF k = 0 THEN e ELSE Walk1(f[k - 1], k)]
      BY <1>7
    <2> HIDE DEF f
    <2> QED BY <2>1
  <1> HIDE DEF f
  <1>10. \A k \in 0..n : f[k] \in D
    <2>1. \A k \in 1..n : f[k - 1] \in D => f[k] \in D
      BY <1>5, <1>9
    <2>2. f[0] \in D
      BY <1>3, <1>9
    <2> QED BY <2>1, <2>2, WalkInduct
  <1>11. \A k \in 0..n : Len(f[k]) <= k
    <2>1. PICK X : X = {x \in D \X (0..n) : Len(x[1]) <= x[2]}
      OBVIOUS
    <2> DEFINE h == [k \in 0..n |-> <<f[k], k>>]
    <2>2. h[0] \in X
      BY <1>3, <1>9, <2>1
    <2>3. \A k \in 1..n : h[k - 1] \in X => h[k] \in X
      <3> SUFFICES ASSUME NEW k \in 1..n, h[k - 1] \in X PROVE h[k] \in X
        OBVIOUS
      <3>0. k - 1 \in 0..n /\ k \in 0..n
        OBVIOUS
      <3>1. f[k - 1] \in D /\ Len(f[k - 1]) <= k - 1 /\ Len(f[k - 1]) \in Nat
        BY <3>0, <1>3, <1>10, <2>1
      <3>2. Len(f[k]) <= k /\ f[k] \in D
        BY <3>1, <1>5, <1>9, <3>0, <1>3, <1>10
      <3> QED BY <3>0, <3>2, <2>1
    <2>4. \A k \in 0..n : h[k] \in X
      <3> HIDE DEF h
      <3> QED BY <2>2, <2>3, WalkInduct
    <2> QED BY <2>1, <2>4
  <1> QED BY <1>0, <1>1, <1>8, <1>10, <1>11

-----------------------------------------------------------------------------
(* The limiters *)

\* The windows of a limiter, none of them empty, by author.
Wins == UNION {[A -> Seq(Nat) \ {<<>>}] : A \in SUBSET Authors}
LimiterShape(l) == l \in [win : Wins, recency : SUBSET (Nat \X Authors), evictable : SUBSET (Nat \X Authors), limit : Nat, pruned : Nat]

\* A limiter whose windows hold at most one of the bounds R.
Fits(l, R) ==
    /\ LimiterShape(l) /\ Mirrored(l)
    /\ IsFiniteSet(DOMAIN l.win) /\ Cardinality(DOMAIN l.win) <= Tracked
    /\ \A a \in DOMAIN l.win : \E m \in R : Len(l.win[a]) <= m

\* A window map by its entries.
LEMMA WinsIs ==
  \A w : w \in Wins <=> /\ w \in [DOMAIN w -> Seq(Nat) \ {<<>>}] /\ DOMAIN w \subseteq Authors
  BY DEF Wins

\* The last time of a window is a number.
LEMMA LastIs ==
  ASSUME NEW w \in Seq(Nat) \ {<<>>}
  PROVE  Last(w) \in Nat /\ Len(w) \in Nat \ {0}
  <1>1. Len(w) \in Nat \ {0}
    BY EmptySeq, LenProperties
  <1> QED BY <1>1, ElementOfSeq DEF Last

\* The rows of the two indices, window by window.
LEMMA MirrorIs ==
  ASSUME NEW l, LimiterShape(l)
  PROVE  Mirrored(l) <=>
           /\ \A x \in Nat, a \in Authors : <<x, a>> \in l.recency <=> a \in DOMAIN l.win /\ x = Last(l.win[a])
           /\ \A x \in Nat, a \in Authors :
                <<x, a>> \in l.evictable <=> a \in DOMAIN l.win /\ x = Last(l.win[a]) /\ Len(l.win[a]) < l.limit
  <1>1. l.recency \subseteq Nat \X Authors /\ l.evictable \subseteq Nat \X Authors /\ l.win \in Wins
    BY DEF LimiterShape
  <1>2. \A a \in DOMAIN l.win : a \in Authors /\ Last(l.win[a]) \in Nat
    BY <1>1, WinsIs, LastIs
  <1> DEFINE w == l.win
  <1>3. \A r \in l.recency : \E x \in Nat, a \in Authors : r = <<x, a>>
    BY <1>1
  <1>4. \A r \in l.evictable : \E x \in Nat, a \in Authors : r = <<x, a>>
    BY <1>1
  <1>5. ASSUME Mirrored(l)
        PROVE  /\ \A x \in Nat, a \in Authors : <<x, a>> \in l.recency <=> a \in DOMAIN l.win /\ x = Last(l.win[a])
               /\ \A x \in Nat, a \in Authors :
                    <<x, a>> \in l.evictable <=> a \in DOMAIN l.win /\ x = Last(l.win[a]) /\ Len(l.win[a]) < l.limit
    <2>1. \A x \in Nat, a \in Authors : <<x, a>> \in l.recency <=> a \in DOMAIN l.win /\ x = Last(l.win[a])
      BY <1>5 DEF Mirrored
    <2>2. \A x \in Nat, a \in Authors :
             <<x, a>> \in l.evictable => a \in DOMAIN l.win /\ x = Last(l.win[a]) /\ Len(l.win[a]) < l.limit
      BY <1>5, <2>1 DEF Mirrored
    <2>3. \A x \in Nat, a \in Authors :
             a \in DOMAIN l.win /\ x = Last(l.win[a]) /\ Len(l.win[a]) < l.limit => <<x, a>> \in l.evictable
      BY <1>5 DEF Mirrored
    <2> QED BY <2>1, <2>2, <2>3
  <1>6. ASSUME \A x \in Nat, a \in Authors : <<x, a>> \in l.recency <=> a \in DOMAIN l.win /\ x = Last(l.win[a]),
               \A x \in Nat, a \in Authors :
                  <<x, a>> \in l.evictable <=> a \in DOMAIN l.win /\ x = Last(l.win[a]) /\ Len(l.win[a]) < l.limit
        PROVE  Mirrored(l)
    <2>1. l.recency = {<<Last(l.win[a]), a>> : a \in DOMAIN l.win}
      BY <1>2, <1>3, <1>6
    <2>2. \A a \in DOMAIN l.win : <<Last(l.win[a]), a>> \in l.evictable <=> Len(l.win[a]) < l.limit
      BY <1>2, <1>6
    <2>3. l.evictable \subseteq l.recency
      BY <1>4, <1>6
    <2> QED BY <2>1, <2>2, <2>3 DEF Mirrored
  <1> QED BY <1>5, <1>6

\* Windows of at most a bound of R, not more of them than are tracked.
Bounded(w, R) ==
    /\ w \in Wins /\ IsFiniteSet(DOMAIN w) /\ Cardinality(DOMAIN w) <= Tracked
    /\ \A a \in DOMAIN w : \E m \in R : Len(w[a]) <= m

\* A limiter fits when its windows do and its indices mirror them.
LEMMA FitsIs ==
  \A l, R : Fits(l, R) <=> LimiterShape(l) /\ Mirrored(l) /\ Bounded(l.win, R)
  BY DEF Fits, Bounded, LimiterShape

\* The window of one author is set, and its rows in the indices with it.
LEMMA WindowSet ==
  ASSUME NEW R, NEW l, Fits(l, R), NEW a \in Authors, NEW w \in Seq(Nat) \ {<<>>},
         NEW n, LimiterShape(n), Bounded(n.win, R), n.limit = l.limit,
         DOMAIN n.win = DOMAIN l.win \cup {a}, n.win[a] = w, \A b \in DOMAIN l.win \ {a} : n.win[b] = l.win[b],
         \A x \in Nat, b \in Authors : <<x, b>> \in n.recency <=> IF b = a THEN x = Last(w) ELSE <<x, b>> \in l.recency,
         \A x \in Nat, b \in Authors : <<x, b>> \in n.evictable <=>
            IF b = a THEN x = Last(w) /\ Len(w) < l.limit ELSE <<x, b>> \in l.evictable
  PROVE  Fits(n, R)
  <1>1. LimiterShape(l) /\ Mirrored(l)
    BY FitsIs
  <1>2. Mirrored(n)
    BY <1>1, MirrorIs
  <1> QED BY <1>2, FitsIs

\* The window of one author leaves, and its rows with it.
LEMMA WindowDropped ==
  ASSUME NEW R, NEW l, Fits(l, R), NEW a \in Authors, NEW n, LimiterShape(n), n.limit = l.limit,
         DOMAIN n.win = DOMAIN l.win \ {a}, \A b \in DOMAIN l.win \ {a} : n.win[b] = l.win[b],
         \A x \in Nat, b \in Authors : <<x, b>> \in n.recency <=> b # a /\ <<x, b>> \in l.recency,
         \A x \in Nat, b \in Authors : <<x, b>> \in n.evictable <=> b # a /\ <<x, b>> \in l.evictable
  PROVE  Fits(n, R) /\ (a \in DOMAIN l.win => Cardinality(DOMAIN n.win) < Tracked)
  <1>1. LimiterShape(l) /\ Mirrored(l) /\ Bounded(l.win, R)
    BY FitsIs
  <1>2. Mirrored(n)
    BY <1>1, MirrorIs
  <1>3. /\ IsFiniteSet(DOMAIN n.win) /\ Cardinality(DOMAIN n.win) <= Tracked
        /\ a \in DOMAIN l.win => Cardinality(DOMAIN n.win) < Tracked
    <2>1. IsFiniteSet(DOMAIN l.win) /\ Cardinality(DOMAIN l.win) <= Tracked /\ Cardinality(DOMAIN l.win) \in Nat /\ Tracked \in Nat
      BY <1>1, FS_CardinalityType, RateConstants DEF Bounded
    <2>2. CASE a \in DOMAIN l.win
      <3>1. IsFiniteSet(DOMAIN l.win \ {a}) /\ Cardinality(DOMAIN l.win \ {a}) = Cardinality(DOMAIN l.win) - 1
        BY <2>1, <2>2, FS_RemoveElement
      <3> QED BY <2>1, <3>1
    <2>3. CASE a \notin DOMAIN l.win
      <3>1. DOMAIN n.win = DOMAIN l.win
        BY <2>3
      <3> QED BY <2>1, <2>3, <3>1
    <2> QED BY <2>2, <2>3
  <1>4. Bounded(n.win, R)
    BY <1>1, <1>3 DEF Bounded, LimiterShape
  <1> QED BY <1>2, <1>3, <1>4, FitsIs

\* Rebuilt indices mirror the windows.
LEMMA RebuiltFits ==
  ASSUME NEW R, NEW l, LimiterShape(l), Bounded(l.win, R)
  PROVE  /\ Fits(RebuildIndices(l), R) /\ RebuildIndices(l).win = l.win /\ RebuildIndices(l).limit = l.limit
         /\ RebuildIndices(l).pruned = l.pruned
  <1>1. PICK n : n = RebuildIndices(l)
    OBVIOUS
  <1>2. \A a \in DOMAIN l.win : a \in Authors /\ Last(l.win[a]) \in Nat
    BY WinsIs, LastIs DEF LimiterShape
  <1>3. PICK A : A = {<<Last(l.win[a]), a>> : a \in DOMAIN l.win}
    OBVIOUS
  <1>4. PICK B : B = {<<Last(l.win[a]), a>> : a \in {a \in DOMAIN l.win : Len(l.win[a]) < l.limit}}
    OBVIOUS
  <1>5. n = [[l EXCEPT !.recency = A] EXCEPT !.evictable = B]
    BY <1>1, <1>3, <1>4 DEF RebuildIndices
  <1>6. A \subseteq Nat \X Authors /\ B \subseteq Nat \X Authors
    BY <1>2, <1>3, <1>4
  <1>7. n.recency = A /\ n.evictable = B /\ n.win = l.win /\ n.limit = l.limit /\ n.pruned = l.pruned /\ LimiterShape(n)
    BY <1>5, <1>6 DEF LimiterShape
  <1>8. Mirrored(n)
    BY <1>7, <1>3, <1>4, <1>2 DEF Mirrored
  <1> QED BY <1>1, <1>7, <1>8, FitsIs

\* What is left of a window when its expired front is dropped.
LEMMA PopIs ==
  ASSUME NEW w \in Seq(Nat), NEW now \in Nat
  PROVE  /\ PopExpired(w, now) \in Seq(Nat) /\ Len(PopExpired(w, now)) <= Len(w)
         /\ PopExpired(w, now) # <<>> => Last(PopExpired(w, now)) = Last(w)
  <1>1. PICK n \in Nat : n = Len(w) /\ \A k \in 1..n : w[k] \in Nat
    BY LenProperties, ElementOfSeq
  <1>2. DOMAIN w = 1..n
    BY <1>1, LenProperties
  <1>3. PICK S : S = {k \in DOMAIN w : now - w[k] < Window}
    OBVIOUS
  <1>4. CASE S = {}
    <2>1. PopExpired(w, now) = <<>>
      BY <1>3, <1>4 DEF PopExpired
    <2>2. <<>> \in Seq(Nat) /\ Len(<<>>) = 0
      OBVIOUS
    <2> QED BY <2>1, <2>2, <1>1
  <1>5. CASE S # {}
    <2>1. S \subseteq Nat
      BY <1>2, <1>3
    <2>2. \E x \in S : \A y \in S : x <= y
      BY <1>5, <2>1, LeastNumber
    <2>3. PICK m : m = Min(S) /\ m \in S
      BY <2>2 DEF Min
    <2>4. m \in 1..n
      BY <1>2, <1>3, <2>3
    <2>5. PopExpired(w, now) = SubSeq(w, m, n)
      BY <1>1, <1>3, <1>5, <2>3 DEF PopExpired
    <2>6. PICK p : p = SubSeq(w, m, n)
      OBVIOUS
    <2>7. p \in Seq(Nat) /\ Len(p) = n - m + 1 /\ p[n - m + 1] = w[m + (n - m + 1) - 1]
      BY <1>1, <2>4, <2>6, SubSeqProperties
    <2>8. p[Len(p)] = w[n] /\ Len(p) <= n
      BY <2>4, <2>7
    <2> QED BY <1>1, <2>5, <2>6, <2>7, <2>8 DEF Last
  <1> QED BY <1>4, <1>5

\* What is live in a window.
LEMMA LiveIs ==
  ASSUME NEW w \in Seq(Nat), NEW now
  PROVE  LiveEntry(w, now) \in Seq(Nat) /\ Len(LiveEntry(w, now)) <= Len(w)
  <1>1. PICK T : T = {t \in ToSet(w) : now - t < Window}
    OBVIOUS
  <1>2. PICK q : q = OnlyIn(w, T)
    OBVIOUS
  <1>3. q \in Seq(Nat \cap T) /\ Len(q) <= Len(w)
    BY <1>2, OnlyInKeeps
  <1>4. q \in Seq(Nat)
    BY <1>3, SeqDef
  <1> QED BY <1>1, <1>2, <1>3, <1>4 DEF LiveEntry

\* Pruning leaves windows of the same bounds.
LEMMA PruneFits ==
  ASSUME NEW R \in SUBSET Nat, NEW l, Fits(l, R), NEW now \in Nat
  PROVE  Fits(Prune(l, now), R) /\ Prune(l, now).limit = l.limit /\ DOMAIN Prune(l, now).win \subseteq DOMAIN l.win
  <1>1. LimiterShape(l) /\ Bounded(l.win, R)
    BY FitsIs
  <1>2. PICK K : K = {a \in DOMAIN l.win : LiveEntry(l.win[a], now) # <<>>}
    OBVIOUS
  <1>3. PICK w : w = [a \in K |-> LiveEntry(l.win[a], now)]
    OBVIOUS
  <1>4. DOMAIN w = K /\ K \subseteq DOMAIN l.win /\ DOMAIN l.win \subseteq Authors
        /\ \A a \in K : w[a] = LiveEntry(l.win[a], now)
    BY <1>1, <1>2, <1>3, WinsIs DEF LimiterShape
  <1>5. \A a \in K : w[a] \in Seq(Nat) \ {<<>>} /\ Len(w[a]) <= Len(l.win[a]) /\ Len(l.win[a]) \in Nat /\ Len(w[a]) \in Nat
    <2> TAKE a \in K
    <2>1. PICK v \in Seq(Nat) : v = l.win[a]
      BY <1>1, <1>4, WinsIs DEF LimiterShape
    <2>2. PICK u : u = LiveEntry(v, now)
      OBVIOUS
    <2>3. u \in Seq(Nat) /\ Len(u) <= Len(v)
      BY <2>2, LiveIs
    <2>4. u = w[a] /\ u # <<>>
      BY <1>2, <1>4, <2>1, <2>2
    <2> QED BY <2>1, <2>3, <2>4, LenProperties
  <1>6. w \in Wins
    BY <1>3, <1>4, <1>5, WinsIs
  <1>7. Bounded(w, R)
    <2>1. IsFiniteSet(DOMAIN l.win) /\ Cardinality(DOMAIN l.win) <= Tracked
      BY <1>1 DEF Bounded
    <2>2. IsFiniteSet(K) /\ Cardinality(K) <= Cardinality(DOMAIN l.win)
      BY <1>4, <2>1, FS_Subset
    <2>3. Cardinality(K) <= Tracked
      BY <2>1, <2>2, FS_CardinalityType, RateConstants
    <2>4. \A a \in K : \E m \in R : Len(w[a]) <= m
      BY <1>1, <1>4, <1>5 DEF Bounded
    <2> QED BY <1>4, <1>6, <2>2, <2>3, <2>4 DEF Bounded
  <1>8. PICK n : n = [l EXCEPT !.win = w]
    OBVIOUS
  <1>9. LimiterShape(n) /\ n.win = w /\ n.limit = l.limit
    BY <1>1, <1>6, <1>8 DEF LimiterShape
  <1>10. Prune(l, now) = RebuildIndices(n)
    BY <1>2, <1>3, <1>8 DEF Prune
  <1> QED BY <1>4, <1>7, <1>9, <1>10, RebuiltFits

\* The least recent row is one of the rows.
LEMMA OldestIs ==
  ASSUME NEW S, S \subseteq Nat \X Authors, S # {}
  PROVE  Oldest(S) \in S
  <1>0. Authors \subseteq Nat
    BY IntakeConstants
  <1>1. PICK X : X = {r[1] : r \in S}
    OBVIOUS
  <1>2. X \subseteq Nat /\ X # {}
    BY <1>1
  <1>3. PICK x \in X : \A y \in X : x <= y
    BY <1>2, LeastNumber
  <1>4. PICK Y : Y = {r[2] : r \in {q \in S : q[1] = x}}
    OBVIOUS
  <1>5. Y \subseteq Nat /\ Y # {}
    BY <1>0, <1>1, <1>3, <1>4
  <1>6. PICK z \in Y : \A y \in Y : z <= y
    BY <1>5, LeastNumber
  <1>7. PICK r \in S : r[1] = x /\ r[2] = z
    BY <1>4, <1>6
  <1>8. \A q \in S : r[1] < q[1] \/ (r[1] = q[1] /\ r[2] <= q[2])
    <2> TAKE q \in S
    <2>1. x \in Nat /\ q[1] \in Nat /\ x <= q[1]
      BY <1>1, <1>2, <1>3
    <2>2. CASE q[1] = x
      BY <2>2, <1>4, <1>6, <1>7
    <2>3. CASE q[1] # x
      BY <2>1, <2>3, <1>7
    <2> QED BY <2>2, <2>3
  <1> QED BY <1>8 DEF Oldest

\* An eviction makes room.
LEMMA EvictFits ==
  ASSUME NEW R \in SUBSET Nat, NEW l, Fits(l, R), Cardinality(DOMAIN l.win) >= Tracked
  PROVE  /\ Fits(Evict(l), R) /\ Evict(l).limit = l.limit /\ DOMAIN Evict(l).win \subseteq DOMAIN l.win
         /\ Cardinality(DOMAIN Evict(l).win) < Tracked
  <1>1. LimiterShape(l) /\ Mirrored(l) /\ Bounded(l.win, R)
    BY FitsIs
  <1>2. l.recency \subseteq Nat \X Authors /\ l.evictable \subseteq Nat \X Authors /\ l.win \in Wins
    BY <1>1 DEF LimiterShape
  <1>3. DOMAIN l.win # {}
    BY RateConstants, FS_EmptySet
  <1>4. l.recency # {}
    BY <1>1, <1>3 DEF Mirrored
  <1>5. PICK S : S = IF l.evictable # {} THEN l.evictable ELSE l.recency
    OBVIOUS
  <1>6. S \subseteq Nat \X Authors /\ S # {} /\ S \subseteq l.recency
    BY <1>1, <1>2, <1>4, <1>5 DEF Mirrored
  <1>7. PICK r \in S : r = Oldest(S)
    BY <1>6, OldestIs
  <1>8. PICK x \in Nat, a \in Authors : r = <<x, a>>
    BY <1>6
  <1>9. a \in DOMAIN l.win /\ x = Last(l.win[a])
    BY <1>1, <1>6, <1>8 DEF Mirrored
  <1>10. PICK w : w = [b \in DOMAIN l.win \ {a} |-> l.win[b]]
    OBVIOUS
  <1>11. PICK A : A = l.recency \ {<<x, a>>}
    OBVIOUS
  <1>12. PICK B : B = l.evictable \ {<<x, a>>}
    OBVIOUS
  <1>13. PICK n : n = [[[l EXCEPT !.recency = A] EXCEPT !.evictable = B] EXCEPT !.win = w]
    OBVIOUS
  <1>14. Evict(l) = n
    <2>1. PICK q : q = [[l EXCEPT !.recency = A] EXCEPT !.evictable = B]
      OBVIOUS
    <2>2. IndexRemove(l, a, x) = q
      BY <1>11, <1>12, <2>1, <1>1 DEF IndexRemove, LimiterShape
    <2>3. q.win = l.win /\ n = [q EXCEPT !.win = w]
      BY <1>1, <1>13, <2>1 DEF LimiterShape
    <2>4. Restrict(q.win, DOMAIN l.win \ {a}) = w
      BY <1>10, <2>3 DEF Restrict
    <2>5. r[1] = x /\ r[2] = a
      BY <1>8
    <2>6. Evict(l) = [IndexRemove(l, r[2], r[1]) EXCEPT !.win = Restrict(@, DOMAIN l.win \ {r[2]})]
      BY <1>5, <1>7 DEF Evict
    <2>7. Evict(l) = [q EXCEPT !.win = Restrict(q.win, DOMAIN l.win \ {a})]
      BY <2>2, <2>5, <2>6
    <2> QED BY <2>3, <2>4, <2>7
  <1>15. w \in Wins /\ DOMAIN w = DOMAIN l.win \ {a} /\ \A b \in DOMAIN l.win \ {a} : w[b] = l.win[b]
    BY <1>2, <1>10, WinsIs
  <1>16. LimiterShape(n) /\ n.win = w /\ n.limit = l.limit /\ n.recency = A /\ n.evictable = B
    BY <1>1, <1>11, <1>12, <1>13, <1>15 DEF LimiterShape
  <1>m. /\ \A t \in Nat, b \in Authors : <<t, b>> \in l.recency <=> b \in DOMAIN l.win /\ t = Last(l.win[b])
        /\ \A t \in Nat, b \in Authors :
             <<t, b>> \in l.evictable <=> b \in DOMAIN l.win /\ t = Last(l.win[b]) /\ Len(l.win[b]) < l.limit
    BY <1>1, MirrorIs
  <1>17. \A y \in Nat, b \in Authors : <<y, b>> \in n.recency <=> b # a /\ <<y, b>> \in l.recency
    BY <1>m, <1>9, <1>11, <1>16
  <1>18. \A y \in Nat, b \in Authors : <<y, b>> \in n.evictable <=> b # a /\ <<y, b>> \in l.evictable
    BY <1>m, <1>9, <1>12, <1>16
  <1> QED BY <1>9, <1>14, <1>15, <1>16, <1>17, <1>18, WindowDropped

\* There is room for one more window.
LEMMA RoomFits ==
  ASSUME NEW R \in SUBSET Nat, NEW l, Fits(l, R), NEW now \in Nat
  PROVE  /\ Fits(RateRoom(l, now), R) /\ RateRoom(l, now).limit = l.limit /\ DOMAIN RateRoom(l, now).win \subseteq DOMAIN l.win
         /\ Cardinality(DOMAIN RateRoom(l, now).win) < Tracked
  <1>1. CASE Cardinality(DOMAIN l.win) < Tracked
    BY <1>1 DEF RateRoom
  <1>2. CASE ~ (Cardinality(DOMAIN l.win) < Tracked)
    <2>1. PICK s : s = [l EXCEPT !.pruned = now]
      OBVIOUS
    <2>2. LimiterShape(s) /\ s.win = l.win /\ s.limit = l.limit /\ s.recency = l.recency /\ s.evictable = l.evictable
      BY <2>1, FitsIs DEF LimiterShape
    <2>3. Fits(s, R)
      BY <2>2, FitsIs DEF Mirrored
    <2>4. PICK p : p = IF now - l.pruned >= 1 THEN Prune(s, now) ELSE l
      OBVIOUS
    <2>5. Fits(p, R) /\ p.limit = l.limit /\ DOMAIN p.win \subseteq DOMAIN l.win
      <3>1. CASE now - l.pruned >= 1
        BY <3>1, <2>2, <2>3, <2>4, PruneFits
      <3>2. CASE ~ (now - l.pruned >= 1)
        BY <3>2, <2>4
      <3> QED BY <3>1, <3>2
    <2>6. RateRoom(l, now) = IF Cardinality(DOMAIN p.win) < Tracked THEN p ELSE Evict(p)
      BY <1>2, <2>1, <2>4 DEF RateRoom
    <2>7. CASE Cardinality(DOMAIN p.win) < Tracked
      BY <2>5, <2>6, <2>7
    <2>8. CASE ~ (Cardinality(DOMAIN p.win) < Tracked)
      <3>1. Cardinality(DOMAIN p.win) \in Nat /\ Tracked \in Nat
        BY <2>5, FS_CardinalityType, RateConstants DEF Fits
      <3>2. Cardinality(DOMAIN p.win) >= Tracked
        BY <2>8, <3>1
      <3> QED BY <2>5, <2>6, <2>8, <3>2, EvictFits
    <2> QED BY <2>7, <2>8
  <1> QED BY <1>1, <1>2

\* A window is replaced by one of at most the bound m, and the rows of its author are moved.
LEMMA WindowMoved ==
  ASSUME NEW R \in SUBSET Nat, NEW l, Fits(l, R), NEW a \in DOMAIN l.win, NEW w \in Seq(Nat) \ {<<>>},
         \E m \in R : Len(w) <= m, NEW full, full <=> Len(w) >= l.limit
  PROVE  /\ LET n == IndexInsert(IndexRemove([l EXCEPT !.win[a] = w], a, Last(l.win[a])), a, Last(w), full)
            IN  Fits(n, R) /\ n.limit = l.limit
         /\ LET n == IndexInsert([IndexRemove(l, a, Last(l.win[a])) EXCEPT !.win[a] = w], a, Last(w), full)
            IN  Fits(n, R) /\ n.limit = l.limit
  <1>1. LimiterShape(l) /\ Mirrored(l) /\ Bounded(l.win, R) /\ l.win \in Wins /\ a \in Authors /\ l.limit \in Nat
    BY FitsIs, WinsIs DEF LimiterShape
  <1>2. PICK x \in Nat : x = Last(l.win[a])
    BY <1>1, WinsIs, LastIs
  <1>3. PICK y \in Nat : y = Last(w)
    BY LastIs
  <1>4. PICK v : v = [l.win EXCEPT ![a] = w]
    OBVIOUS
  <1>5. v \in Wins /\ DOMAIN v = DOMAIN l.win /\ v[a] = w /\ \A b \in DOMAIN l.win \ {a} : v[b] = l.win[b]
    BY <1>1, <1>4, WinsIs
  <1>6. Bounded(v, R)
    BY <1>1, <1>5 DEF Bounded
  <1>7. PICK A : A = (l.recency \ {<<x, a>>}) \union {<<y, a>>}
    OBVIOUS
  <1>8. PICK B : B = IF full THEN l.evictable \ {<<x, a>>} ELSE (l.evictable \ {<<x, a>>}) \union {<<y, a>>}
    OBVIOUS
  <1>9. A \subseteq Nat \X Authors /\ B \subseteq Nat \X Authors
    BY <1>1, <1>7, <1>8 DEF LimiterShape
  <1>10. PICK n : n = [[[l EXCEPT !.win = v] EXCEPT !.recency = A] EXCEPT !.evictable = B]
    OBVIOUS
  <1>11. LimiterShape(n) /\ n.win = v /\ n.recency = A /\ n.evictable = B /\ n.limit = l.limit
    BY <1>1, <1>5, <1>9, <1>10 DEF LimiterShape
  <1>m. /\ \A t \in Nat, b \in Authors : <<t, b>> \in l.recency <=> b \in DOMAIN l.win /\ t = Last(l.win[b])
        /\ \A t \in Nat, b \in Authors :
             <<t, b>> \in l.evictable <=> b \in DOMAIN l.win /\ t = Last(l.win[b]) /\ Len(l.win[b]) < l.limit
    BY <1>1, MirrorIs
  <1>12. \A t \in Nat, b \in Authors : <<t, b>> \in n.recency <=> IF b = a THEN t = Last(w) ELSE <<t, b>> \in l.recency
    <2> TAKE t \in Nat, b \in Authors
    <2>1. <<t, b>> \in n.recency <=> (<<t, b>> \in l.recency /\ ~ (t = x /\ b = a)) \/ (t = y /\ b = a)
      BY <1>7, <1>11
    <2>2. b = a /\ <<t, b>> \in l.recency => t = x
      BY <1>m, <1>2
    <2> QED BY <1>3, <2>1, <2>2
  <1>13. Len(w) \in Nat /\ (full <=> ~ (Len(w) < l.limit))
    BY <1>1, LenProperties
  <1>14. \A t \in Nat, b \in Authors : <<t, b>> \in n.evictable <=>
            IF b = a THEN t = Last(w) /\ Len(w) < l.limit ELSE <<t, b>> \in l.evictable
    <2> TAKE t \in Nat, b \in Authors
    <2>1. <<t, b>> \in n.evictable <=> (<<t, b>> \in l.evictable /\ ~ (t = x /\ b = a)) \/ (t = y /\ b = a /\ ~full)
      BY <1>8, <1>11
    <2>2. b = a /\ <<t, b>> \in l.evictable => t = x
      BY <1>m, <1>2
    <2> QED BY <1>3, <1>13, <2>1, <2>2
  <1>15. Fits(n, R)
    <2>1. DOMAIN n.win = DOMAIN l.win \cup {a}
      BY <1>5, <1>11
    <2> QED BY <1>1, <1>5, <1>6, <1>11, <1>12, <1>14, <2>1, WindowSet
  <1>16. IndexInsert(IndexRemove([l EXCEPT !.win[a] = w], a, x), a, y, full) = n
    BY <1>1, <1>4, <1>7, <1>8, <1>10 DEF IndexInsert, IndexRemove, LimiterShape
  <1>17. IndexInsert([IndexRemove(l, a, x) EXCEPT !.win[a] = w], a, y, full) = n
    BY <1>1, <1>4, <1>7, <1>8, <1>10 DEF IndexInsert, IndexRemove, LimiterShape
  <1> QED BY <1>2, <1>3, <1>11, <1>15, <1>16, <1>17

\* A window of one author that has none.
LEMMA WindowOpened ==
  ASSUME NEW R \in SUBSET Nat, NEW l, Fits(l, R), Cardinality(DOMAIN l.win) < Tracked,
         NEW a \in Authors, a \notin DOMAIN l.win, NEW now \in Nat, l.limit \in R, l.limit # 0,
         NEW full, full <=> 1 >= l.limit
  PROVE  LET n == IndexInsert([l EXCEPT !.win = Opened(@, a, now)], a, now, full)
         IN  Fits(n, R) /\ n.limit = l.limit
  <1>1. LimiterShape(l) /\ Mirrored(l) /\ Bounded(l.win, R) /\ l.win \in Wins /\ l.limit \in Nat
    BY FitsIs DEF LimiterShape
  <1>2. PICK w : w = <<now>>
    OBVIOUS
  <1>3. w \in Seq(Nat) \ {<<>>} /\ Len(w) = 1 /\ Last(w) = now
    BY <1>2 DEF Last
  <1>4. PICK v : v = Opened(l.win, a, now)
    OBVIOUS
  <1>5. DOMAIN v = DOMAIN l.win \cup {a} /\ v[a] = w /\ \A b \in DOMAIN l.win \ {a} : v[b] = l.win[b]
    BY <1>2, <1>4 DEF Opened
  <1>51. v = [b \in DOMAIN v |-> v[b]]
    BY <1>2, <1>4 DEF Opened
  <1>52. v \in Wins
    <2>1. l.win \in [DOMAIN l.win -> Seq(Nat) \ {<<>>}] /\ DOMAIN l.win \subseteq Authors
      BY <1>1, WinsIs
    <2>2. \A b \in DOMAIN v : v[b] \in Seq(Nat) \ {<<>>}
      BY <1>3, <1>5, <2>1
    <2>3. v \in [DOMAIN v -> Seq(Nat) \ {<<>>}] /\ DOMAIN v \subseteq Authors
      <3> HIDE DEF Wins
      <3> QED BY <1>5, <1>51, <2>1, <2>2
    <2> QED BY <2>3, WinsIs
  <1>6. Bounded(v, R)
    <2>1. IsFiniteSet(DOMAIN l.win) /\ Cardinality(DOMAIN l.win) \in Nat /\ Tracked \in Nat
      BY <1>1, FS_CardinalityType, RateConstants DEF Bounded
    <2>2. IsFiniteSet(DOMAIN v) /\ Cardinality(DOMAIN v) = Cardinality(DOMAIN l.win) + 1
      BY <1>5, <2>1, FS_AddElement
    <2>3. \A b \in DOMAIN v : \E m \in R : Len(v[b]) <= m
      <3> TAKE b \in DOMAIN v
      <3>1. CASE b = a
        <4>1. Len(v[b]) = 1
          BY <3>1, <1>3, <1>5
        <4>2. 1 <= l.limit
          BY <1>1
        <4> QED BY <4>1, <4>2
      <3>2. CASE b # a
        BY <3>2, <1>1, <1>5 DEF Bounded
      <3> QED BY <3>1, <3>2
    <2> QED BY <1>52, <2>1, <2>2, <2>3 DEF Bounded
  <1>8. PICK A : A = l.recency \union {<<now, a>>}
    OBVIOUS
  <1>9. PICK B : B = IF full THEN l.evictable ELSE l.evictable \union {<<now, a>>}
    OBVIOUS
  <1>10. A \subseteq Nat \X Authors /\ B \subseteq Nat \X Authors
    BY <1>1, <1>8, <1>9 DEF LimiterShape
  <1>11. PICK n : n = [[[l EXCEPT !.win = v] EXCEPT !.recency = A] EXCEPT !.evictable = B]
    OBVIOUS
  <1>12. LimiterShape(n) /\ n.win = v /\ n.recency = A /\ n.evictable = B /\ n.limit = l.limit
    BY <1>1, <1>52, <1>10, <1>11 DEF LimiterShape
  <1>m. /\ \A t \in Nat, b \in Authors : <<t, b>> \in l.recency <=> b \in DOMAIN l.win /\ t = Last(l.win[b])
        /\ \A t \in Nat, b \in Authors :
             <<t, b>> \in l.evictable <=> b \in DOMAIN l.win /\ t = Last(l.win[b]) /\ Len(l.win[b]) < l.limit
    BY <1>1, MirrorIs
  <1>13. \A t \in Nat, b \in Authors : <<t, b>> \in n.recency <=> IF b = a THEN t = Last(w) ELSE <<t, b>> \in l.recency
    <2> TAKE t \in Nat, b \in Authors
    <2>1. <<t, b>> \in n.recency <=> <<t, b>> \in l.recency \/ (t = now /\ b = a)
      BY <1>8, <1>12
    <2>2. b = a => <<t, b>> \notin l.recency
      BY <1>m
    <2> QED BY <1>3, <2>1, <2>2
  <1>14. full <=> ~ (Len(w) < l.limit)
    <2>1. 1 >= l.limit <=> ~ (Len(w) < l.limit)
      BY <1>1, <1>3
    <2> QED BY <2>1
  <1>15. \A t \in Nat, b \in Authors : <<t, b>> \in n.evictable <=>
            IF b = a THEN t = Last(w) /\ Len(w) < l.limit ELSE <<t, b>> \in l.evictable
    <2> TAKE t \in Nat, b \in Authors
    <2>1. <<t, b>> \in n.evictable <=> <<t, b>> \in l.evictable \/ (t = now /\ b = a /\ ~full)
      BY <1>9, <1>12
    <2>2. b = a => <<t, b>> \notin l.evictable
      BY <1>m
    <2> QED BY <1>3, <1>14, <2>1, <2>2
  <1>16. Fits(n, R)
    BY <1>3, <1>5, <1>6, <1>12, <1>13, <1>15, WindowSet
  <1>17. IndexInsert([l EXCEPT !.win = v], a, now, full) = n
    BY <1>1, <1>8, <1>9, <1>11 DEF IndexInsert, LimiterShape
  <1> QED BY <1>2, <1>4, <1>12, <1>16, <1>17

\* The bound of a limiter is set, and its indices rebuilt when it changed.
LEMMA LimitSet ==
  ASSUME NEW R \in SUBSET Nat, NEW l, Fits(l, R), NEW max \in Nat
  PROVE  LET n == IF l.limit = max THEN l ELSE RebuildIndices([l EXCEPT !.limit = max])
         IN  Fits(n, R) /\ n.limit = max
  <1>1. PICK s : s = [l EXCEPT !.limit = max]
    OBVIOUS
  <1>2. LimiterShape(l) /\ Bounded(l.win, R)
    BY FitsIs
  <1>3. LimiterShape(s) /\ s.win = l.win /\ s.limit = max
    BY <1>1, <1>2 DEF LimiterShape
  <1>4. Fits(RebuildIndices(s), R) /\ RebuildIndices(s).limit = max
    BY <1>2, <1>3, RebuiltFits
  <1> QED BY <1>1, <1>4

\* A reservation.
LEMMA AllowFits ==
  ASSUME NEW R \in SUBSET Nat, NEW l, Fits(l, R), NEW max \in R \ {0}, NEW a \in Authors, NEW now \in Nat
  PROVE  Fits(Allow(l, max, a, now).l, R)
  <1>1. PICK n : n = IF l.limit = max THEN l ELSE RebuildIndices([l EXCEPT !.limit = max])
    OBVIOUS
  <1>2. Fits(n, R) /\ n.limit = max
    BY <1>1, LimitSet
  <1>3. LimiterShape(n) /\ Mirrored(n) /\ Bounded(n.win, R) /\ n.win \in Wins
    BY <1>2, FitsIs DEF LimiterShape
  <1>m. /\ \A t \in Nat, b \in Authors : <<t, b>> \in n.recency <=> b \in DOMAIN n.win /\ t = Last(n.win[b])
        /\ \A t \in Nat, b \in Authors :
             <<t, b>> \in n.evictable <=> b \in DOMAIN n.win /\ t = Last(n.win[b]) /\ Len(n.win[b]) < n.limit
    BY <1>3, MirrorIs
  <1>4. CASE a \in DOMAIN n.win
    <2>1. PICK o \in Seq(Nat) \ {<<>>} : o = n.win[a]
      BY <1>3, <1>4, WinsIs
    <2>2. PICK w : w = PopExpired(o, now)
      OBVIOUS
    <2>3. w \in Seq(Nat) /\ Len(w) <= Len(o) /\ Len(w) \in Nat /\ Len(o) \in Nat /\ (w # <<>> => Last(w) = Last(o))
      BY <2>1, <2>2, PopIs, LenProperties
    <2>4. PICK m \in R : Len(o) <= m
      BY <1>3, <1>4, <2>1 DEF Bounded
    <2>5. CASE Len(w) >= max
      <3>1. PICK v : v = [n.win EXCEPT ![a] = w]
        OBVIOUS
      <3>2. w # <<>>
        BY <2>5, <2>3
      <3>3. v \in Wins /\ DOMAIN v = DOMAIN n.win /\ v[a] = w /\ \A b \in DOMAIN n.win \ {a} : v[b] = n.win[b]
        <4>1. n.win \in [DOMAIN n.win -> Seq(Nat) \ {<<>>}] /\ DOMAIN n.win \subseteq Authors
          BY <1>3, WinsIs
        <4>2. w \in Seq(Nat) \ {<<>>}
          BY <2>3, <3>2
        <4>3. v \in [DOMAIN n.win -> Seq(Nat) \ {<<>>}]
          BY <3>1, <4>1, <4>2
        <4> QED BY <1>4, <3>1, <4>1, <4>3, WinsIs
      <3>4. Bounded(v, R)
        <4>1. Len(w) <= m
          BY <2>3, <2>4
        <4>2. \A b \in DOMAIN v : \E k \in R : Len(v[b]) <= k
          BY <1>3, <3>3, <4>1 DEF Bounded
        <4> QED BY <1>3, <3>3, <4>2 DEF Bounded
      <3>5. PICK r : r = [n EXCEPT !.win = v]
        OBVIOUS
      <3>6. LimiterShape(r) /\ r.win = v /\ r.limit = n.limit /\ r.recency = n.recency /\ r.evictable = n.evictable
        BY <1>3, <3>3, <3>5 DEF LimiterShape
      <3>7. a \in Authors /\ DOMAIN r.win = DOMAIN n.win \cup {a}
        BY <1>4, <3>3, <3>6
      <3>8. \A t \in Nat, b \in Authors : <<t, b>> \in r.recency <=> IF b = a THEN t = Last(w) ELSE <<t, b>> \in n.recency
        BY <1>4, <1>m, <2>1, <2>3, <3>2, <3>6
      <3>9. ~ (Len(w) < n.limit) /\ ~ (Len(o) < n.limit)
        BY <1>2, <2>3, <2>5
      <3>10. \A t \in Nat, b \in Authors : <<t, b>> \in r.evictable <=>
            IF b = a THEN t = Last(w) /\ Len(w) < n.limit ELSE <<t, b>> \in n.evictable
        BY <1>4, <1>m, <2>1, <3>6, <3>9
      <3>11. Fits(r, R)
        BY <1>2, <2>3, <3>2, <3>3, <3>4, <3>6, <3>7, <3>8, <3>10, WindowSet
      <3>12. Allow(l, max, a, now) = [ok |-> FALSE, l |-> [n EXCEPT !.win[a] = w]]
        BY <1>1, <1>4, <2>1, <2>2, <2>5 DEF Allow
      <3>13. [n EXCEPT !.win[a] = w] = r
        BY <3>1, <3>5
      <3> QED BY <3>11, <3>12, <3>13
    <2>6. CASE ~ (Len(w) >= max)
      <3>1. PICK u : u = Append(w, now)
        OBVIOUS
      <3>2. u \in Seq(Nat) \ {<<>>} /\ Len(u) = Len(w) + 1 /\ Last(u) = now
        BY <2>3, <3>1, AppendProperties DEF Last
      <3>3. PICK s : s = IndexRemove([n EXCEPT !.win[a] = u], a, Last(n.win[a]))
        OBVIOUS
      <3>4. Len(u) <= max
        BY <2>3, <2>6, <3>2
      <3>5. Allow(l, max, a, now) = [ok |-> TRUE, l |-> IndexInsert(s, a, now, Len(w) + 1 >= max)]
        BY <1>1, <1>4, <2>1, <2>2, <2>6, <3>1, <3>3 DEF Allow
      <3>8. Last(u) = now
        BY <3>2
      <3>6. CASE Len(w) + 1 >= max
        <4>1. IndexInsert(s, a, now, Len(w) + 1 >= max) = IndexInsert(s, a, now, TRUE)
          BY <3>6 DEF IndexInsert
        <4>2. Len(u) >= n.limit
          BY <1>2, <3>2, <3>6
        <4>3. Fits(IndexInsert(s, a, Last(u), TRUE), R)
          BY <1>2, <1>4, <3>2, <3>3, <3>4, <4>2, WindowMoved
        <4>4. Allow(l, max, a, now).l = IndexInsert(s, a, now, Len(w) + 1 >= max)
          BY <3>5
        <4> QED BY <3>8, <4>1, <4>3, <4>4
      <3>7. CASE ~ (Len(w) + 1 >= max)
        <4>1. IndexInsert(s, a, now, Len(w) + 1 >= max) = IndexInsert(s, a, now, FALSE)
          BY <3>7 DEF IndexInsert
        <4>2. ~ (Len(u) >= n.limit)
          BY <1>2, <3>2, <3>7
        <4>3. Fits(IndexInsert(s, a, Last(u), FALSE), R)
          BY <1>2, <1>4, <3>2, <3>3, <3>4, <4>2, WindowMoved
        <4>4. Allow(l, max, a, now).l = IndexInsert(s, a, now, Len(w) + 1 >= max)
          BY <3>5
        <4> QED BY <3>8, <4>1, <4>3, <4>4
      <3> QED BY <3>6, <3>7
    <2> QED BY <2>5, <2>6
  <1>5. CASE a \notin DOMAIN n.win
    <2>1. PICK r : r = RateRoom(n, now)
      OBVIOUS
    <2>2. Fits(r, R) /\ r.limit = max /\ DOMAIN r.win \subseteq DOMAIN n.win /\ Cardinality(DOMAIN r.win) < Tracked
      BY <1>2, <2>1, RoomFits
    <2>3. Allow(l, max, a, now) = [ok |-> TRUE, l |-> IndexInsert([r EXCEPT !.win = Opened(@, a, now)], a, now, 1 >= max)]
      BY <1>1, <1>5, <2>1 DEF Allow
    <2>4. a \notin DOMAIN r.win
      BY <1>5, <2>2
    <2>5. PICK s : s = [r EXCEPT !.win = Opened(@, a, now)]
      OBVIOUS
    <2>6. CASE 1 >= max
      <3>1. IndexInsert(s, a, now, 1 >= max) = IndexInsert(s, a, now, TRUE)
        BY <2>6 DEF IndexInsert
      <3>2. Fits(IndexInsert(s, a, now, TRUE), R)
        BY <2>2, <2>4, <2>5, <2>6, WindowOpened
      <3>3. Allow(l, max, a, now).l = IndexInsert(s, a, now, 1 >= max)
        BY <2>3, <2>5
      <3> QED BY <3>1, <3>2, <3>3
    <2>7. CASE ~ (1 >= max)
      <3>1. IndexInsert(s, a, now, 1 >= max) = IndexInsert(s, a, now, FALSE)
        BY <2>7 DEF IndexInsert
      <3>2. Fits(IndexInsert(s, a, now, FALSE), R)
        BY <2>2, <2>4, <2>5, <2>7, WindowOpened
      <3>3. Allow(l, max, a, now).l = IndexInsert(s, a, now, 1 >= max)
        BY <2>3, <2>5
      <3> QED BY <3>1, <3>2, <3>3
    <2> QED BY <2>6, <2>7
  <1> QED BY <1>4, <1>5

\* A reservation that is taken back.
LEMMA RollbackFits ==
  ASSUME NEW R \in SUBSET Nat, NEW l, Fits(l, R), NEW a \in Authors, NEW now \in Nat
  PROVE  Fits(Rollback(l, a, now), R)
  <1>1. LimiterShape(l) /\ Mirrored(l) /\ Bounded(l.win, R) /\ l.win \in Wins /\ l.limit \in Nat
    BY FitsIs DEF LimiterShape
  <1>2. CASE a \notin DOMAIN l.win \/ ~ \E k \in DOMAIN l.win[a] : l.win[a][k] = now
    BY <1>2 DEF Rollback
  <1>3. CASE a \in DOMAIN l.win /\ \E k \in DOMAIN l.win[a] : l.win[a][k] = now
    <2>1. PICK o \in Seq(Nat) \ {<<>>} : o = l.win[a]
      BY <1>1, <1>3, WinsIs
    <2>2. PICK n \in Nat : n = Len(o) /\ DOMAIN o = 1..n /\ n # 0
      BY <2>1, LastIs, LenProperties
    <2>3. \E k \in DOMAIN o : o[k] = now /\ \A j \in DOMAIN o : o[j] = now => j <= k
      <3>1. PICK S : S = {x \in DOMAIN o : o[x] = now}
        OBVIOUS
      <3>2. S \subseteq Nat /\ S # {}
        BY <1>3, <2>1, <2>2, <3>1
      <3>3. PICK k \in S : \A y \in S : y <= k
        <4>1. IsFiniteSet(1..n) /\ S \subseteq 1..n
          BY <2>2, <3>1, FS_Interval
        <4>2. IsFiniteSet(S)
          BY <4>1, FS_Subset
        <4> QED BY <3>2, <4>2, GreatestNumber
      <3> QED BY <3>1, <3>3
    <2>4. PICK k : k = CHOOSE z \in DOMAIN o : o[z] = now /\ \A j \in DOMAIN o : o[j] = now => j <= z
      OBVIOUS
    <2>5. k \in 1..n
      BY <2>2, <2>3, <2>4
    <2>6. PICK w : w = RemoveAt(o, k)
      OBVIOUS
    <2>7. w \in Seq(Nat) /\ Len(w) = n - 1
      <3>1. PICK p : p = SubSeq(o, 1, k - 1)
        OBVIOUS
      <3>2. PICK q : q = SubSeq(o, k + 1, n)
        OBVIOUS
      <3>3. p \in Seq(Nat) /\ Len(p) = k - 1
        <4>1. \A i \in 1..(k - 1) : o[i] \in Nat
          BY <2>1, <2>2, <2>5, ElementOfSeq
        <4> QED BY <2>1, <2>2, <2>5, <3>1, <4>1, SubSeqProperties
      <3>4. q \in Seq(Nat) /\ Len(q) = n - k
        <4>1. \A i \in (k + 1)..n : o[i] \in Nat
          BY <2>1, <2>2, <2>5, ElementOfSeq
        <4> QED BY <2>1, <2>2, <2>5, <3>2, <4>1, SubSeqProperties
      <3>5. w = p \o q
        BY <2>2, <2>6, <3>1, <3>2 DEF RemoveAt
      <3>6. w \in Seq(Nat) /\ Len(w) = Len(p) + Len(q)
        BY <3>3, <3>4, <3>5, ConcatProperties
      <3> QED BY <2>5, <3>3, <3>4, <3>6
    <2>8. PICK x \in Nat : x = Last(o)
      BY <2>1, LastIs
    <2>9. PICK out : out = IndexRemove(l, a, x)
      OBVIOUS
    <2>10. Rollback(l, a, now) = IF w = <<>> THEN [out EXCEPT !.win = Restrict(@, DOMAIN @ \ {a})]
                                 ELSE IndexInsert([out EXCEPT !.win[a] = w], a, Last(w), Len(w) >= l.limit)
      BY <1>3, <2>1, <2>4, <2>6, <2>8, <2>9 DEF Rollback
    <2>11. CASE w = <<>>
      <3>1. PICK A : A = l.recency \ {<<x, a>>}
        OBVIOUS
      <3>2. PICK B : B = l.evictable \ {<<x, a>>}
        OBVIOUS
      <3>3. PICK v : v = [b \in DOMAIN l.win \ {a} |-> l.win[b]]
        OBVIOUS
      <3>4. PICK m : m = [[[l EXCEPT !.recency = A] EXCEPT !.evictable = B] EXCEPT !.win = v]
        OBVIOUS
      <3>5. out = [[l EXCEPT !.recency = A] EXCEPT !.evictable = B]
        BY <1>1, <2>9, <3>1, <3>2 DEF IndexRemove, LimiterShape
      <3>6. out.win = l.win /\ m = [out EXCEPT !.win = v]
        BY <1>1, <3>4, <3>5 DEF LimiterShape
      <3>7. Restrict(out.win, DOMAIN out.win \ {a}) = v
        BY <3>3, <3>6 DEF Restrict
      <3>8. Rollback(l, a, now) = m
        BY <2>10, <2>11, <3>6, <3>7
      <3>9. v \in Wins /\ DOMAIN v = DOMAIN l.win \ {a} /\ \A b \in DOMAIN l.win \ {a} : v[b] = l.win[b]
        BY <1>1, <3>3, WinsIs
      <3>10. LimiterShape(m) /\ m.win = v /\ m.limit = l.limit /\ m.recency = A /\ m.evictable = B
        BY <1>1, <3>1, <3>2, <3>4, <3>9 DEF LimiterShape
      <3>m. /\ \A t \in Nat, b \in Authors : <<t, b>> \in l.recency <=> b \in DOMAIN l.win /\ t = Last(l.win[b])
            /\ \A t \in Nat, b \in Authors :
                 <<t, b>> \in l.evictable <=> b \in DOMAIN l.win /\ t = Last(l.win[b]) /\ Len(l.win[b]) < l.limit
        BY <1>1, MirrorIs
      <3>11. \A y \in Nat, b \in Authors : <<y, b>> \in m.recency <=> b # a /\ <<y, b>> \in l.recency
        BY <1>3, <2>1, <2>8, <3>m, <3>1, <3>10
      <3>12. \A y \in Nat, b \in Authors : <<y, b>> \in m.evictable <=> b # a /\ <<y, b>> \in l.evictable
        BY <1>3, <2>1, <2>8, <3>m, <3>2, <3>10
      <3> QED BY <3>8, <3>9, <3>10, <3>11, <3>12, WindowDropped
    <2>12. CASE w # <<>>
      <3>1. PICK s : s = [out EXCEPT !.win[a] = w]
        OBVIOUS
      <3>2. w \in Seq(Nat) \ {<<>>} /\ \E m \in R : Len(w) <= m
        <4>1. PICK m \in R : n <= m
          BY <1>1, <1>3, <2>1, <2>2 DEF Bounded
        <4>2. Len(w) <= m
          BY <2>7, <4>1, <2>2
        <4> QED BY <2>7, <2>12, <4>2
      <3>3. Rollback(l, a, now) = IndexInsert(s, a, Last(w), Len(w) >= l.limit)
        BY <2>10, <2>12, <3>1
      <3>4. CASE Len(w) >= l.limit
        <4>1. IndexInsert(s, a, Last(w), Len(w) >= l.limit) = IndexInsert(s, a, Last(w), TRUE)
          BY <3>4 DEF IndexInsert
        <4>2. Fits(IndexInsert(s, a, Last(w), TRUE), R)
          BY <1>3, <2>1, <2>8, <2>9, <3>1, <3>2, <3>4, WindowMoved
        <4> QED BY <3>3, <4>1, <4>2
      <3>5. CASE ~ (Len(w) >= l.limit)
        <4>1. IndexInsert(s, a, Last(w), Len(w) >= l.limit) = IndexInsert(s, a, Last(w), FALSE)
          BY <3>5 DEF IndexInsert
        <4>2. Fits(IndexInsert(s, a, Last(w), FALSE), R)
          BY <1>3, <2>1, <2>8, <2>9, <3>1, <3>2, <3>5, WindowMoved
        <4> QED BY <3>3, <4>1, <4>2
      <3> QED BY <3>4, <3>5
    <2> QED BY <2>11, <2>12
  <1> QED BY <1>2, <1>3

\* No window fits every bound.
LEMMA EmptyFits ==
  ASSUME NEW R
  PROVE  Fits(NoWindows, R)
  <1>1. NoWindows.win = <<>> /\ DOMAIN NoWindows.win = {}
    BY DEF NoWindows
  <1>2. NoWindows.win \in Wins
    <2>1. PICK X : X = Seq(Nat) \ {<<>>}
      OBVIOUS
    <2>2. PICK s : s = <<>>
      OBVIOUS
    <2>3. s \in Seq(X) /\ Len(s) = 0
      BY <2>2
    <2>4. s \in [1..0 -> X]
      BY <2>3, LenProperties
    <2>5. s \in [DOMAIN s -> X] /\ DOMAIN s = {}
      BY <2>4
    <2> QED BY <1>1, <2>1, <2>2, <2>5, WinsIs
  <1>3. LimiterShape(NoWindows)
    BY <1>2 DEF LimiterShape, NoWindows
  <1>4. Mirrored(NoWindows)
    BY <1>1 DEF Mirrored, NoWindows
  <1>5. Bounded(NoWindows.win, R)
    BY <1>1, <1>2, FS_EmptySet, RateConstants DEF Bounded
  <1> QED BY <1>3, <1>4, <1>5, FitsIs

\* One reservation after the other.
LEMMA AllowAllFits ==
  ASSUME NEW R \in SUBSET Nat, NEW l, Fits(l, R), NEW max \in R \ {0}, NEW who \in Seq(Authors), NEW due, NEW now \in Nat
  PROVE  Fits(AllowAll(l, max, who, due, now).l, R) /\ AllowAll(l, max, who, due, now).ok \subseteq DOMAIN who
  <1>0. PICK n \in Nat : n = Len(who) /\ DOMAIN who = 1..n /\ \A k \in 1..n : who[k] \in Authors
    BY LenProperties, ElementOfSeq
  <1> DEFINE Shape == [win : Wins, recency : SUBSET (Nat \X Authors), evictable : SUBSET (Nat \X Authors), limit : Nat, pruned : Nat]
  <1>1. PICK L : L = {x \in Shape : Fits(x, R)}
    OBVIOUS
  <1>2. \A x : x \in L <=> Fits(x, R)
    BY <1>1 DEF Fits, LimiterShape
  <1>3. PICK D : D = [l : L, ok : SUBSET (1..n)]
    OBVIOUS
  <1>4. PICK e : e = [l |-> l, ok |-> {}]
    OBVIOUS
  <1>5. e \in D
    BY <1>2, <1>3, <1>4
  <1> DEFINE r(p, k) == IF k \in due THEN Allow(p.l, max, who[k], now) ELSE [ok |-> TRUE, l |-> p.l]
             Walk1(p, k) == [l |-> r(p, k).l, ok |-> IF r(p, k).ok THEN p.ok \union {k} ELSE p.ok]
             G == [x \in D \X (1..n) |-> Walk1(x[1], x[2])]
             f == CHOOSE f : f = [k \in 0..n |-> IF k = 0 THEN e ELSE Walk1(f[k - 1], k)]
  <1>6. \A p \in D, k \in 1..n : Walk1(p, k) \in D
    <2> TAKE p \in D, k \in 1..n
    <2>1. p.l \in L /\ p.ok \subseteq 1..n
      BY <1>3
    <2>2. r(p, k).l \in L
      <3>1. CASE k \in due
        <4>1. PICK q : q = p.l
          OBVIOUS
        <4>2. Fits(Allow(q, max, who[k], now).l, R)
          BY <1>0, <1>2, <2>1, <4>1, AllowFits
        <4> QED BY <1>2, <3>1, <4>1, <4>2
      <3>2. CASE k \notin due
        BY <2>1, <3>2
      <3> QED BY <3>1, <3>2
    <2>3. PICK S : S = IF r(p, k).ok THEN p.ok \union {k} ELSE p.ok
      OBVIOUS
    <2>4. S \subseteq 1..n
      BY <2>1, <2>3
    <2> HIDE DEF r
    <2> QED BY <1>3, <2>2, <2>3, <2>4
  <1>8. AllowAll(l, max, who, due, now) = f[n]
    BY <1>0, <1>4 DEF AllowAll
  <1> HIDE DEF Walk1
  <1>9. PICK g : Walks(D, e, G, n, g)
    <2>1. G \in [D \X (1..n) -> D]
      BY <1>6
    <2> HIDE DEF G
    <2> QED BY <1>5, <2>1, WalkExists
  <1>10. g = [k \in 0..n |-> IF k = 0 THEN e ELSE Walk1(g[k - 1], k)]
    <2>1. g \in [0..n -> D] /\ g[0] = e /\ \A k \in 1..n : g[k] = Walk1(g[k - 1], k)
      <3>1. g \in [0..n -> D] /\ g[0] = e /\ \A k \in 1..n : g[k] = G[<<g[k - 1], k>>]
        <4> HIDE DEF G
        <4> QED BY <1>9 DEF Walks
      <3>2. \A k \in 1..n : g[k - 1] \in D
        BY <3>1
      <3>3. \A p \in D, k \in 1..n : G[<<p, k>>] = Walk1(p, k)
        OBVIOUS
      <3> HIDE DEF G
      <3> QED BY <3>1, <3>2, <3>3
    <2> QED BY <2>1
  <1>11. f[0] = e /\ \A k \in 1..n : f[k] = Walk1(f[k - 1], k)
    <2>1. f = [k \in 0..n |-> IF k = 0 THEN e ELSE Walk1(f[k - 1], k)]
      BY <1>10
    <2> HIDE DEF f
    <2> QED BY <2>1
  <1> HIDE DEF f
  <1>12. \A k \in 0..n : f[k] \in D
    <2>1. \A k \in 1..n : f[k - 1] \in D => f[k] \in D
      BY <1>6, <1>11
    <2>2. f[0] \in D
      BY <1>5, <1>11
    <2> QED BY <2>1, <2>2, WalkInduct
  <1>13. f[n] \in D
    BY <1>12
  <1> QED BY <1>0, <1>2, <1>3, <1>8, <1>13

\* One reservation of each author is taken back.
LEMMA RollbackAllFits ==
  ASSUME NEW R \in SUBSET Nat, NEW l, Fits(l, R), NEW who \in Seq(Authors), NEW now \in Nat
  PROVE  Fits(RollbackAll(l, who, now), R)
  <1>0. PICK n \in Nat : n = Len(who) /\ \A k \in 1..n : who[k] \in Authors
    BY LenProperties, ElementOfSeq
  <1> DEFINE Shape == [win : Wins, recency : SUBSET (Nat \X Authors), evictable : SUBSET (Nat \X Authors), limit : Nat, pruned : Nat]
  <1>1. PICK D : D = {x \in Shape : Fits(x, R)}
    OBVIOUS
  <1>2. \A x : x \in D <=> Fits(x, R)
    BY <1>1 DEF Fits, LimiterShape
  <1> DEFINE Walk1(p, k) == Rollback(p, who[k], now)
             G == [x \in D \X (1..n) |-> Walk1(x[1], x[2])]
             f == CHOOSE f : f = [k \in 0..n |-> IF k = 0 THEN l ELSE Walk1(f[k - 1], k)]
  <1>6. \A p \in D, k \in 1..n : Walk1(p, k) \in D
    BY <1>0, <1>2, RollbackFits
  <1>8. RollbackAll(l, who, now) = f[n]
    BY <1>0 DEF RollbackAll
  <1>5. l \in D
    BY <1>2
  <1> HIDE DEF Walk1
  <1>9. PICK g : Walks(D, l, G, n, g)
    <2>1. G \in [D \X (1..n) -> D]
      BY <1>6
    <2> HIDE DEF G
    <2> QED BY <1>5, <2>1, WalkExists
  <1>10. g = [k \in 0..n |-> IF k = 0 THEN l ELSE Walk1(g[k - 1], k)]
    <2>1. g \in [0..n -> D] /\ g[0] = l /\ \A k \in 1..n : g[k] = Walk1(g[k - 1], k)
      <3>1. g \in [0..n -> D] /\ g[0] = l /\ \A k \in 1..n : g[k] = G[<<g[k - 1], k>>]
        <4> HIDE DEF G
        <4> QED BY <1>9 DEF Walks
      <3>2. \A k \in 1..n : g[k - 1] \in D
        BY <3>1
      <3>3. \A p \in D, k \in 1..n : G[<<p, k>>] = Walk1(p, k)
        OBVIOUS
      <3> HIDE DEF G
      <3> QED BY <3>1, <3>2, <3>3
    <2> QED BY <2>1
  <1>11. f[0] = l /\ \A k \in 1..n : f[k] = Walk1(f[k - 1], k)
    <2>1. f = [k \in 0..n |-> IF k = 0 THEN l ELSE Walk1(f[k - 1], k)]
      BY <1>10
    <2> HIDE DEF f
    <2> QED BY <2>1
  <1> HIDE DEF f
  <1>12. \A k \in 0..n : f[k] \in D
    <2>1. \A k \in 1..n : f[k - 1] \in D => f[k] \in D
      BY <1>6, <1>11
    <2>2. f[0] \in D
      BY <1>5, <1>11
    <2> QED BY <2>1, <2>2, WalkInduct
  <1> QED BY <1>2, <1>8, <1>12

-----------------------------------------------------------------------------
(* Types *)

\* The states in which a task holds one event with effects.
Solo == {"check", "admit", "recheck", "vanish", "unrole", "gate", "mark", "put", "effect", "undo", "clear"}
Holding == {"drain", "record", "merge"}
TaskFields == {"at", "batch", "slots", "i", "run", "puts", "known", "attempt", "verified", "t", "fresh", "drained"}

\* The events of a batch without effects: only those are in a run.
Plain(b) == {k \in DOMAIN b : ~HasStateEffects(b[k])}

\* The answer of one event, once it has one.
Answer == {Unset} \union [id : Nat, ans : Said]

\* What a task of c holds: a batch that c sends.
Task(c, T) ==
    /\ TaskFields \subseteq DOMAIN T
    /\ T.batch = <<>> \/ \E n \in DOMAIN menu.send[c] : T.batch = menu.send[c][n]
    /\ T.slots \in [DOMAIN T.batch -> Answer] /\ T.i \in Nat \ {0} /\ T.t \in Nat
    /\ T.run \in Seq(Plain(T.batch)) /\ T.puts \in Seq(Plain(T.batch))
    /\ T.at \in Solo => T.i \in DOMAIN T.batch
    /\ T.at \in Holding => T.puts # <<>>

Tasks == DOMAIN conn = Conns /\ \A c \in Conns : Task(c, conn[c])

Rates == {menu.rate[k] : k \in DOMAIN menu.rate}
Limits == lim = [pub |-> lim.pub, join |-> lim.join] /\ Fits(lim.pub, Rates) /\ Fits(lim.join, {JoinLimit})
DbFields == {"events", "deleted", "vanished", "marks", "journal", "pending", "seen", "banned", "replies", "role", "applied"}

\* Types: the limiters fit their bounds, and every task holds one of its batches.
IntakeTypes ==
    /\ menu \in Menus /\ clock \in Nat /\ clock < Len(menu.rate)
    /\ Limits /\ Tasks
    /\ answered \in [Conns -> Seq(Seq(Answer))]

\* The events of a batch.
LEMMA BatchIs ==
  ASSUME menu \in Menus, NEW c \in Conns, NEW T, Task(c, T)
  PROVE  /\ T.batch \in Seq(SentEvent)
         /\ \A k \in DOMAIN T.batch : /\ T.batch[k] \in SentEvent /\ menu.event[T.batch[k].id] = T.batch[k]
                                      /\ c \in SendersOf(T.batch[k].id)
  <1>1. CASE T.batch = <<>>
    BY <1>1
  <1>2. CASE T.batch # <<>>
    <2>1. PICK n \in DOMAIN menu.send[c] : T.batch = menu.send[c][n]
      BY <1>2 DEF Task
    <2>2. menu.send \in [Conns -> Seq(Seq(SentEvent))]
      BY MenuType
    <2>3. menu.send[c] \in Seq(Seq(SentEvent))
      BY <2>2
    <2>4. menu.send[c][n] \in Seq(SentEvent)
      BY <2>1, <2>3, LenProperties, ElementOfSeq
    <2>5. \A k \in DOMAIN T.batch : menu.event[T.batch[k].id] = T.batch[k]
      BY <2>1, MenuType
    <2>6. \A k \in DOMAIN T.batch : T.batch[k] \in SentEvent
      BY <2>1, <2>4, LenProperties, ElementOfSeq
    <2>7. \A k \in DOMAIN T.batch : c \in SendersOf(T.batch[k].id)
      BY <2>1 DEF SendersOf
    <2> QED BY <2>1, <2>4, <2>5, <2>6, <2>7
  <1> QED BY <1>1, <1>2

\* The event a task holds.
LEMMA EventIs ==
  ASSUME menu \in Menus, Tasks, NEW c \in Conns, conn[c].at \in Solo
  PROVE  /\ E(c) \in SentEvent /\ E(c).author \in Authors /\ E(c).id \in Nat \ {0} /\ menu.event[E(c).id] = E(c)
         /\ c \in SendersOf(E(c).id)
         /\ conn[c].t \in Nat
  <1>1. Task(c, conn[c]) /\ conn[c].i \in DOMAIN conn[c].batch /\ conn[c].t \in Nat
    BY DEF Tasks, Task
  <1>2. E(c) = conn[c].batch[conn[c].i]
    BY DEF E
  <1>3. E(c) \in SentEvent /\ menu.event[E(c).id] = E(c) /\ c \in SendersOf(E(c).id)
    BY <1>1, <1>2, BatchIs
  <1> QED BY <1>1, <1>3 DEF SentEvent

\* A task moves on.
LEMMA TaskGoes ==
  ASSUME NEW c, NEW T, Task(c, T), NEW s, s \in Solo => T.i \in DOMAIN T.batch, s \in Holding => T.puts # <<>>
  PROVE  Task(c, [T EXCEPT !.at = s])
  <1>1. PICK U : U = [T EXCEPT !.at = s]
    OBVIOUS
  <1>2. /\ TaskFields \subseteq DOMAIN U /\ U.batch = T.batch /\ U.i = T.i /\ U.t = T.t /\ U.run = T.run /\ U.puts = T.puts /\ U.slots = T.slots
        /\ U.at = s
    BY <1>1 DEF Task, TaskFields
  <1> QED BY <1>1, <1>2 DEF Task

\* The answer of one event.
LEMMA TaskFinished ==
  ASSUME menu \in Menus, NEW c \in Conns, NEW T, Task(c, T), NEW a \in Said
  PROVE  Task(c, Finished(T, a))
  <1>0. TaskFields \subseteq DOMAIN T /\ T.i \in Nat \ {0} /\ T.slots \in [DOMAIN T.batch -> Answer]
    BY DEF Task
  <1>1. PICK S : S = [T.slots EXCEPT ![T.i] = [id |-> T.batch[T.i].id, ans |-> a]]
    OBVIOUS
  <1>2. PICK K : K = IF a \in Accepted \union {"duplicate"} THEN T.known \union {T.batch[T.i].id} ELSE T.known
    OBVIOUS
  <1>3. PICK U : U = [[[[T EXCEPT !.slots = S] EXCEPT !.i = T.i + 1] EXCEPT !.at = "route"] EXCEPT !.known = K]
    OBVIOUS
  <1>4. Finished(T, a) = U
    BY <1>0, <1>1, <1>2, <1>3 DEF Finished, TaskFields
  <1>5. /\ TaskFields \subseteq DOMAIN U /\ U.batch = T.batch /\ U.i = T.i + 1 /\ U.t = T.t /\ U.run = T.run /\ U.puts = T.puts
        /\ U.at = "route" /\ U.slots = S
    BY <1>0, <1>3 DEF TaskFields
  <1>6. T.i + 1 \in Nat \ {0}
    BY <1>0
  <1>7. S \in [DOMAIN T.batch -> Answer]
    <2>1. CASE T.i \in DOMAIN T.batch
      <3>1. T.batch[T.i].id \in Nat
        BY <2>1, BatchIs DEF SentEvent
      <3>2. PICK x : x = [id |-> T.batch[T.i].id, ans |-> a]
        OBVIOUS
      <3>3. x \in Answer
        BY <3>1, <3>2 DEF Answer
      <3> QED BY <1>0, <1>1, <3>2, <3>3
    <2>2. CASE T.i \notin DOMAIN T.batch
      BY <1>0, <1>1, <2>2
    <2> QED BY <2>1, <2>2
  <1> QED BY <1>4, <1>5, <1>6, <1>7 DEF Task, Solo, Holding

\* Answers do not change what a task holds.
LEMMA TaskAnswered ==
  ASSUME menu \in Menus, NEW c \in Conns, NEW T, Task(c, T), NEW S, NEW a \in Said
  PROVE  /\ Task(c, WithAnswers(T, S, a)) /\ WithAnswers(T, S, a).batch = T.batch /\ WithAnswers(T, S, a).at = T.at
         /\ WithAnswers(T, S, a).puts = T.puts
  <1>0. TaskFields \subseteq DOMAIN T /\ T.slots \in [DOMAIN T.batch -> Answer]
    BY DEF Task
  <1>1. PICK X : X = [k \in DOMAIN T.slots |-> IF k \in S THEN [id |-> T.batch[k].id, ans |-> a] ELSE T.slots[k]]
    OBVIOUS
  <1>2. PICK U : U = [T EXCEPT !.slots = X]
    OBVIOUS
  <1>3. WithAnswers(T, S, a) = U
    BY <1>1, <1>2 DEF WithAnswers
  <1>4. /\ TaskFields \subseteq DOMAIN U /\ U.batch = T.batch /\ U.i = T.i /\ U.t = T.t /\ U.run = T.run /\ U.puts = T.puts
        /\ U.at = T.at /\ U.slots = X
    BY <1>0, <1>2 DEF TaskFields
  <1>5. X \in [DOMAIN T.batch -> Answer]
    <2>1. \A k \in DOMAIN T.batch : [id |-> T.batch[k].id, ans |-> a] \in Answer
      <3> TAKE k \in DOMAIN T.batch
      <3>1. T.batch[k].id \in Nat
        BY BatchIs DEF SentEvent
      <3> QED BY <3>1 DEF Answer
    <2> QED BY <1>0, <1>1, <2>1
  <1> QED BY <1>3, <1>4, <1>5 DEF Task

\* The tasks after one of them changed.
LEMMA TasksStep ==
  ASSUME Tasks, NEW c \in Conns, NEW T, Task(c, T), conn' = [conn EXCEPT ![c] = T], menu' = menu
  PROVE  Tasks'
  <1>1. DOMAIN conn' = Conns /\ \A d \in Conns : conn'[d] = IF d = c THEN T ELSE conn[d]
    BY DEF Tasks
  <1>2. \A d \in Conns : Task(d, conn'[d])
    BY <1>1 DEF Tasks
  <1>3. \A d \in Conns : Task(d, conn[d])'
    <2> TAKE d \in Conns
    <2>1. PICK U : U = conn'[d]
      OBVIOUS
    <2>2. Task(d, U)
      BY <1>2, <2>1
    <2> QED BY <2>1, <2>2 DEF Task
  <1> QED BY <1>1, <1>3 DEF Tasks

\* Going on.
LEMMA GoTasks ==
  ASSUME Tasks, NEW c \in Conns, NEW s \in Solo, conn[c].at \in Solo, Go(c, s), menu' = menu
  PROVE  Tasks'
  <1>1. PICK T : T = [conn[c] EXCEPT !.at = s]
    OBVIOUS
  <1>2. Task(c, T)
    <2>1. Task(c, conn[c]) /\ conn[c].i \in DOMAIN conn[c].batch
      BY DEF Tasks, Task
    <2>2. s \notin Holding
      BY DEF Solo, Holding
    <2> QED BY <1>1, <2>1, <2>2, TaskGoes
  <1>3. conn' = [conn EXCEPT ![c] = T]
    BY <1>1 DEF Go
  <1> QED BY <1>2, <1>3, TasksStep
\* An answer.
LEMMA SettleTasks ==
  ASSUME menu \in Menus, Tasks, NEW c \in Conns, NEW a \in Said, Settle(c, a), menu' = menu
  PROVE  Tasks'
  <1>1. PICK T : T = Finished(conn[c], a)
    OBVIOUS
  <1>2. Task(c, T)
    BY <1>1, TaskFinished DEF Tasks
  <1>3. conn' = [conn EXCEPT ![c] = T]
    BY <1>1 DEF Settle
  <1> QED BY <1>2, <1>3, TasksStep

\* The bounds are numbers, and the bound in force is one of them.
LEMMA RatesAre ==
  ASSUME IntakeTypes
  PROVE  Rates \in SUBSET Nat /\ RateLimit \in Rates /\ {JoinLimit} \in SUBSET Nat /\ JoinLimit # 0
  <1>1. menu.rate \in Seq(Nat) /\ clock \in Nat /\ clock < Len(menu.rate)
    BY MenuType DEF IntakeTypes
  <1>2. PICK r \in Seq(Nat) : r = menu.rate
    BY <1>1
  <1>3. DOMAIN r = 1..Len(r) /\ Len(r) \in Nat /\ \A k \in 1..Len(r) : r[k] \in Nat
    BY LenProperties, ElementOfSeq
  <1>4. clock + 1 \in 1..Len(r)
    BY <1>1, <1>2, <1>3
  <1> QED BY <1>2, <1>3, <1>4, IntakeConstants DEF Rates, RateLimit

\* One of the two limiters changes.
LEMMA PubStep ==
  ASSUME Limits, NEW l, Fits(l, Rates), lim' = [lim EXCEPT !.pub = l], menu' = menu
  PROVE  Limits'
  <1>1. lim'.pub = l /\ lim'.join = lim.join /\ lim' = [pub |-> lim'.pub, join |-> lim'.join]
    BY DEF Limits
  <1>2. Rates' = Rates
    BY DEF Rates
  <1>3. Fits(lim'.pub, Rates) /\ Fits(lim'.join, {JoinLimit})
    BY <1>1 DEF Limits
  <1>4. Fits(lim'.pub, Rates')
    BY <1>2, <1>3
  <1> QED BY <1>1, <1>3, <1>4 DEF Limits

\* A charge that is given back.
LEMMA ChargeStep ==
  ASSUME IntakeTypes, NEW c \in Conns, conn[c].at \in Solo, Charge(c), menu' = menu
  PROVE  Limits'
  <1>1. PICK l : l = Rollback(lim.pub, E(c).author, conn[c].t)
    OBVIOUS
  <1>2. E(c).author \in Authors /\ conn[c].t \in Nat
    BY EventIs DEF IntakeTypes
  <1>3. Fits(l, Rates)
    BY <1>1, <1>2, RatesAre, RollbackFits DEF IntakeTypes, Limits
  <1>4. lim' = [lim EXCEPT !.pub = l]
    BY <1>1 DEF Charge
  <1> QED BY <1>3, <1>4, PubStep DEF IntakeTypes

\* Limiters that are left alone.
LEMMA LimitsSame ==
  ASSUME Limits, lim' = lim, menu' = menu
  PROVE  Limits'
  <1>1. Rates' = Rates
    BY DEF Rates
  <1> QED BY <1>1 DEF Limits

\* The actions on one event with effects.
LEMMA SoloTypes ==
  ASSUME IntakeTypes, NEW c \in Conns,
         \/ AdmitMember(c) \/ AdmitRecheck(c) \/ VanishMark(c) \/ VanishRoles(c)
         \/ Mark(c) \/ Put(c) \/ Effect(c) \/ Undo(c) \/ ClearPending(c)
  PROVE  IntakeTypes'
  <1> USE DEF IntakeTypes
  <1>1. CASE AdmitMember(c)
    <2>1. conn[c].at \in Solo /\ menu' = menu /\ clock' = clock /\ answered' = answered
      BY <1>1 DEF AdmitMember, Solo
    <2>2. (Settle(c, "reject") /\ Charge(c)) \/ (Go(c, "recheck") /\ lim' = lim)
      BY <1>1 DEF AdmitMember
    <2>3. CASE Settle(c, "reject") /\ Charge(c)
      BY <2>1, <2>3, SettleTasks, ChargeStep DEF Said
    <2>4. CASE Go(c, "recheck") /\ lim' = lim
      BY <2>1, <2>4, GoTasks, LimitsSame DEF Solo
    <2> QED BY <2>2, <2>3, <2>4
  <1>2. CASE AdmitRecheck(c)
    <2>1. conn[c].at \in Solo /\ menu' = menu /\ clock' = clock /\ answered' = answered
      BY <1>2 DEF AdmitRecheck, Solo
    <2>2. \E a \in Said : Settle(c, a) /\ (Charge(c) \/ lim' = lim)
      BY <1>2 DEF AdmitRecheck, Said
    <2> QED BY <2>1, <2>2, SettleTasks, ChargeStep, LimitsSame
  <1>3. CASE VanishMark(c)
    <2>1. conn[c].at \in Solo /\ menu' = menu /\ clock' = clock /\ answered' = answered /\ lim' = lim
      BY <1>3 DEF VanishMark, Solo
    <2>2. Settle(c, "retry") \/ Go(c, "unrole")
      BY <1>3 DEF VanishMark
    <2> QED BY <2>1, <2>2, SettleTasks, GoTasks, LimitsSame DEF Said, Solo
  <1>4. CASE VanishRoles(c)
    <2>1. menu' = menu /\ clock' = clock /\ answered' = answered /\ lim' = lim /\ Settle(c, "stored")
      BY <1>4 DEF VanishRoles
    <2> QED BY <2>1, SettleTasks, LimitsSame DEF Said
  <1>5. CASE Mark(c)
    <2>1. conn[c].at \in Solo /\ menu' = menu /\ clock' = clock /\ answered' = answered
      BY <1>5 DEF Mark, Solo
    <2>2. \/ Go(c, "put") /\ lim' = lim
          \/ Settle(c, "retry") /\ Charge(c)
          \/ \E b : conn' = [conn EXCEPT ![c].at = "put", ![c].fresh = b] /\ lim' = lim
      BY <1>5 DEF Mark
    <2>3. CASE Go(c, "put") /\ lim' = lim
      BY <2>1, <2>3, GoTasks, LimitsSame DEF Solo
    <2>4. CASE Settle(c, "retry") /\ Charge(c)
      BY <2>1, <2>4, SettleTasks, ChargeStep DEF Said
    <2>5. ASSUME NEW b, conn' = [conn EXCEPT ![c].at = "put", ![c].fresh = b], lim' = lim PROVE Tasks' /\ Limits'
      <3>1. PICK T : T = [conn[c] EXCEPT !.at = "put"]
        OBVIOUS
      <3>2. PICK U : U = [T EXCEPT !.fresh = b]
        OBVIOUS
      <3>3. Task(c, T)
        <4>1. Task(c, conn[c]) /\ conn[c].i \in DOMAIN conn[c].batch
          BY <2>1 DEF Tasks, Task
        <4> QED BY <3>1, <4>1, TaskGoes DEF Holding
      <3>4. /\ TaskFields \subseteq DOMAIN U /\ U.batch = T.batch /\ U.i = T.i /\ U.t = T.t /\ U.run = T.run /\ U.puts = T.puts /\ U.slots = T.slots
            /\ U.at = T.at
        BY <3>2, <3>3 DEF Task, TaskFields
      <3>5. Task(c, U)
        BY <3>3, <3>4 DEF Task
      <3>6. conn' = [conn EXCEPT ![c] = U]
        BY <2>5, <3>1, <3>2
      <3> QED BY <2>1, <2>5, <3>5, <3>6, TasksStep, LimitsSame
    <2> QED BY <2>1, <2>2, <2>3, <2>4, <2>5
  <1>6. CASE Put(c)
    <2>1. conn[c].at \in Solo /\ menu' = menu /\ clock' = clock /\ answered' = answered
      BY <1>6 DEF Put, Solo
    <2>2. (Go(c, "effect") /\ lim' = lim) \/ \E a \in Said : Settle(c, a) /\ Charge(c)
      BY <1>6 DEF Put, PutOutcome, Said
    <2> QED BY <2>1, <2>2, SettleTasks, GoTasks, ChargeStep, LimitsSame DEF Solo
  <1>7. CASE Effect(c)
    <2>1. conn[c].at \in Solo /\ menu' = menu /\ clock' = clock /\ answered' = answered /\ lim' = lim
      BY <1>7 DEF Effect, Solo
    <2>2. (\E a \in Said : Settle(c, a)) \/ (\E s \in Solo : Go(c, s))
      BY <1>7 DEF Effect, Said, Solo
    <2> QED BY <2>1, <2>2, SettleTasks, GoTasks, LimitsSame DEF Said, Solo
  <1>8. CASE Undo(c)
    <2>1. conn[c].at \in Solo /\ menu' = menu /\ clock' = clock /\ answered' = answered
      BY <1>8 DEF Undo, Solo
    <2>2. \E a \in Said : Settle(c, a) /\ (Charge(c) \/ lim' = lim)
      BY <1>8 DEF Undo, Said
    <2> QED BY <2>1, <2>2, SettleTasks, ChargeStep, LimitsSame
  <1>9. CASE ClearPending(c)
    <2>1. menu' = menu /\ clock' = clock /\ answered' = answered /\ lim' = lim /\ Settle(c, "stored")
      BY <1>9 DEF ClearPending
    <2> QED BY <2>1, SettleTasks, LimitsSame DEF Said
  <1> QED BY <1>1, <1>2, <1>3, <1>4, <1>5, <1>6, <1>7, <1>8, <1>9

\* The first check of an event with effects.
LEMMA CheckTypes ==
  ASSUME IntakeTypes, NEW c \in Conns, Check(c)
  PROVE  IntakeTypes'
  <1> USE DEF IntakeTypes
  <1>1. conn[c].at \in Solo /\ menu' = menu /\ clock' = clock /\ answered' = answered
    BY DEF Check, Solo
  <1>2. E(c).author \in Authors /\ conn[c].t \in Nat
    BY <1>1, EventIs
  <1>3. PICK l : /\ lim' = [lim EXCEPT !.pub = l]
                 /\ (l = Allow(lim.pub, RateLimit, E(c).author, conn[c].t).l /\ RateLimit > 0) \/ l = lim.pub
    <2>1. PICK r : /\ r = IF E(c).cls = "join" /\ RateLimit > 0 /\ ValidBase(E(c), conn[c].i \in conn[c].verified)
                          THEN Allow(lim.pub, RateLimit, E(c).author, conn[c].t) ELSE [ok |-> TRUE, l |-> lim.pub]
                   /\ lim' = [lim EXCEPT !.pub = r.l]
      BY DEF Check, Said, Solo, Verdict, JoinVerdict
    <2> QED BY <2>1
  <1>4. Fits(l, Rates)
    <2>1. CASE l = lim.pub
      BY <2>1 DEF Limits
    <2>2. CASE l = Allow(lim.pub, RateLimit, E(c).author, conn[c].t).l /\ RateLimit > 0
      <3>1. PICK max : max = RateLimit
        OBVIOUS
      <3>2. max \in Rates \ {0} /\ Rates \in SUBSET Nat
        BY <2>2, <3>1, RatesAre
      <3> QED BY <1>2, <2>2, <3>1, <3>2, AllowFits DEF Limits
    <2> QED BY <1>3, <2>1, <2>2
  <1>5. (\E a \in Said : Settle(c, a)) \/ (\E s \in Solo : Go(c, s))
    BY DEF Check, Said, Solo, Verdict, JoinVerdict
  <1>6. Tasks'
    BY <1>1, <1>5, SettleTasks, GoTasks
  <1> QED BY <1>1, <1>3, <1>4, <1>6, PubStep

\* Age, rate and the commands' own checks.
LEMMA GateTypes ==
  ASSUME IntakeTypes, NEW c \in Conns, Gate(c)
  PROVE  IntakeTypes'
  <1> USE DEF IntakeTypes
  <1>1. conn[c].at \in Solo /\ menu' = menu /\ clock' = clock /\ answered' = answered
    BY DEF Gate, Solo
  <1>2. E(c).author \in Authors /\ conn[c].t \in Nat
    BY <1>1, EventIs
  <1>3. PICK r : /\ r = IF RateLimit = 0 THEN [ok |-> TRUE, l |-> lim.pub] ELSE Allow(lim.pub, RateLimit, E(c).author, conn[c].t)
                 /\ \/ lim' = lim
                    \/ lim' = [lim EXCEPT !.pub = Rollback(r.l, E(c).author, conn[c].t)]
                    \/ lim' = [lim EXCEPT !.pub = r.l]
    BY DEF Gate, Said, Solo
  <1>4. PICK l : l = r.l
    OBVIOUS
  <1>5. Fits(l, Rates)
    <2>1. CASE RateLimit = 0
      BY <1>3, <1>4, <2>1 DEF Limits
    <2>2. CASE RateLimit # 0
      <3>1. PICK max : max = RateLimit
        OBVIOUS
      <3>2. max \in Rates \ {0} /\ Rates \in SUBSET Nat
        BY <2>2, <3>1, RatesAre
      <3> QED BY <1>2, <1>3, <1>4, <2>2, <3>1, <3>2, AllowFits DEF Limits
    <2> QED BY <2>1, <2>2
  <1>6. Limits'
    <2>1. PICK b : b = Rollback(l, E(c).author, conn[c].t)
      OBVIOUS
    <2>2. Fits(b, Rates)
      BY <1>2, <1>5, <2>1, RatesAre, RollbackFits
    <2>3. lim' = lim \/ lim' = [lim EXCEPT !.pub = b] \/ lim' = [lim EXCEPT !.pub = l]
      BY <1>3, <1>4, <2>1
    <2> QED BY <1>1, <1>5, <2>2, <2>3, PubStep, LimitsSame
  <1>7. (\E a \in Said : Settle(c, a)) \/ (\E s \in Solo : Go(c, s))
    BY DEF Gate, Said, Solo
  <1>8. Tasks'
    BY <1>1, <1>7, SettleTasks, GoTasks
  <1> QED BY <1>1, <1>6, <1>8

\* A task that holds nothing.
LEMMA IdleTask ==
  ASSUME NEW c
  PROVE  Task(c, IdleConn)
  <1>5. IdleConn.slots = <<>> /\ <<>> \in [{} -> Answer]
    <2>1. PICK s : s = <<>>
      OBVIOUS
    <2>2. s \in Seq(Answer) /\ Len(s) = 0
      BY <2>1
    <2>3. s \in [1..0 -> Answer]
      BY <2>2, LenProperties
    <2>4. s \in [{} -> Answer]
      BY <2>3
    <2> QED BY <2>1, <2>4 DEF IdleConn
  <1>6. DOMAIN <<>> = {}
    OBVIOUS
  <1>1. IdleConn.batch = <<>> /\ IdleConn.i = 1 /\ IdleConn.t = 0 /\ IdleConn.run = <<>> /\ IdleConn.puts = <<>> /\ IdleConn.at = "idle"
        /\ TaskFields \subseteq DOMAIN IdleConn
    BY DEF IdleConn, TaskFields
  <1>2. \A S : <<>> \in Seq(S)
    OBVIOUS
  <1>3. IdleConn.run \in Seq(Plain(IdleConn.batch)) /\ IdleConn.puts \in Seq(Plain(IdleConn.batch))
    BY <1>1, <1>2
  <1>4. "idle" \notin Solo \cup Holding
    BY DEF Solo, Holding
  <1> QED BY <1>1, <1>3, <1>4, <1>5, <1>6 DEF Task

\* The authors of a batch, in the order of its events.
LEMMA AuthorsAre ==
  ASSUME NEW b \in Seq(SentEvent), NEW q, NEW P, P \subseteq DOMAIN b, q \in Seq(P)
  PROVE  /\ [k \in DOMAIN b |-> b[k].author] \in Seq(Authors)
         /\ AuthorsOf(b, q) \in Seq(Authors) /\ DOMAIN AuthorsOf(b, q) = DOMAIN q
  <1>1. PICK n \in Nat : n = Len(b) /\ DOMAIN b = 1..n /\ \A k \in 1..n : b[k] \in SentEvent
    BY LenProperties, ElementOfSeq
  <1>2. \A k \in 1..n : b[k].author \in Authors
    BY <1>1 DEF SentEvent
  <1>3. PICK s : s = [k \in DOMAIN b |-> b[k].author]
    OBVIOUS
  <1>4. s \in [1..n -> Authors]
    BY <1>1, <1>2, <1>3
  <1>5. s \in Seq(Authors)
    BY <1>4, SeqDef
  <1>6. PICK m \in Nat : m = Len(q) /\ DOMAIN q = 1..m /\ \A k \in 1..m : q[k] \in P
    BY LenProperties, ElementOfSeq
  <1>7. PICK w : w = AuthorsOf(b, q)
    OBVIOUS
  <1>8. w \in [1..m -> Authors]
    BY <1>1, <1>2, <1>6, <1>7 DEF AuthorsOf
  <1>9. w \in Seq(Authors)
    BY <1>8, SeqDef
  <1> QED BY <1>3, <1>5, <1>6, <1>7, <1>8, <1>9

\* A batch is taken in hand.
LEMMA BeginTypes ==
  ASSUME IntakeTypes, NEW c \in Conns, AcceptBatchBegin(c)
  PROVE  IntakeTypes'
  <1> USE DEF IntakeTypes
  <1>1. menu' = menu /\ clock' = clock /\ answered' = answered /\ Len(answered[c]) < Len(menu.send[c])
    BY DEF AcceptBatchBegin
  <1>2. PICK b : b = menu.send[c][Len(answered[c]) + 1]
    OBVIOUS
  <1>3. PICK r : r = Reserve(b)
    OBVIOUS
  <1>4. lim' = [lim EXCEPT !.join = r.l]
    BY <1>2, <1>3 DEF AcceptBatchBegin
  <1>5. PICK panics \in Fault("panic") :
           conn' = [conn EXCEPT ![c] = [IdleConn EXCEPT
              !.at = "route", !.batch = b, !.slots = [k \in DOMAIN b |-> Unset],
              !.known = KnownPrefixes(b), !.attempt = r.ok,
              !.verified = VerifiedBy(b, r.ok, panics), !.t = clock]]
    BY <1>2, <1>3 DEF AcceptBatchBegin
  <1>6. Len(answered[c]) + 1 \in DOMAIN menu.send[c] /\ b \in Seq(SentEvent)
    <2>1. PICK s : s = menu.send[c]
      OBVIOUS
    <2>2. s \in Seq(Seq(SentEvent))
      BY <2>1, MenuType
    <2>3. Len(answered[c]) \in Nat
      BY LenProperties
    <2>4. DOMAIN s = 1..Len(s) /\ Len(s) \in Nat
      BY <2>2, LenProperties
    <2>5. Len(answered[c]) + 1 \in 1..Len(s)
      BY <1>1, <2>1, <2>3, <2>4
    <2>6. s[Len(answered[c]) + 1] \in Seq(SentEvent)
      BY <2>2, <2>5, ElementOfSeq
    <2> QED BY <1>2, <2>1, <2>4, <2>5, <2>6
  <1>7. Limits'
    <2>1. PICK R : R = {JoinLimit}
      OBVIOUS
    <2>2. PICK w : w = [k \in DOMAIN b |-> b[k].author]
      OBVIOUS
    <2>3. PICK due : due = {k \in DOMAIN b : b[k].cls \in {"join", "gjoin"}}
      OBVIOUS
    <2>4. r = AllowAll(lim.join, JoinLimit, w, due, clock)
      BY <1>3, <2>2, <2>3 DEF Reserve
    <2>5. w \in Seq(Authors)
      <3>1. PICK e : e = <<>>
        OBVIOUS
      <3>2. e \in Seq(DOMAIN b)
        BY <3>1
      <3> QED BY <1>6, <2>2, <3>2, AuthorsAre
    <2>6. R \in SUBSET Nat /\ JoinLimit \in R \ {0} /\ Fits(lim.join, R)
      BY <2>1, IntakeConstants DEF Limits
    <2>7. Fits(r.l, R)
      BY <2>4, <2>5, <2>6, AllowAllFits
    <2>8. PICK l : l = r.l
      OBVIOUS
    <2>9. lim'.pub = lim.pub /\ lim'.join = l /\ lim' = [pub |-> lim'.pub, join |-> lim'.join]
      BY <1>4, <2>8 DEF Limits
    <2>10. Rates' = Rates
      BY <1>1 DEF Rates
    <2>11. Fits(lim'.pub, Rates) /\ Fits(lim'.join, {JoinLimit})
      BY <2>1, <2>7, <2>8, <2>9 DEF Limits
    <2> QED BY <2>9, <2>10, <2>11 DEF Limits
  <1>8. Tasks'
    <2>1. PICK S : S = [k \in DOMAIN b |-> Unset]
      OBVIOUS
    <2>2. PICK K : K = KnownPrefixes(b)
      OBVIOUS
    <2>3. PICK V : V = VerifiedBy(b, r.ok, panics)
      OBVIOUS
    <2>4. PICK A : A = r.ok
      OBVIOUS
    <2>5. PICK T : T = [IdleConn EXCEPT !.at = "route", !.batch = b, !.slots = S, !.known = K, !.attempt = A, !.verified = V, !.t = clock]
      OBVIOUS
    <2>6. conn' = [conn EXCEPT ![c] = T]
      BY <1>5, <2>1, <2>2, <2>3, <2>4, <2>5
    <2>7. /\ TaskFields \subseteq DOMAIN T /\ T.at = "route" /\ T.batch = b /\ T.slots = S /\ T.t = clock /\ T.i = 1
          /\ T.run = <<>> /\ T.puts = <<>>
      BY <2>5 DEF IdleConn, TaskFields
    <2>8. S \in [DOMAIN b -> Answer]
      BY <2>1 DEF Answer
    <2>9. \A P : <<>> \in Seq(P)
      OBVIOUS
    <2>10. T.run \in Seq(Plain(T.batch)) /\ T.puts \in Seq(Plain(T.batch))
      BY <2>7, <2>9
    <2>11. T.at \notin Solo \cup Holding
      BY <2>7 DEF Solo, Holding
    <2>12. Task(c, T)
      BY <1>2, <1>6, <2>7, <2>8, <2>10, <2>11 DEF Task
    <2> QED BY <1>1, <2>6, <2>12, TasksStep
  <1> QED BY <1>1, <1>7, <1>8

\* The slots of a task are a sequence of answers.
LEMMA SlotsSeq ==
  ASSUME menu \in Menus, NEW c \in Conns, NEW T, Task(c, T)
  PROVE  T.slots \in Seq(Answer) /\ Len(T.slots) = Len(T.batch) /\ DOMAIN T.batch = 1..Len(T.batch) /\ Len(T.batch) \in Nat
  <1>1. PICK b \in Seq(SentEvent) : b = T.batch
    BY BatchIs
  <1>2. DOMAIN b = 1..Len(b) /\ Len(b) \in Nat
    BY LenProperties
  <1>3. PICK s : s = T.slots
    OBVIOUS
  <1>4. s \in [1..Len(b) -> Answer]
    BY <1>1, <1>2, <1>3 DEF Task
  <1>5. s \in Seq(Answer) /\ Len(s) = Len(b)
    BY <1>2, <1>4, SeqDef, LenProperties
  <1> QED BY <1>1, <1>2, <1>3, <1>5

\* The next event of a batch is routed.
LEMMA RouteTypes ==
  ASSUME IntakeTypes, NEW c \in Conns, Route(c)
  PROVE  IntakeTypes'
  <1> USE DEF IntakeTypes
  <1>1. menu' = menu /\ clock' = clock /\ lim' = lim /\ conn[c].at = "route"
    BY DEF Route
  <1>2. Limits'
    BY <1>1, LimitsSame
  <1>3. PICK T : T = conn[c]
    OBVIOUS
  <1>4. Task(c, T) /\ TaskFields \subseteq DOMAIN T /\ T.i \in Nat \ {0}
    BY <1>3 DEF Tasks, Task
  <1>5. T.slots \in Seq(Answer) /\ DOMAIN T.batch = 1..Len(T.batch) /\ Len(T.batch) \in Nat
    BY <1>4, SlotsSeq
  <1>6. \/ Go(c, "run") /\ answered' = answered
        \/ conn' = [conn EXCEPT ![c] = IdleConn] /\ answered' = [answered EXCEPT ![c] = Append(@, T.slots)]
        \/ /\ ~ (T.i > Len(T.batch)) /\ (Go(c, "check") \/ Settle(c, "reject"))
           /\ answered' = answered
        \/ /\ ~ (T.i > Len(T.batch)) /\ ~HasStateEffects(T.batch[T.i])
           /\ conn' = [conn EXCEPT ![c].run = Append(@, T.i), ![c].i = @ + 1] /\ answered' = answered
    BY <1>3 DEF Route
  <1>7. CASE Go(c, "run") /\ answered' = answered
    <2>1. PICK U : U = [T EXCEPT !.at = "run"]
      OBVIOUS
    <2>2. Task(c, U)
      BY <1>4, <2>1, TaskGoes DEF Solo, Holding
    <2>3. conn' = [conn EXCEPT ![c] = U]
      BY <1>3, <1>7, <2>1 DEF Go
    <2> QED BY <1>1, <1>2, <1>7, <2>2, <2>3, TasksStep
  <1>8. CASE conn' = [conn EXCEPT ![c] = IdleConn] /\ answered' = [answered EXCEPT ![c] = Append(@, T.slots)]
    <2>1. Tasks'
      <3>1. PICK U : U = IdleConn
        OBVIOUS
      <3>2. conn' = [conn EXCEPT ![c] = U] /\ Task(c, U)
        BY <1>8, <3>1, IdleTask
      <3> QED BY <1>1, <3>2, TasksStep
    <2>2. answered' \in [Conns -> Seq(Seq(Answer))]
      <3>1. PICK A : A = Seq(Answer)
        OBVIOUS
      <3>2. PICK s \in A : s = T.slots
        BY <1>5, <3>1
      <3>3. answered[c] \in Seq(A)
        BY <3>1
      <3>4. PICK w : w = Append(answered[c], s)
        OBVIOUS
      <3>5. w \in Seq(A)
        BY <3>3, <3>4, AppendProperties
      <3> QED BY <1>8, <3>1, <3>2, <3>4, <3>5
    <2> QED BY <1>1, <1>2, <2>1, <2>2
  <1>9. CASE /\ ~ (T.i > Len(T.batch)) /\ (Go(c, "check") \/ Settle(c, "reject"))
             /\ answered' = answered
    <2>1. T.i \in DOMAIN T.batch
      BY <1>4, <1>5, <1>9
    <2>2. CASE Go(c, "check")
      <3>1. PICK U : U = [T EXCEPT !.at = "check"]
        OBVIOUS
      <3>2. Task(c, U)
        BY <1>4, <2>1, <3>1, TaskGoes DEF Holding
      <3>3. conn' = [conn EXCEPT ![c] = U]
        BY <1>3, <2>2, <3>1 DEF Go
      <3> QED BY <1>1, <1>2, <1>9, <3>2, <3>3, TasksStep
    <2>3. CASE Settle(c, "reject")
      BY <1>1, <1>2, <1>9, <2>3, SettleTasks DEF Said
    <2> QED BY <1>9, <2>2, <2>3
  <1>10. CASE /\ ~ (T.i > Len(T.batch)) /\ ~HasStateEffects(T.batch[T.i])
              /\ conn' = [conn EXCEPT ![c].run = Append(@, T.i), ![c].i = @ + 1] /\ answered' = answered
    <2>1. T.i \in DOMAIN T.batch /\ T.i \in Plain(T.batch)
      BY <1>4, <1>5, <1>10 DEF Plain
    <2>2. PICK q : q = Append(T.run, T.i)
      OBVIOUS
    <2>3. q \in Seq(Plain(T.batch))
      <3>1. T.run \in Seq(Plain(T.batch))
        BY <1>4 DEF Task
      <3> QED BY <2>1, <2>2, <3>1, AppendProperties
    <2>4. PICK U : U = [[T EXCEPT !.run = q] EXCEPT !.i = T.i + 1]
      OBVIOUS
    <2>5. /\ TaskFields \subseteq DOMAIN U /\ U.batch = T.batch /\ U.i = T.i + 1 /\ U.t = T.t /\ U.run = q /\ U.puts = T.puts
          /\ U.slots = T.slots /\ U.at = T.at
      BY <1>4, <2>4 DEF TaskFields
    <2>6. T.at \notin Solo
      BY <1>1, <1>3 DEF Solo
    <2>7. Task(c, U)
      BY <1>4, <2>3, <2>5, <2>6 DEF Task
    <2>8. conn' = [conn EXCEPT ![c] = U]
      BY <1>3, <1>4, <1>10, <2>2, <2>4 DEF TaskFields
    <2> QED BY <1>1, <1>2, <1>10, <2>7, <2>8, TasksStep
  <1> QED BY <1>6, <1>7, <1>8, <1>9, <1>10

\* The steps after a run was committed.
LEMMA AfterTypes ==
  ASSUME IntakeTypes, NEW c \in Conns, RunAfter(c) \/ HoldDrain(c) \/ HoldRecord(c) \/ HoldMerge(c)
  PROVE  IntakeTypes'
  <1> USE DEF IntakeTypes
  <1>1. /\ menu' = menu /\ clock' = clock /\ lim' = lim /\ answered' = answered
        /\ conn[c].at \in {"after", "drain", "record", "merge"}
    BY DEF RunAfter, HoldDrain, HoldRecord, HoldMerge
  <1>2. Limits'
    BY <1>1, LimitsSame
  <1>3. PICK T : T = conn[c]
    OBVIOUS
  <1>4. Task(c, T) /\ TaskFields \subseteq DOMAIN T
    BY <1>3 DEF Tasks, Task
  <1>5. T.at \notin Solo
    BY <1>1, <1>3 DEF Solo
  <1>6. PICK q : q = Tail(T.puts)
    OBVIOUS
  <1>7. T.puts # <<>> => q \in Seq(Plain(T.batch))
    <2>1. T.puts \in Seq(Plain(T.batch))
      BY <1>4 DEF Task
    <2> QED BY <1>6, <2>1, HeadTailProperties
  <1> HIDE DEF IntakeTypes
  \* One answered event less.
  <1>8. ASSUME NEW d, NEW s, s \notin Solo \cup Holding, T.puts # <<>>
        PROVE  /\ Task(c, [T EXCEPT !.at = s, !.drained = d, !.puts = q])
               /\ [T EXCEPT !.at = s, !.drained = d, !.puts = q].at = s
    <2>1. PICK U : U = [[[T EXCEPT !.at = s] EXCEPT !.drained = d] EXCEPT !.puts = q]
      OBVIOUS
    <2>2. /\ TaskFields \subseteq DOMAIN U /\ U.batch = T.batch /\ U.i = T.i /\ U.t = T.t /\ U.run = T.run /\ U.puts = q
          /\ U.slots = T.slots /\ U.at = s
      BY <1>4, <2>1 DEF TaskFields
    <2>3. Task(c, U)
      BY <1>4, <1>7, <1>8, <2>2 DEF Task
    <2> QED BY <1>4, <2>1, <2>2, <2>3 DEF TaskFields
  <1>9. CASE RunAfter(c)
    <2>0. PICK U : U = [T EXCEPT !.puts = q]
      OBVIOUS
    <2>1. T.puts # <<>> => Task(c, U)
      <3>1. T.at \notin Solo \cup Holding
        BY <1>3, <1>9 DEF RunAfter, Solo, Holding
      <3>2. /\ TaskFields \subseteq DOMAIN U /\ U.batch = T.batch /\ U.i = T.i /\ U.t = T.t /\ U.run = T.run /\ U.puts = q
            /\ U.slots = T.slots /\ U.at = T.at
        BY <1>4, <2>0 DEF TaskFields
      <3> QED BY <1>4, <1>7, <3>1, <3>2 DEF Task
    <2>2. PICK j : j = Head(T.puts)
      OBVIOUS
    <2>3. \/ Go(c, "route")
          \/ T.puts # <<>> /\ conn' = [conn EXCEPT ![c] = U]
          \/ T.puts # <<>> /\ conn' = [conn EXCEPT ![c] = WithAnswers(U, {j}, "retry")]
          \/ T.puts # <<>> /\ Go(c, "drain")
      BY <1>3, <1>6, <1>9, <2>0, <2>2 DEF RunAfter
    <2>4. CASE Go(c, "route")
      <3>1. PICK V : V = [T EXCEPT !.at = "route"]
        OBVIOUS
      <3>2. Task(c, V)
        BY <1>4, <3>1, TaskGoes DEF Solo, Holding
      <3>3. conn' = [conn EXCEPT ![c] = V]
        BY <1>3, <2>4, <3>1 DEF Go
      <3>4. Tasks'
        BY <1>1, <3>2, <3>3, TasksStep DEF IntakeTypes
      <3> QED BY <1>1, <1>2, <3>4 DEF IntakeTypes
    <2>5. CASE T.puts # <<>> /\ conn' = [conn EXCEPT ![c] = U]
      <3>4. Tasks'
        BY <1>1, <2>1, <2>5, TasksStep DEF IntakeTypes
      <3> QED BY <1>1, <1>2, <3>4 DEF IntakeTypes
    <2>6. CASE T.puts # <<>> /\ conn' = [conn EXCEPT ![c] = WithAnswers(U, {j}, "retry")]
      <3>1. PICK J : J = {j}
        OBVIOUS
      <3>2. PICK V : V = WithAnswers(U, J, "retry")
        OBVIOUS
      <3>3. Task(c, V)
        BY <2>1, <2>6, <3>2, TaskAnswered DEF IntakeTypes, Said
      <3>4. Tasks'
        BY <1>1, <2>6, <3>1, <3>2, <3>3, TasksStep DEF IntakeTypes
      <3> QED BY <1>1, <1>2, <3>4 DEF IntakeTypes
    <2>7. CASE T.puts # <<>> /\ Go(c, "drain")
      <3>1. PICK V : V = [T EXCEPT !.at = "drain"]
        OBVIOUS
      <3>2. Task(c, V)
        BY <1>4, <2>7, <3>1, TaskGoes DEF Solo
      <3>3. conn' = [conn EXCEPT ![c] = V]
        BY <1>3, <2>7, <3>1 DEF Go
      <3>4. Tasks'
        BY <1>1, <3>2, <3>3, TasksStep DEF IntakeTypes
      <3> QED BY <1>1, <1>2, <3>4 DEF IntakeTypes
    <2> QED BY <2>3, <2>4, <2>5, <2>6, <2>7
  <1>10. CASE HoldDrain(c) \/ HoldRecord(c)
    <2>1. PICK d, s : conn' = [conn EXCEPT ![c].at = s, ![c].drained = d] /\ s \in {"record", "merge"}
      <3>1. CASE HoldDrain(c)
        BY <3>1 DEF HoldDrain
      <3>2. CASE HoldRecord(c)
        <4>1. PICK shed \in Fault("removal") :
                 conn' = [conn EXCEPT ![c].at = "merge", ![c].drained = IF shed THEN @ ELSE <<>>]
          BY <3>2 DEF HoldRecord
        <4>2. PICK d : d = IF shed THEN conn[c].drained ELSE <<>>
          OBVIOUS
        <4>3. conn' = [conn EXCEPT ![c].at = "merge", ![c].drained = d]
          BY <1>3, <1>4, <4>1, <4>2 DEF TaskFields
        <4> QED BY <4>3
      <3> QED BY <1>10, <3>1, <3>2
    <2>2. T.puts # <<>> /\ s \notin Solo
      BY <1>3, <1>4, <1>10, <2>1 DEF HoldDrain, HoldRecord, Task, Holding, Solo
    <2>3. PICK U : U = [[T EXCEPT !.at = s] EXCEPT !.drained = d]
      OBVIOUS
    <2>4. /\ TaskFields \subseteq DOMAIN U /\ U.batch = T.batch /\ U.i = T.i /\ U.t = T.t /\ U.run = T.run /\ U.puts = T.puts
          /\ U.slots = T.slots /\ U.at = s
      BY <1>4, <2>3 DEF TaskFields
    <2>5. Task(c, U)
      BY <1>4, <2>2, <2>4 DEF Task
    <2>6. conn' = [conn EXCEPT ![c] = U]
      BY <1>3, <1>4, <2>1, <2>3 DEF TaskFields
    <2>7. Tasks'
      BY <1>1, <2>5, <2>6, TasksStep DEF IntakeTypes
    <2> QED BY <1>1, <1>2, <2>7 DEF IntakeTypes
  <1>11. CASE HoldMerge(c)
    <2>1. T.puts # <<>>
      BY <1>3, <1>4, <1>11 DEF HoldMerge, Task, Holding
    <2>2. PICK U : U = [T EXCEPT !.at = "after", !.drained = <<>>, !.puts = q]
      OBVIOUS
    <2>3. Task(c, U)
      BY <1>8, <2>1, <2>2 DEF Solo, Holding
    <2>4. PICK J : J = {Head(T.puts)}
      OBVIOUS
    <2>5. PICK V : V = WithAnswers(U, J, "retry")
      OBVIOUS
    <2>6. Task(c, V)
      BY <2>3, <2>5, TaskAnswered DEF IntakeTypes, Said
    <2>7. conn' = [conn EXCEPT ![c] = V] \/ conn' = [conn EXCEPT ![c] = U]
      BY <1>3, <1>6, <1>11, <2>2, <2>4, <2>5 DEF HoldMerge
    <2>8. Tasks'
      BY <1>1, <2>3, <2>6, <2>7, TasksStep DEF IntakeTypes
    <2> QED BY <1>1, <1>2, <2>8 DEF IntakeTypes
  <1> QED BY <1>9, <1>10, <1>11

\* The puts of a run are slots of the run.
LEMMA PrecheckedIs ==
  ASSUME menu \in Menus, Tasks, NEW c \in Conns
  PROVE  Prechecked(c).puts \in Seq(Plain(conn[c].batch))
  <1>1. PICK T : T = conn[c]
    OBVIOUS
  <1>2. Task(c, T) /\ T.run \in Seq(Plain(T.batch))
    BY <1>1 DEF Tasks, Task
  <1>3. PICK P : P = Plain(T.batch)
    OBVIOUS
  <1>4. PICK n \in Nat : n = Len(T.run) /\ \A k \in 1..n : T.run[k] \in P
    BY <1>2, <1>3, LenProperties, ElementOfSeq
  <1>5. PICK K : K = T.known \union {T.batch[j].id : j \in P}
    OBVIOUS
  <1>6. PICK D : D = [known : SUBSET K, puts : Seq(P), out : SUBSET P]
    OBVIOUS
  <1>7. PICK e : e = [known |-> T.known, puts |-> <<>>, out |-> {}]
    OBVIOUS
  <1>8. e \in D
    <2>1. <<>> \in Seq(P)
      OBVIOUS
    <2> QED BY <1>5, <1>6, <1>7, <2>1
  <1> DEFINE ok(p, k) == Verdict(T.batch[T.run[k]], p.known, T.run[k] \in T.verified) = "accept"
             Walk1(p, k) == IF ok(p, k) THEN [p EXCEPT !.known = @ \union {T.batch[T.run[k]].id}, !.puts = Append(@, T.run[k])]
                            ELSE [p EXCEPT !.out = @ \union {T.run[k]}]
             G == [x \in D \X (1..n) |-> Walk1(x[1], x[2])]
             f == CHOOSE f : f = [k \in 0..n |-> IF k = 0 THEN e ELSE Walk1(f[k - 1], k)]
  <1>9. Prechecked(c) = f[n]
    BY <1>1, <1>4, <1>7 DEF Prechecked
  <1> HIDE DEF ok
  <1>10. \A p \in D, k \in 1..n : Walk1(p, k) \in D
    <2> TAKE p \in D, k \in 1..n
    <2>1. PICK j \in P : j = T.run[k]
      BY <1>4
    <2>2. p.known \subseteq K /\ p.puts \in Seq(P) /\ p.out \subseteq P /\ p = [known |-> p.known, puts |-> p.puts, out |-> p.out]
      BY <1>6
    <2>3. PICK q : q = Append(p.puts, j)
      OBVIOUS
    <2>4. q \in Seq(P)
      BY <2>2, <2>3, AppendProperties
    <2>5. PICK A : A = p.known \union {T.batch[j].id}
      OBVIOUS
    <2>6. A \subseteq K
      BY <1>5, <2>2, <2>5
    <2>7. PICK O : O = p.out \union {j}
      OBVIOUS
    <2>8. O \subseteq P
      BY <2>2, <2>7
    <2>9. CASE ok(p, k)
      <3>1. Walk1(p, k) = [known |-> A, puts |-> q, out |-> p.out]
        BY <2>1, <2>2, <2>3, <2>5, <2>9
      <3> HIDE DEF Walk1
      <3> QED BY <1>6, <2>2, <2>4, <2>6, <3>1
    <2>10. CASE ~ ok(p, k)
      <3>1. Walk1(p, k) = [known |-> p.known, puts |-> p.puts, out |-> O]
        BY <2>1, <2>2, <2>7, <2>10
      <3> HIDE DEF Walk1
      <3> QED BY <1>6, <2>2, <2>8, <3>1
    <2> QED BY <2>9, <2>10
  <1> HIDE DEF Walk1
  <1>11. PICK g : Walks(D, e, G, n, g)
    <2>1. G \in [D \X (1..n) -> D]
      BY <1>10
    <2> HIDE DEF G
    <2> QED BY <1>8, <2>1, WalkExists
  <1>12. g = [k \in 0..n |-> IF k = 0 THEN e ELSE Walk1(g[k - 1], k)]
    <2>1. g \in [0..n -> D] /\ g[0] = e /\ \A k \in 1..n : g[k] = Walk1(g[k - 1], k)
      <3>1. g \in [0..n -> D] /\ g[0] = e /\ \A k \in 1..n : g[k] = G[<<g[k - 1], k>>]
        <4> HIDE DEF G
        <4> QED BY <1>11 DEF Walks
      <3>2. \A k \in 1..n : g[k - 1] \in D
        BY <3>1
      <3>3. \A p \in D, k \in 1..n : G[<<p, k>>] = Walk1(p, k)
        OBVIOUS
      <3> HIDE DEF G
      <3> QED BY <3>1, <3>2, <3>3
    <2> QED BY <2>1
  <1>13. f[0] = e /\ \A k \in 1..n : f[k] = Walk1(f[k - 1], k)
    <2>1. f = [k \in 0..n |-> IF k = 0 THEN e ELSE Walk1(f[k - 1], k)]
      BY <1>12
    <2> HIDE DEF f
    <2> QED BY <2>1
  <1> HIDE DEF f
  <1>14. \A k \in 0..n : f[k] \in D
    <2>1. \A k \in 1..n : f[k - 1] \in D => f[k] \in D
      BY <1>10, <1>13
    <2>2. f[0] \in D
      BY <1>8, <1>13
    <2> QED BY <2>1, <2>2, WalkInduct
  <1>15. f[n] \in D
    BY <1>14
  <1> QED BY <1>1, <1>3, <1>6, <1>9, <1>15

\* What is kept of a sequence is a sequence over the same set.
LEMMA OnlyInSeq ==
  ASSUME NEW S, NEW q \in Seq(S), NEW T
  PROVE  OnlyIn(q, T) \in Seq(S)
  <1>1. PICK p : p = OnlyIn(q, T)
    OBVIOUS
  <1>2. p \in Seq(S \cap T)
    BY <1>1, OnlyInKeeps
  <1>3. p \in Seq(S)
    BY <1>2, SeqDef
  <1> QED BY <1>1, <1>3

\* What the rate leaves of a run, and the limiter after it.
LEMMA ChargedIs ==
  ASSUME IntakeTypes, NEW c \in Conns, NEW puts, puts \in Seq(Plain(conn[c].batch))
  PROVE  Fits(Charged(c, puts).l, Rates) /\ Charged(c, puts).kept \in Seq(Plain(conn[c].batch))
  <1>1. PICK T : T = conn[c]
    OBVIOUS
  <1>2. Task(c, T) /\ T.t \in Nat
    BY <1>1 DEF IntakeTypes, Tasks, Task
  <1>3. PICK P : P = Plain(T.batch)
    OBVIOUS
  <1>4. P \subseteq DOMAIN T.batch /\ puts \in Seq(P)
    BY <1>1, <1>3 DEF Plain
  <1>5. PICK w : w = AuthorsOf(T.batch, puts)
    OBVIOUS
  <1>6. w \in Seq(Authors)
    <2>1. T.batch \in Seq(SentEvent)
      BY <1>2, BatchIs DEF IntakeTypes
    <2> QED BY <1>4, <1>5, <2>1, AuthorsAre
  <1>7. PICK r : r = AllowAll(lim.pub, RateLimit, w, DOMAIN puts, T.t)
    OBVIOUS
  <1>8. CASE RateLimit = 0
    <2>1. Charged(c, puts) = [l |-> lim.pub, kept |-> puts]
      BY <1>8 DEF Charged
    <2> QED BY <2>1, <1>1, <1>3, <1>4 DEF IntakeTypes, Limits
  <1>9. CASE RateLimit # 0
    <2>1. PICK max : max = RateLimit
      OBVIOUS
    <2>2. max \in Rates \ {0} /\ Rates \in SUBSET Nat
      BY <1>9, <2>1, RatesAre
    <2>3. Fits(r.l, Rates)
      BY <1>2, <1>6, <1>7, <2>1, <2>2, AllowAllFits DEF IntakeTypes, Limits
    <2>4. PICK S : S = {puts[k] : k \in r.ok}
      OBVIOUS
    <2>5. PICK q : q = OnlyIn(puts, S)
      OBVIOUS
    <2>6. q \in Seq(P)
      BY <1>4, <2>5, OnlyInSeq
    <2>7. Charged(c, puts) = [l |-> r.l, kept |-> q]
      BY <1>1, <1>5, <1>7, <1>9, <2>4, <2>5 DEF Charged
    <2> QED BY <1>1, <1>3, <2>3, <2>6, <2>7
  <1> QED BY <1>8, <1>9

\* The run is checked, charged and queued, or given back.
LEMMA RunCheckTypes ==
  ASSUME IntakeTypes, NEW c \in Conns, RunCheck(c)
  PROVE  IntakeTypes'
  <1>1. menu' = menu /\ clock' = clock /\ answered' = answered
    BY DEF RunCheck
  <1>2. PICK T : T = conn[c]
    OBVIOUS
  <1>3. Task(c, T) /\ TaskFields \subseteq DOMAIN T /\ T.t \in Nat /\ menu \in Menus
    BY <1>2 DEF IntakeTypes, Tasks, Task
  <1>4. PICK noDb \in Fault("read"), shed \in Fault("shed") :
          LET T1 == conn[c]
              p == Prechecked(c)
              aged == OnlyIn(p.puts, {j \in ToSet(p.puts) : ~(MinAge > 0 /\ noDb) /\ ~TooNew(T1.batch[j], T1.t)})
              r == Charged(c, aged)
              refused == WithAnswers(T1, ToSet(T1.run) \ ToSet(r.kept), "reject")
              gone == shed \/ r.kept = <<>>
              back == RollbackAll(r.l, AuthorsOf(T1.batch, r.kept), T1.t)
          IN  /\ conn' = [conn EXCEPT ![c] =
                  IF gone THEN [WithAnswers(refused, ToSet(r.kept), "retry") EXCEPT !.run = <<>>, !.at = "route"]
                  ELSE [refused EXCEPT !.run = <<>>, !.puts = r.kept, !.at = "queued"]]
              /\ lim' = [lim EXCEPT !.pub = IF gone THEN back ELSE r.l]
    BY DEF RunCheck
  <1>5. PICK p : p = Prechecked(c)
    OBVIOUS
  <1>6. PICK young : young = {j \in ToSet(p.puts) : ~(MinAge > 0 /\ noDb) /\ ~TooNew(conn[c].batch[j], conn[c].t)}
    OBVIOUS
  <1>7. PICK aged : aged = OnlyIn(p.puts, young)
    OBVIOUS
  <1>8. PICK P : P = Plain(T.batch)
    OBVIOUS
  <1>9. aged \in Seq(P) /\ P \subseteq DOMAIN T.batch
    BY <1>2, <1>3, <1>5, <1>7, <1>8, PrecheckedIs, OnlyInSeq DEF Plain, IntakeTypes
  <1>10. PICK r : r = Charged(c, aged)
    OBVIOUS
  <1>11. PICK l, kept : l = r.l /\ kept = r.kept
    OBVIOUS
  <1>12. Fits(l, Rates) /\ kept \in Seq(P)
    BY <1>2, <1>8, <1>9, <1>10, <1>11, ChargedIs
  <1>13. PICK X : X = ToSet(conn[c].run) \ ToSet(kept)
    OBVIOUS
  <1>14. PICK U : U = WithAnswers(conn[c], X, "reject")
    OBVIOUS
  <1>15. PICK Y : Y = ToSet(kept)
    OBVIOUS
  <1>16. PICK V : V = WithAnswers(U, Y, "retry")
    OBVIOUS
  <1>17. Task(c, U) /\ U.batch = T.batch /\ Task(c, V) /\ V.batch = T.batch
    <2>1. Task(c, U) /\ U.batch = T.batch
      BY <1>2, <1>3, <1>14, TaskAnswered DEF Said
    <2>2. Task(c, V) /\ V.batch = U.batch
      BY <1>3, <1>16, <2>1, TaskAnswered DEF Said
    <2> QED BY <2>1, <2>2
  <1>18. PICK back : back = RollbackAll(l, AuthorsOf(conn[c].batch, kept), conn[c].t)
    OBVIOUS
  <1>19. Fits(back, Rates)
    <2>1. PICK w : w = AuthorsOf(T.batch, kept)
      OBVIOUS
    <2>2. w \in Seq(Authors)
      <3>1. T.batch \in Seq(SentEvent)
        BY <1>3, BatchIs
      <3> QED BY <1>9, <1>12, <2>1, <3>1, AuthorsAre
    <2> QED BY <1>2, <1>3, <1>12, <1>18, <2>1, <2>2, RatesAre, RollbackAllFits
  <1>20. PICK W : W = [[V EXCEPT !.run = <<>>] EXCEPT !.at = "route"]
    OBVIOUS
  <1>21. PICK Q : Q = [[[U EXCEPT !.run = <<>>] EXCEPT !.puts = kept] EXCEPT !.at = "queued"]
    OBVIOUS
  <1>22. Task(c, W) /\ Task(c, Q)
    <2>1. <<>> \in Seq(P)
      OBVIOUS
    <2>2. TaskFields \subseteq DOMAIN V /\ TaskFields \subseteq DOMAIN U
      BY <1>17 DEF Task
    <2>3. /\ TaskFields \subseteq DOMAIN W /\ W.batch = V.batch /\ W.i = V.i /\ W.t = V.t /\ W.run = <<>> /\ W.puts = V.puts
          /\ W.slots = V.slots /\ W.at = "route"
      BY <1>20, <2>2 DEF TaskFields
    <2>4. /\ TaskFields \subseteq DOMAIN Q /\ Q.batch = U.batch /\ Q.i = U.i /\ Q.t = U.t /\ Q.run = <<>> /\ Q.puts = kept
          /\ Q.slots = U.slots /\ Q.at = "queued"
      BY <1>21, <2>2 DEF TaskFields
    <2>5. W.at \notin Solo \cup Holding /\ Q.at \notin Solo \cup Holding
      BY <2>3, <2>4 DEF Solo, Holding
    <2>6. W.run \in Seq(Plain(W.batch)) /\ Q.run \in Seq(Plain(Q.batch)) /\ Q.puts \in Seq(Plain(Q.batch))
      BY <1>8, <1>12, <1>17, <2>1, <2>3, <2>4
    <2>7. Task(c, W)
      BY <1>17, <2>3, <2>5, <2>6 DEF Task
    <2>8. Task(c, Q)
      BY <1>17, <2>4, <2>5, <2>6 DEF Task
    <2> QED BY <2>7, <2>8
  <1>23. \/ conn' = [conn EXCEPT ![c] = W] /\ lim' = [lim EXCEPT !.pub = back]
         \/ conn' = [conn EXCEPT ![c] = Q] /\ lim' = [lim EXCEPT !.pub = l]
    <2>1. [V EXCEPT !.run = <<>>, !.at = "route"] = W /\ [U EXCEPT !.run = <<>>, !.puts = kept, !.at = "queued"] = Q
      BY <1>20, <1>21
    <2>2. /\ conn' = [conn EXCEPT ![c] = IF shed \/ kept = <<>> THEN [V EXCEPT !.run = <<>>, !.at = "route"]
                                         ELSE [U EXCEPT !.run = <<>>, !.puts = kept, !.at = "queued"]]
          /\ lim' = [lim EXCEPT !.pub = IF shed \/ kept = <<>> THEN back ELSE l]
      BY <1>4, <1>5, <1>6, <1>7, <1>10, <1>11, <1>13, <1>14, <1>15, <1>16, <1>18
    <2>3. CASE shed \/ kept = <<>>
      BY <2>1, <2>2, <2>3
    <2>4. CASE ~ (shed \/ kept = <<>>)
      BY <2>1, <2>2, <2>4
    <2> QED BY <2>3, <2>4
  <1>24. Tasks'
    BY <1>1, <1>22, <1>23, TasksStep DEF IntakeTypes
  <1>25. Limits'
    BY <1>1, <1>12, <1>19, <1>23, PubStep DEF IntakeTypes
  <1> QED BY <1>1, <1>24, <1>25 DEF IntakeTypes

\* What the store may answer.
LEMMA OutcomeIs ==
  \A d, e : PutOutcome(d, e) \in Said
  BY DEF PutOutcome, Said

\* The run is committed, or lost.
LEMMA RunCommitTypes ==
  ASSUME IntakeTypes, NEW c \in Conns, RunCommit(c)
  PROVE  IntakeTypes'
  <1>1. menu' = menu /\ clock' = clock /\ answered' = answered /\ conn[c].at = "queued"
    BY DEF RunCommit
  <1>2. PICK T : T = conn[c]
    OBVIOUS
  <1>3. Task(c, T) /\ TaskFields \subseteq DOMAIN T /\ T.t \in Nat /\ menu \in Menus /\ T.slots \in [DOMAIN T.batch -> Answer]
    BY <1>2 DEF IntakeTypes, Tasks, Task
  <1>4. PICK P : P = Plain(T.batch)
    OBVIOUS
  <1>5. T.puts \in Seq(P) /\ P \subseteq DOMAIN T.batch
    BY <1>3, <1>4 DEF Task, Plain
  <1>6. PICK lost \in Fault("lost") :
          /\ lim' = [lim EXCEPT !.pub = RollbackAll(@, AuthorsOf(T.batch, OnlyIn(T.puts, ToSet(T.puts) \ OutcomeSlots(T, Outcomes(T, db, lost), Accepted))), T.t)]
          /\ conn' = [conn EXCEPT ![c] = FinishedRun(T, Outcomes(T, db, lost))]
    BY <1>2 DEF RunCommit
  <1>8. PICK o : o = Outcomes(T, db, lost)
    OBVIOUS
  <1>9. PICK S : S = OutcomeSlots(T, o, Accepted)
    OBVIOUS
  <1>11. PICK refused : refused = OnlyIn(T.puts, ToSet(T.puts) \ S)
    OBVIOUS
  <1>12. PICK kept : kept = OnlyIn(T.puts, S)
    OBVIOUS
  <1>13. PICK known : known = T.known \union {T.batch[j].id : j \in OutcomeSlots(T, o, Accepted \union {"duplicate"})}
    OBVIOUS
  <1>14. PICK slots : slots = [j \in DOMAIN T.slots |-> IF j \in ToSet(T.puts)
                                 THEN [id |-> T.batch[j].id, ans |-> o[CHOOSE k \in DOMAIN T.puts : Slot(T, k) = j]]
                                 ELSE T.slots[j]]
    OBVIOUS
  <1>15. PICK l : l = RollbackAll(lim.pub, AuthorsOf(T.batch, refused), T.t)
    OBVIOUS
  <1>16. PICK U : U = [[[[T EXCEPT !.slots = slots] EXCEPT !.puts = kept] EXCEPT !.known = known] EXCEPT !.at = "after"]
    OBVIOUS
  <1>17. lim' = [lim EXCEPT !.pub = l] /\ conn' = [conn EXCEPT ![c] = U]
    <2>1. FinishedRun(T, o) = U
      BY <1>9, <1>12, <1>13, <1>14, <1>16 DEF FinishedRun
    <2> QED BY <1>6, <1>8, <1>9, <1>11, <1>15, <2>1
  <1>18. refused \in Seq(P) /\ kept \in Seq(P)
    BY <1>5, <1>11, <1>12, OnlyInSeq
  <1>19. Fits(l, Rates)
    <2>1. PICK w : w = AuthorsOf(T.batch, refused)
      OBVIOUS
    <2>2. w \in Seq(Authors)
      <3>1. T.batch \in Seq(SentEvent)
        BY <1>3, BatchIs
      <3> QED BY <1>5, <1>18, <2>1, <3>1, AuthorsAre
    <2> QED BY <1>3, <1>15, <2>1, <2>2, RatesAre, RollbackAllFits DEF IntakeTypes, Limits
  <1>20. slots \in [DOMAIN T.batch -> Answer]
    <2>1. \A k \in DOMAIN T.puts : o[k] \in Said
      BY <1>8, OutcomeIs DEF Said, Outcomes
    <2>2. \A j \in ToSet(T.puts) : (CHOOSE k \in DOMAIN T.puts : Slot(T, k) = j) \in DOMAIN T.puts
      BY DEF ToSet, Slot
    <2>3. \A j \in DOMAIN T.batch : slots[j] \in Answer
      <3> TAKE j \in DOMAIN T.batch
      <3>1. CASE j \in ToSet(T.puts)
        <4>1. PICK k \in DOMAIN T.puts : k = CHOOSE x \in DOMAIN T.puts : Slot(T, x) = j
          BY <2>2, <3>1
        <4>2. PICK a \in Said : a = o[k]
          BY <2>1
        <4>3. T.batch[j].id \in Nat
          BY <1>3, BatchIs DEF SentEvent
        <4>4. slots[j] = [id |-> T.batch[j].id, ans |-> a]
          BY <1>3, <1>14, <3>1, <4>1, <4>2
        <4> QED BY <4>3, <4>4 DEF Answer
      <3>2. CASE j \notin ToSet(T.puts)
        BY <1>3, <1>14, <3>2
      <3> QED BY <3>1, <3>2
    <2>4. DOMAIN slots = DOMAIN T.batch /\ slots = [j \in DOMAIN slots |-> slots[j]]
      BY <1>3, <1>14
    <2> QED BY <2>3, <2>4
  <1>21. Task(c, U)
    <2>1. /\ TaskFields \subseteq DOMAIN U /\ U.batch = T.batch /\ U.i = T.i /\ U.t = T.t /\ U.run = T.run /\ U.puts = kept
          /\ U.slots = slots /\ U.at = "after"
      BY <1>3, <1>16 DEF TaskFields
    <2>2. U.at \notin Solo \cup Holding
      BY <2>1 DEF Solo, Holding
    <2> QED BY <1>3, <1>4, <1>18, <1>20, <2>1, <2>2 DEF Task
  <1>22. Tasks'
    BY <1>1, <1>17, <1>21, TasksStep DEF IntakeTypes
  <1>23. Limits'
    BY <1>1, <1>17, <1>19, PubStep DEF IntakeTypes
  <1> QED BY <1>1, <1>22, <1>23 DEF IntakeTypes

\* The steps of the process.
LEMMA ProcessTypes ==
  ASSUME IntakeTypes, PersistRoles \/ ClockTick \/ Crash \/ Recover \/ Stop
  PROVE  IntakeTypes'
  <1>0. PICK L : L = [pub |-> NoWindows, join |-> NoWindows]
    OBVIOUS
  <1>1. /\ menu' = menu /\ (lim' = lim \/ lim' = L)
        /\ clock' = clock \/ (clock + 1 < Len(menu.rate) /\ clock' = clock + 1)
    BY <1>0 DEF PersistRoles, ClockTick, Crash, Recover, Stop
  <1>2. Limits'
    <2>1. CASE lim' = lim
      BY <1>1, <2>1, LimitsSame DEF IntakeTypes
    <2>2. CASE lim' = L
      <3>1. Fits(NoWindows, Rates) /\ Fits(NoWindows, {JoinLimit})
        <4>1. PICK R : R = {JoinLimit}
          OBVIOUS
        <4> QED BY <4>1, EmptyFits
      <3>2. Rates' = Rates
        BY <1>1 DEF Rates
      <3>3. lim'.pub = NoWindows /\ lim'.join = NoWindows /\ lim' = [pub |-> lim'.pub, join |-> lim'.join]
        BY <1>0, <2>2
      <3> QED BY <3>1, <3>2, <3>3 DEF Limits
    <2> QED BY <1>1, <2>1, <2>2
  <1>3. clock' \in Nat /\ clock' < Len(menu'.rate)
    BY <1>1 DEF IntakeTypes
  <1>4. CASE Crash
    <2>1. DOMAIN conn' = Conns /\ \A c \in Conns : conn'[c] = IdleConn
      BY <1>4 DEF Crash
    <2>2. \A c \in Conns : Task(c, conn'[c])
      BY <2>1, IdleTask
    <2>3. Tasks'
      BY <1>1, <2>1, <2>2 DEF Tasks, Task
    <2>4. answered' \in [Conns -> Seq(Seq(Answer))]
      <3>1. PICK A : A = Seq(Answer)
        OBVIOUS
      <3>2. PICK e : e = <<>>
        OBVIOUS
      <3>3. e \in A
        BY <3>1, <3>2
      <3>4. \A c \in Conns : answered[c] \in Seq(A) /\ Append(answered[c], e) \in Seq(A)
        BY <3>1, <3>3, AppendProperties DEF IntakeTypes
      <3>5. answered' = [c \in Conns |-> IF conn[c].at = "idle" THEN answered[c] ELSE Append(answered[c], e)]
        BY <1>4, <3>2 DEF Crash
      <3> QED BY <3>1, <3>4, <3>5
    <2> QED BY <1>1, <1>2, <1>3, <2>3, <2>4 DEF IntakeTypes
  <1>5. CASE ~Crash
    <2>1. conn' = conn /\ answered' = answered
      BY <1>5 DEF PersistRoles, ClockTick, Recover, Stop
    <2>2. Tasks'
      BY <1>1, <2>1 DEF IntakeTypes, Tasks, Task
    <2> QED BY <1>1, <1>2, <1>3, <2>1, <2>2 DEF IntakeTypes
  <1> QED BY <1>4, <1>5

\* No connection has begun.
LEMMA InitTypes ==
  ASSUME IntakeInit
  PROVE  IntakeTypes
  <1>1. menu \in Menus /\ clock = 0
    BY DEF IntakeInit
  <1>2. 0 < Len(menu.rate)
    <2>1. PICK r \in Seq(Nat) : r = menu.rate /\ r # <<>>
      BY <1>1, MenuType
    <2>2. Len(r) \in Nat \ {0}
      BY <2>1, EmptySeq, LenProperties
    <2> QED BY <2>1, <2>2
  <1>3. Limits
    <2>1. Fits(NoWindows, Rates) /\ Fits(NoWindows, {JoinLimit})
      <3>1. PICK R : R = {JoinLimit}
        OBVIOUS
      <3> QED BY <3>1, EmptyFits
    <2>2. lim = [pub |-> NoWindows, join |-> NoWindows]
      BY DEF IntakeInit
    <2>3. lim.pub = NoWindows /\ lim.join = NoWindows /\ lim = [pub |-> lim.pub, join |-> lim.join]
      BY <2>2
    <2> QED BY <2>1, <2>3 DEF Limits
  <1>4. Tasks
    <2>1. DOMAIN conn = Conns /\ \A c \in Conns : conn[c] = IdleConn
      BY DEF IntakeInit
    <2> QED BY <2>1, IdleTask DEF Tasks
  <1>5. answered \in [Conns -> Seq(Seq(Answer))]
    BY DEF IntakeInit
  <1> QED BY <1>1, <1>2, <1>3, <1>4, <1>5 DEF IntakeTypes

\* Every step keeps the types.
LEMMA StepTypes ==
  ASSUME IntakeTypes, [IntakeNext]_ivars
  PROVE  IntakeTypes'
  <1>1. CASE UNCHANGED ivars
    <2>1. menu' = menu /\ clock' = clock /\ lim' = lim /\ conn' = conn /\ answered' = answered
      BY <1>1 DEF ivars
    <2>2. Limits'
      BY <2>1, LimitsSame DEF IntakeTypes
    <2>3. Tasks'
      BY <2>1 DEF IntakeTypes, Tasks, Task
    <2> QED BY <2>1, <2>2, <2>3 DEF IntakeTypes
  <1>2. ASSUME NEW c \in Conns, Step(c) PROVE IntakeTypes'
    <2>1. CASE AdmitMember(c) \/ AdmitRecheck(c) \/ VanishMark(c) \/ VanishRoles(c) \/ Mark(c) \/ Put(c) \/ Effect(c) \/ Undo(c) \/ ClearPending(c)
      BY <2>1, SoloTypes
    <2>2. CASE RunAfter(c) \/ HoldDrain(c) \/ HoldRecord(c) \/ HoldMerge(c)
      BY <2>2, AfterTypes
    <2> QED BY <1>2, <2>1, <2>2, BeginTypes, RouteTypes, RunCheckTypes, RunCommitTypes, CheckTypes, GateTypes DEF Step
  <1> QED BY <1>1, <1>2, ProcessTypes DEF IntakeNext

\* Types are invariant.
LEMMA TypesHold == IntakeSpec => []IntakeTypes
  <1>1. IntakeInit => IntakeTypes
    BY InitTypes
  <1>2. IntakeTypes /\ [IntakeNext]_ivars => IntakeTypes'
    BY StepTypes
  <1> QED BY <1>1, <1>2, PTL DEF IntakeSpec

\* LimiterExact holds for every number of connections, authors, limits and batches.
THEOREM LimitersCorrect == IntakeSpec => []LimiterExact
  <1>1. IntakeTypes => LimiterExact
    <2> SUFFICES ASSUME IntakeTypes PROVE LimiterExact
      OBVIOUS
    <2>1. Fits(lim.pub, Rates) /\ Fits(lim.join, {JoinLimit})
      BY DEF IntakeTypes, Limits
    <2>2. \A l \in {lim.pub, lim.join} : Mirrored(l) /\ Cardinality(DOMAIN l.win) <= Tracked
      BY <2>1 DEF Fits
    <2>3. \A a \in DOMAIN lim.pub.win : \E k \in DOMAIN menu.rate : Len(lim.pub.win[a]) <= menu.rate[k]
      BY <2>1 DEF Fits, Rates
    <2>4. \A a \in DOMAIN lim.join.win : Len(lim.join.win[a]) <= JoinLimit
      BY <2>1 DEF Fits
    <2> QED BY <2>2, <2>3, <2>4 DEF LimiterExact
  <1> QED BY <1>1, TypesHold, PTL

-----------------------------------------------------------------------------
(* The store *)

\* What is durable.
DbType(d) ==
    /\ d = [f \in DOMAIN d |-> d[f]] /\ DbFields \subseteq DOMAIN d
    /\ d.role = [a \in Authors |-> d.role[a]] /\ d.vanished \subseteq Authors
    /\ d.seen \in [Authors -> Nat \union {Unset}]
    /\ d.journal \subseteq Nat /\ IsFiniteSet(d.journal)

\* What two states of the store have in common when only what is stored, seen, pending, banned or replied differs.
SameDb(d, n) ==
    /\ n.role = d.role /\ n.vanished = d.vanished /\ n.applied = d.applied /\ n.journal = d.journal
    /\ n.deleted = d.deleted /\ n.marks = d.marks

RoleTypes == DbType(db) /\ role = [a \in Authors |-> role[a]]

\* One put.
LEMMA StoredIs ==
  ASSUME NEW d, DbType(d), NEW e \in SentEvent, NEW now \in Nat
  PROVE  /\ DbType(Stored(d, e, now)) /\ SameDb(d, Stored(d, e, now))
         /\ d.events \subseteq Stored(d, e, now).events /\ Stored(d, e, now).events \subseteq d.events \union {e.id}
         /\ PutOutcome(d, e) = "stored" => e.id \in Stored(d, e, now).events
         /\ PutOutcome(d, e) # "stored" => Stored(d, e, now).events = d.events
  <1>0. e.author \in Authors /\ DbFields \subseteq DOMAIN d
    BY DEF SentEvent, DbType
  <1>1. CASE PutOutcome(d, e) \notin Accepted
    <2>1. Stored(d, e, now) = d
      BY <1>1 DEF Stored
    <2> QED BY <1>1, <2>1 DEF SameDb, Accepted
  <1>2. CASE PutOutcome(d, e) \in Accepted
    <2>1. PICK X : X = IF e.cls \in Ephemeral THEN d.events ELSE d.events \union {e.id}
      OBVIOUS
    <2>2. PICK Y : Y = [d.seen EXCEPT ![e.author] = IF MinAge > 0 /\ @ = Unset THEN now ELSE @]
      OBVIOUS
    <2>3. PICK n : n = [[d EXCEPT !.events = X] EXCEPT !.seen = Y]
      OBVIOUS
    <2>4. Stored(d, e, now) = n
      BY <1>0, <1>2, <2>1, <2>2, <2>3 DEF Stored, DbFields
    <2>5. /\ n = [f \in DOMAIN n |-> n[f]] /\ DbFields \subseteq DOMAIN n /\ n.events = X /\ n.seen = Y /\ n.role = d.role /\ n.vanished = d.vanished
          /\ n.applied = d.applied /\ n.journal = d.journal /\ n.deleted = d.deleted /\ n.marks = d.marks
      BY <1>0, <2>3 DEF DbFields
    <2>6. Y \in [Authors -> Nat \union {Unset}]
      <3>1. d.seen \in [Authors -> Nat \union {Unset}]
        BY DEF DbType
      <3>2. PICK y : y = IF MinAge > 0 /\ d.seen[e.author] = Unset THEN now ELSE d.seen[e.author]
        OBVIOUS
      <3>3. y \in Nat \union {Unset}
        BY <1>0, <3>1, <3>2
      <3>4. Y = [d.seen EXCEPT ![e.author] = y]
        BY <1>0, <2>2, <3>1, <3>2
      <3> QED BY <3>1, <3>3, <3>4
    <2>7. DbType(n) /\ SameDb(d, n)
      BY <2>5, <2>6 DEF DbType, SameDb
    <2>8. PutOutcome(d, e) = "stored" <=> e.cls \notin Ephemeral
      BY <1>2 DEF PutOutcome, Accepted
    <2> QED BY <2>1, <2>4, <2>5, <2>7, <2>8
  <1> QED BY <1>1, <1>2

\* A marker is cleared.
LEMMA UnmarkIs ==
  ASSUME NEW d, DbType(d), NEW e
  PROVE  LET n == Unmark(d, e)
         IN  /\ DbType(n) /\ n.journal = d.journal \ {e.id} /\ n.role = d.role /\ n.vanished = d.vanished /\ n.applied = d.applied
             /\ n.events = d.events /\ n.deleted = d.deleted /\ n.marks \subseteq d.marks
  <1>1. PICK J : J = d.journal \ {e.id}
    OBVIOUS
  <1>2. PICK M : M = d.marks \ {e.id}
    OBVIOUS
  <1>3. PICK n : n = [[d EXCEPT !.journal = J] EXCEPT !.marks = M]
    OBVIOUS
  <1>4. Unmark(d, e) = n
    BY <1>1, <1>2, <1>3 DEF Unmark, DbType, DbFields
  <1>5. /\ n = [f \in DOMAIN n |-> n[f]] /\ DbFields \subseteq DOMAIN n /\ n.events = d.events /\ n.seen = d.seen /\ n.role = d.role /\ n.vanished = d.vanished
        /\ n.applied = d.applied /\ n.journal = J /\ n.deleted = d.deleted /\ n.marks = M
    BY <1>3 DEF DbType, DbFields
  <1>6. J \subseteq Nat /\ IsFiniteSet(J)
    BY <1>1, FS_Subset DEF DbType
  <1>7. DbType(n)
    BY <1>5, <1>6 DEF DbType
  <1> QED BY <1>1, <1>2, <1>4, <1>5, <1>7

\* The puts of a run, one after the other.
LEMMA CommittedIs ==
  ASSUME menu \in Menus, NEW c \in Conns, NEW T, Task(c, T), NEW d, DbType(d)
  PROVE  LET f == Committed(T, d)
         IN  /\ f[0] = d
             /\ \A k \in DOMAIN T.puts : f[k] = Stored(f[k - 1], T.batch[T.puts[k]], T.t)
             /\ \A k \in 0..Len(T.puts) : DbType(f[k]) /\ SameDb(d, f[k]) /\ d.events \subseteq f[k].events
             /\ \A k \in 0..Len(T.puts) : f[k].events \subseteq d.events \union {T.batch[j].id : j \in ToSet(T.puts)}
  <1>1. PICK n \in Nat : n = Len(T.puts) /\ DOMAIN T.puts = 1..n /\ \A k \in 1..n : T.puts[k] \in DOMAIN T.batch
    <2>1. T.puts \in Seq(Plain(T.batch))
      BY DEF Task
    <2>2. \A k \in Plain(T.batch) : k \in DOMAIN T.batch
      BY DEF Plain
    <2> QED BY <2>1, <2>2, LenProperties, ElementOfSeq
  <1>2. \A k \in 1..n : T.batch[T.puts[k]] \in SentEvent
    BY <1>1, BatchIs
  <1>3. T.t \in Nat
    BY DEF Task
  <1>4. PICK I : I = {T.batch[j].id : j \in ToSet(T.puts)}
    OBVIOUS
  <1>5. \A k \in 1..n : T.batch[T.puts[k]].id \in I
    BY <1>1, <1>4 DEF ToSet
  <1>f. PICK F : F = [Authors -> Nat \union {Unset}]
    OBVIOUS
  <1>6. PICK W : /\ \A f \in DOMAIN d : d[f] \in W
                 /\ \A X : X \subseteq d.events \union I => X \in W
                 /\ \A x \in F : x \in W
    <2>1. PICK A : \A f \in DOMAIN d : d[f] \in A
      <3> WITNESS {d[f] : f \in DOMAIN d}
      <3> QED OBVIOUS
    <2>2. PICK B : \A X : X \subseteq d.events \union I => X \in B
      <3> WITNESS SUBSET (d.events \union I)
      <3> QED OBVIOUS
    <2> WITNESS A \union B \union F
    <2> QED BY <2>1, <2>2
  <1>7. PICK D : D = {x \in [DOMAIN d -> W] : /\ DbType(x) /\ SameDb(d, x)
                                             /\ d.events \subseteq x.events /\ x.events \subseteq d.events \union I}
    OBVIOUS
  <1>8. d \in D
    BY <1>6, <1>7 DEF DbType, SameDb
  <1> DEFINE Walk1(p, k) == Stored(p, T.batch[T.puts[k]], T.t)
             G == [x \in D \X (1..n) |-> Walk1(x[1], x[2])]
             f == CHOOSE f : f = [k \in 0..n |-> IF k = 0 THEN d ELSE Walk1(f[k - 1], k)]
  <1>9. Committed(T, d) = f
    BY <1>1 DEF Committed
  <1>10. \A p \in D, k \in 1..n : Walk1(p, k) \in D
    <2> TAKE p \in D, k \in 1..n
    <2>1. PICK e \in SentEvent : e = T.batch[T.puts[k]]
      BY <1>2
    <2>2. PICK q : q = Stored(p, e, T.t)
      OBVIOUS
    <2>3. DbType(p) /\ SameDb(d, p) /\ p \in [DOMAIN d -> W] /\ d.events \subseteq p.events /\ p.events \subseteq d.events \union I
      BY <1>7
    <2>4. DbType(q) /\ SameDb(p, q) /\ p.events \subseteq q.events /\ q.events \subseteq p.events \union {e.id}
      BY <1>3, <2>2, <2>3, StoredIs
    <2>5. SameDb(d, q)
      BY <2>3, <2>4 DEF SameDb
    <2>6. d.events \subseteq q.events /\ q.events \subseteq d.events \union I
      BY <1>5, <2>1, <2>3, <2>4
    <2>7. q \in [DOMAIN d -> W]
      <3>1. CASE PutOutcome(p, e) \notin Accepted
        BY <2>2, <2>3, <3>1 DEF Stored
      <3>2. CASE PutOutcome(p, e) \in Accepted
        <4>1. PICK X : X = IF e.cls \in Ephemeral THEN p.events ELSE p.events \union {e.id}
          OBVIOUS
        <4>2. PICK Y : Y = [p.seen EXCEPT ![e.author] = IF MinAge > 0 /\ @ = Unset THEN T.t ELSE @]
          OBVIOUS
        <4>3. q = [[p EXCEPT !.events = X] EXCEPT !.seen = Y]
          BY <2>2, <2>3, <3>2, <4>1, <4>2 DEF Stored, DbType, DbFields
        <4>4. X \in W
          BY <1>5, <1>6, <2>1, <2>3, <4>1
        <4>5. q.seen = Y
          BY <2>3, <4>3 DEF DbType, DbFields
        <4>6. Y \in W
          <5>1. Y \in F
            BY <1>f, <2>4, <4>5 DEF DbType
          <5> QED BY <1>6, <5>1
        <4> QED BY <2>3, <4>3, <4>4, <4>6
      <3> QED BY <3>1, <3>2
    <2>8. q \in D
      BY <1>7, <2>4, <2>5, <2>6, <2>7
    <2> QED BY <2>1, <2>2, <2>8
  <1> HIDE DEF Walk1
  <1>11. PICK g : Walks(D, d, G, n, g)
    <2>1. G \in [D \X (1..n) -> D]
      BY <1>10
    <2> HIDE DEF G
    <2> QED BY <1>8, <2>1, WalkExists
  <1>12. g = [k \in 0..n |-> IF k = 0 THEN d ELSE Walk1(g[k - 1], k)]
    <2>1. g \in [0..n -> D] /\ g[0] = d /\ \A k \in 1..n : g[k] = Walk1(g[k - 1], k)
      <3>1. g \in [0..n -> D] /\ g[0] = d /\ \A k \in 1..n : g[k] = G[<<g[k - 1], k>>]
        <4> HIDE DEF G
        <4> QED BY <1>11 DEF Walks
      <3>2. \A k \in 1..n : g[k - 1] \in D
        BY <3>1
      <3>3. \A p \in D, k \in 1..n : G[<<p, k>>] = Walk1(p, k)
        OBVIOUS
      <3> HIDE DEF G
      <3> QED BY <3>1, <3>2, <3>3
    <2> QED BY <2>1
  <1>13. f[0] = d /\ \A k \in 1..n : f[k] = Walk1(f[k - 1], k)
    <2>1. f = [k \in 0..n |-> IF k = 0 THEN d ELSE Walk1(f[k - 1], k)]
      BY <1>12
    <2> HIDE DEF f
    <2> QED BY <2>1
  <1> HIDE DEF f
  <1>14. \A k \in 0..n : f[k] \in D
    <2>1. \A k \in 1..n : f[k - 1] \in D => f[k] \in D
      BY <1>10, <1>13
    <2>2. f[0] \in D
      BY <1>8, <1>13
    <2> QED BY <2>1, <2>2, WalkInduct
  <1>15. \A k \in 1..n : f[k] = Stored(f[k - 1], T.batch[T.puts[k]], T.t)
    BY <1>13 DEF Walk1
  <1>16. \A k \in 0..n : /\ DbType(f[k]) /\ SameDb(d, f[k]) /\ d.events \subseteq f[k].events
                         /\ f[k].events \subseteq d.events \union I
    BY <1>7, <1>14
  <1> QED BY <1>1, <1>4, <1>9, <1>13, <1>15, <1>16

\* What a step of c does to the store: what was applied stays so, and the commands other than the one c holds keep
\* their journal entries and are not stored by it.
DbMove(c) ==
    /\ DbType(db') /\ db.applied \subseteq db'.applied
    /\ \A i : menu.event[i].cls \in Durable /\ (conn[c].at \in Solo => i # E(c).id) =>
          (i \in db.journal => i \in db'.journal) /\ (i \in db'.events => i \in db.events)

\* A store with one field changed.
Changed(d, f, X) == [d EXCEPT ![f] = X]
Vanishing(d, V, X) == [d EXCEPT !.vanished = V, !.events = X]
Loose == {"events", "deleted", "marks", "pending", "banned", "replies", "applied"}

\* One plain field of the store changes.
LEMMA DbSet ==
  ASSUME NEW d, DbType(d), NEW f \in Loose, NEW X
  PROVE  LET n == Changed(d, f, X)
         IN  /\ DbType(n) /\ n[f] = X /\ \A g \in DbFields \ {f} : n[g] = d[g]
             /\ n.role = d.role /\ n.vanished = d.vanished /\ n.journal = d.journal
  <1>1. PICK n : n = [d EXCEPT ![f] = X]
    OBVIOUS
  <1>a. n = Changed(d, f, X)
    BY <1>1 DEF Changed
  <1>2. f \in DbFields /\ DbFields \subseteq DOMAIN d
    BY DEF DbFields, DbType, Loose
  <1>3. n[f] = X /\ DOMAIN n = DOMAIN d /\ \A g \in DbFields \ {f} : n[g] = d[g]
    BY <1>1, <1>2
  <1>4. n = [g \in DOMAIN n |-> n[g]]
    BY <1>1, <1>3
  <1>5. n.role = d.role /\ n.vanished = d.vanished /\ n.journal = d.journal /\ n.seen = d.seen
    BY <1>3 DEF DbFields, Loose
  <1>6. DbType(n)
    BY <1>2, <1>3, <1>4, <1>5 DEF DbType
  <1> QED BY <1>a, <1>3, <1>5, <1>6

\* The saved roles change.
LEMMA DbRole ==
  ASSUME NEW d, DbType(d), NEW r, r = [a \in Authors |-> r[a]]
  PROVE  LET n == Changed(d, "role", r)
         IN  DbType(n) /\ n.role = r /\ \A g \in DbFields \ {"role"} : n[g] = d[g]
  <1>1. PICK n : n = [d EXCEPT !.role = r]
    OBVIOUS
  <1>2. DbFields \subseteq DOMAIN d
    BY DEF DbType
  <1>3. n.role = r /\ DOMAIN n = DOMAIN d /\ \A g \in DbFields \ {"role"} : n[g] = d[g]
    BY <1>1, <1>2 DEF DbFields
  <1>4. n = [g \in DOMAIN n |-> n[g]]
    BY <1>1, <1>3
  <1>5. n.vanished = d.vanished /\ n.journal = d.journal /\ n.seen = d.seen
    BY <1>3 DEF DbFields
  <1>6. DbType(n)
    BY <1>2, <1>3, <1>4, <1>5 DEF DbType
  <1>7. n = Changed(d, "role", r)
    BY <1>1 DEF Changed
  <1> QED BY <1>3, <1>6, <1>7

\* A journal entry is written.
LEMMA DbJournal ==
  ASSUME NEW d, DbType(d), NEW i \in Nat
  PROVE  LET n == [d EXCEPT !.journal = @ \union {i}]
         IN  DbType(n) /\ n.journal = d.journal \union {i} /\ \A g \in DbFields \ {"journal"} : n[g] = d[g]
  <1>0. PICK J : J = d.journal \union {i}
    OBVIOUS
  <1>1. PICK n : n = [d EXCEPT !.journal = J]
    OBVIOUS
  <1>2. DbFields \subseteq DOMAIN d
    BY DEF DbType
  <1>3. n.journal = J /\ DOMAIN n = DOMAIN d /\ \A g \in DbFields \ {"journal"} : n[g] = d[g]
    BY <1>1, <1>2 DEF DbFields
  <1>4. n = [g \in DOMAIN n |-> n[g]]
    BY <1>1, <1>3
  <1>5. n.vanished = d.vanished /\ n.role = d.role /\ n.seen = d.seen
    BY <1>3 DEF DbFields
  <1>6. J \subseteq Nat /\ IsFiniteSet(J)
    BY <1>0, FS_AddElement DEF DbType
  <1>7. DbType(n)
    BY <1>2, <1>3, <1>4, <1>5, <1>6 DEF DbType
  <1> QED BY <1>0, <1>1, <1>3, <1>7

\* A key vanishes.
LEMMA DbVanish ==
  ASSUME NEW d, DbType(d), NEW V \in SUBSET Authors, NEW X
  PROVE  LET n == Vanishing(d, V, X)
         IN  DbType(n) /\ n.vanished = V /\ n.events = X /\ \A g \in DbFields \ {"vanished", "events"} : n[g] = d[g]
  <1>1. PICK n : n = [[d EXCEPT !.vanished = V] EXCEPT !.events = X]
    OBVIOUS
  <1>2. DbFields \subseteq DOMAIN d
    BY DEF DbType
  <1>3. n.vanished = V /\ n.events = X /\ DOMAIN n = DOMAIN d /\ \A g \in DbFields \ {"vanished", "events"} : n[g] = d[g]
    BY <1>1, <1>2 DEF DbFields
  <1>4. n = [g \in DOMAIN n |-> n[g]]
    BY <1>1, <1>3
  <1>5. n.journal = d.journal /\ n.role = d.role /\ n.seen = d.seen
    BY <1>3 DEF DbFields
  <1>7. DbType(n)
    BY <1>2, <1>3, <1>4, <1>5 DEF DbType
  <1>8. n = Vanishing(d, V, X)
    BY <1>1 DEF Vanishing
  <1> QED BY <1>3, <1>7, <1>8

\* A store that is left alone.
LEMMA SameMove ==
  ASSUME RoleTypes, NEW c \in Conns, db' = db
  PROVE  DbMove(c) /\ db'.vanished = db.vanished
  BY DEF RoleTypes, DbMove

\* The roles after a command.
LEMMA CommandedIs ==
  ASSUME NEW r, r = [a \in Authors |-> r[a]], NEW e
  PROVE  LET n == Commanded(e, r)
         IN  n = [a \in Authors |-> n[a]] /\ \A a \in Authors : n[a] # r[a] => a = e.to
  BY DEF Commanded

-----------------------------------------------------------------------------
(* Steps *)

\* A step of c leaves the tasks of the others alone.
LEMMA OthersSame ==
  ASSUME Tasks, NEW c \in Conns, Step(c)
  PROVE  menu' = menu /\ DOMAIN conn' = Conns /\ \A x \in Conns \ {c} : conn'[x] = conn[x]
  <1>0. DOMAIN conn = Conns
    BY DEF Tasks
  <1>1. menu' = menu
    BY DEF Step, AcceptBatchBegin, Route, RunCheck, RunCommit, RunAfter, HoldDrain, HoldRecord, HoldMerge, Check,
           AdmitMember, AdmitRecheck, VanishMark, VanishRoles, Gate, Mark, Put, Effect, Undo, ClearPending
  <1> DEFINE Others == DOMAIN conn' = Conns /\ \A x \in Conns \ {c} : conn'[x] = conn[x]
  <1> SUFFICES Others
    BY <1>1
  <1>2. ASSUME NEW T, conn' = [conn EXCEPT ![c] = T] PROVE Others
    BY <1>0, <1>2
  <1>3. ASSUME NEW s, Go(c, s) PROVE Others
    BY <1>0, <1>3 DEF Go
  <1>4. ASSUME NEW a, Settle(c, a) PROVE Others
    BY <1>2, <1>4 DEF Settle
  <1> HIDE DEF Others
  <1>5. CASE AcceptBatchBegin(c)
    <2>1. \E T : conn' = [conn EXCEPT ![c] = T]
      BY <1>5 DEF AcceptBatchBegin
    <2> QED BY <1>2, <2>1
  <1>6. CASE Route(c)
    <2>1. \/ \E s : Go(c, s)
          \/ \E a : Settle(c, a)
          \/ conn' = [conn EXCEPT ![c] = IdleConn]
          \/ conn' = [conn EXCEPT ![c].run = Append(@, conn[c].i), ![c].i = @ + 1]
      BY <1>6 DEF Route
    <2>2. CASE conn' = [conn EXCEPT ![c].run = Append(@, conn[c].i), ![c].i = @ + 1]
      BY <1>0, <2>2 DEF Others
    <2> QED BY <1>2, <1>3, <1>4, <2>1, <2>2
  <1>7. CASE RunCheck(c)
    <2>1. \E T : conn' = [conn EXCEPT ![c] = T]
      BY <1>7 DEF RunCheck
    <2> QED BY <1>2, <2>1
  <1>8. CASE RunCommit(c)
    <2>1. \E T : conn' = [conn EXCEPT ![c] = T]
      BY <1>8 DEF RunCommit
    <2> QED BY <1>2, <2>1
  <1>9. CASE RunAfter(c)
    <2>1. (\E s : Go(c, s)) \/ (\E T : conn' = [conn EXCEPT ![c] = T])
      BY <1>9 DEF RunAfter
    <2> QED BY <1>2, <1>3, <2>1
  <1>10. CASE HoldDrain(c) \/ HoldRecord(c)
    BY <1>0, <1>10 DEF HoldDrain, HoldRecord, Others
  <1>11. CASE HoldMerge(c)
    <2>1. \E T : conn' = [conn EXCEPT ![c] = T]
      BY <1>11 DEF HoldMerge
    <2> QED BY <1>2, <2>1
  <1>12. CASE Check(c)
    <2>1. (\E s : Go(c, s)) \/ (\E a : Settle(c, a))
      BY <1>12 DEF Check
    <2> QED BY <1>3, <1>4, <2>1
  <1>13. CASE AdmitMember(c) \/ AdmitRecheck(c) \/ VanishMark(c) \/ VanishRoles(c)
    <2>1. (\E s : Go(c, s)) \/ (\E a : Settle(c, a))
      BY <1>13 DEF AdmitMember, AdmitRecheck, VanishMark, VanishRoles
    <2> QED BY <1>3, <1>4, <2>1
  <1>14. CASE Gate(c)
    <2>1. (\E s : Go(c, s)) \/ (\E a : Settle(c, a))
      BY <1>14 DEF Gate
    <2> QED BY <1>3, <1>4, <2>1
  <1>15. CASE Mark(c)
    <2>1. (\E s : Go(c, s)) \/ (\E a : Settle(c, a)) \/ \E b : conn' = [conn EXCEPT ![c].at = "put", ![c].fresh = b]
      BY <1>15 DEF Mark
    <2>2. ASSUME NEW b, conn' = [conn EXCEPT ![c].at = "put", ![c].fresh = b] PROVE Others
      BY <1>0, <2>2 DEF Others
    <2> QED BY <1>3, <1>4, <2>1, <2>2
  <1>16. CASE Put(c) \/ Undo(c) \/ ClearPending(c)
    <2>1. (\E s : Go(c, s)) \/ (\E a : Settle(c, a))
      BY <1>16 DEF Put, Undo, ClearPending
    <2> QED BY <1>3, <1>4, <2>1
  <1>17. CASE Effect(c)
    <2>1. (\E s : Go(c, s)) \/ (\E a : Settle(c, a))
      BY <1>17 DEF Effect
    <2> QED BY <1>3, <1>4, <2>1
  <1> QED
    BY <1>5, <1>6, <1>7, <1>8, <1>9, <1>10, <1>11, <1>12, <1>13, <1>14, <1>15, <1>16, <1>17 DEF Step

\* What the run writes is no command.
LEMMA RunMove ==
  ASSUME IntakeTypes, RoleTypes, NEW c \in Conns, RunCommit(c)
  PROVE  DbMove(c) /\ db'.vanished = db.vanished /\ role' = role
  <1>1. PICK T : T = conn[c]
    OBVIOUS
  <1>2. Task(c, T) /\ menu \in Menus /\ DbType(db) /\ role' = role /\ T.puts \in Seq(Plain(T.batch))
    BY <1>1 DEF IntakeTypes, Tasks, Task, RoleTypes, RunCommit
  <1>3. PICK lost : db' = IF lost THEN db ELSE Committed(T, db)[Len(T.puts)]
    BY <1>1 DEF RunCommit
  <1>4. CASE lost
    BY <1>2, <1>3, <1>4, SameMove
  <1>5. CASE ~lost
    <2>1. PICK n : n = Committed(T, db)[Len(T.puts)]
      OBVIOUS
    <2>2. Len(T.puts) \in 0..Len(T.puts)
      BY <1>2, LenProperties
    <2>3. DbType(n) /\ SameDb(db, n) /\ n.events \subseteq db.events \union {T.batch[j].id : j \in ToSet(T.puts)}
      BY <1>2, <2>1, <2>2, CommittedIs
    <2>4. \A j \in ToSet(T.puts) : menu.event[T.batch[j].id].cls \notin Durable
      <3> TAKE j \in ToSet(T.puts)
      <3>1. j \in Plain(T.batch)
        <4>1. PICK k \in DOMAIN T.puts : j = T.puts[k]
          BY DEF ToSet
        <4> QED BY <1>2, <4>1, LenProperties, ElementOfSeq
      <3>2. j \in DOMAIN T.batch /\ T.batch[j].cls \notin Singles
        BY <3>1 DEF Plain, HasStateEffects
      <3>3. menu.event[T.batch[j].id] = T.batch[j]
        BY <1>2, <3>2, BatchIs
      <3> QED BY <3>2, <3>3 DEF Singles, Durable
    <2>5. db' = n
      BY <1>3, <1>5, <2>1
    <2> QED BY <1>2, <2>3, <2>4, <2>5 DEF DbMove, SameDb
  <1> QED BY <1>4, <1>5

\* What follows the puts of a run.
LEMMA AfterMove ==
  ASSUME IntakeTypes, RoleTypes, NEW c \in Conns, RunAfter(c) \/ HoldRecord(c)
  PROVE  DbMove(c) /\ db'.vanished = db.vanished /\ role' = role
  <1>0. DbType(db) /\ role' = role /\ DbFields \subseteq DOMAIN db
    BY DEF RoleTypes, DbType, RunAfter, HoldRecord
  <1>1. CASE db' = db
    BY <1>0, <1>1, SameMove
  <1>2. CASE db' # db
    <2>1. CASE RunAfter(c)
      <3>1. PICK i : db' = [db EXCEPT !.events = @ \ {i}, !.deleted = @ \union {i}]
        BY <1>2, <2>1 DEF RunAfter
      <3>2. PICK X : X = db.events \ {i}
        OBVIOUS
      <3>3. PICK Y : Y = db.deleted \union {i}
        OBVIOUS
      <3>4. PICK m : m = Changed(db, "events", X)
        OBVIOUS
      <3>5. DbType(m) /\ m.events = X /\ (\A g \in DbFields \ {"events"} : m[g] = db[g]) /\ m.vanished = db.vanished /\ m.journal = db.journal
        BY <1>0, <3>4, DbSet DEF Loose
      <3>6. PICK n : n = Changed(m, "deleted", Y)
        OBVIOUS
      <3>7. DbType(n) /\ n.deleted = Y /\ (\A g \in DbFields \ {"deleted"} : n[g] = m[g]) /\ n.vanished = m.vanished /\ n.journal = m.journal
        BY <3>5, <3>6, DbSet DEF Loose
      <3>8. db' = n
        BY <1>0, <3>1, <3>2, <3>3, <3>4, <3>6 DEF DbFields, Changed
      <3>9. n.events = X /\ n.applied = db.applied
        BY <3>5, <3>7 DEF DbFields
      <3> QED BY <1>0, <3>2, <3>5, <3>7, <3>8, <3>9 DEF DbMove
    <2>2. CASE HoldRecord(c)
      <3>1. PICK X : db' = Changed(db, "pending", X)
        BY <1>2, <2>2 DEF HoldRecord, Changed
      <3>2. DbType(db') /\ (\A g \in DbFields \ {"pending"} : db'[g] = db[g]) /\ db'.vanished = db.vanished /\ db'.journal = db.journal
        BY <1>0, <3>1, DbSet DEF Loose
      <3>3. db'.events = db.events /\ db'.applied = db.applied
        BY <3>2 DEF DbFields
      <3> QED BY <1>0, <3>2, <3>3 DEF DbMove
    <2> QED BY <2>1, <2>2
  <1> QED BY <1>1, <1>2

-----------------------------------------------------------------------------
(* The command a task holds *)

\* Only one connection sends the event i.
Single(i) == \A c, d \in SendersOf(i) : c = d

\* The command a task holds: before its put the journal has it, and a marker that this call wrote is of a command that
\* was not stored before, or was applied; before the entry is cleared the command was applied.
Held(c) ==
    E(c).cls \in Durable =>
       /\ conn[c].at = "put" /\ Single(E(c).id) =>
             /\ E(c).id \in db.journal
             /\ conn[c].fresh /\ E(c).id \in db.events \ menu.stored => E(c).id \in db.applied
       /\ conn[c].at = "clear" => E(c).id \in db.applied

\* What a step of c leaves of the command it holds.
OwnKept(c) ==
    /\ conn[c].at \in Solo /\ E(c).cls \in Durable /\ Single(E(c).id) /\ E(c).id \in db'.events \ menu.stored
          => E(c).id \in db'.applied \union db'.journal
    /\ Held(c)'

\* Where a task is after it goes on, or after an answer.
LEMMA GoAt ==
  ASSUME Tasks, NEW c \in Conns, NEW s, Go(c, s)
  PROVE  conn'[c].at = s /\ E(c)' = E(c) /\ conn'[c].fresh = conn[c].fresh
  <1>1. TaskFields \subseteq DOMAIN conn[c] /\ DOMAIN conn = Conns
    BY DEF Tasks, Task
  <1>2. conn'[c] = [conn[c] EXCEPT !.at = s]
    BY <1>1 DEF Go
  <1>3. conn'[c].at = s /\ conn'[c].i = conn[c].i /\ conn'[c].batch = conn[c].batch /\ conn'[c].fresh = conn[c].fresh
    BY <1>1, <1>2 DEF TaskFields
  <1> QED BY <1>3 DEF E

\* The same of an answer.
LEMMA SettleAt ==
  ASSUME Tasks, NEW c \in Conns, NEW a, Settle(c, a)
  PROVE  conn'[c].at = "route"
  <1>1. TaskFields \subseteq DOMAIN conn[c] /\ DOMAIN conn = Conns
    BY DEF Tasks, Task
  <1>2. conn'[c] = Finished(conn[c], a)
    BY <1>1 DEF Settle
  <1>3. PICK T : T = conn[c]
    OBVIOUS
  <1>4. "at" \in DOMAIN T
    BY <1>1, <1>3 DEF TaskFields
  <1>5. Finished(T, a).at = "route"
    BY <1>4 DEF Finished
  <1> QED BY <1>2, <1>3, <1>5

\* A put is reached by Mark only, a clear by Effect only.
LEMMA Arrives ==
  ASSUME Tasks, NEW c \in Conns, Step(c), conn'[c].at \in {"put", "clear"}
  PROVE  Mark(c) \/ Effect(c)
  <1>0. TaskFields \subseteq DOMAIN conn[c] /\ DOMAIN conn = Conns /\ "at" \in DOMAIN conn[c]
    BY DEF Tasks, Task, TaskFields
  <1>1. ASSUME NEW T, conn' = [conn EXCEPT ![c] = T] PROVE conn'[c] = T
    BY <1>0, <1>1
  <1>2. ASSUME NEW s, Go(c, s) PROVE s \in {"put", "clear"}
    BY <1>2, GoAt
  <1>3. ASSUME NEW a PROVE ~Settle(c, a)
    BY SettleAt
  <1>4. ASSUME NEW T, NEW S, NEW a, "at" \in DOMAIN T PROVE "at" \in DOMAIN WithAnswers(T, S, a) /\ WithAnswers(T, S, a).at = T.at
    BY <1>4 DEF WithAnswers
  <1>5. ~AcceptBatchBegin(c)
    <2>1. SUFFICES ASSUME AcceptBatchBegin(c) PROVE FALSE
      OBVIOUS
    <2>a. PICK b : b = menu.send[c][Len(answered[c]) + 1]
      OBVIOUS
    <2>b. PICK r : r = Reserve(b)
      OBVIOUS
    <2>2. PICK panics \in Fault("panic") :
           conn' = [conn EXCEPT ![c] = [IdleConn EXCEPT
              !.at = "route", !.batch = b, !.slots = [k \in DOMAIN b |-> Unset],
              !.known = KnownPrefixes(b), !.attempt = r.ok,
              !.verified = VerifiedBy(b, r.ok, panics), !.t = clock]]
      BY <2>1, <2>a, <2>b DEF AcceptBatchBegin
    <2>3. PICK T : T = [IdleConn EXCEPT
              !.at = "route", !.batch = b, !.slots = [k \in DOMAIN b |-> Unset],
              !.known = KnownPrefixes(b), !.attempt = r.ok,
              !.verified = VerifiedBy(b, r.ok, panics), !.t = clock]
      OBVIOUS
    <2>4. T.at = "route"
      BY <2>3 DEF IdleConn
    <2> QED BY <1>1, <2>2, <2>3, <2>4
  <1>6. ~Route(c)
    <2>1. SUFFICES ASSUME Route(c) PROVE FALSE
      OBVIOUS
    <2>2. \/ Go(c, "run") \/ Go(c, "check")
          \/ Settle(c, "reject")
          \/ conn' = [conn EXCEPT ![c] = IdleConn]
          \/ conn' = [conn EXCEPT ![c].run = Append(@, conn[c].i), ![c].i = @ + 1] /\ conn[c].at = "route"
      BY <2>1 DEF Route
    <2>3. CASE conn' = [conn EXCEPT ![c].run = Append(@, conn[c].i), ![c].i = @ + 1] /\ conn[c].at = "route"
      BY <1>0, <2>3
    <2>4. CASE conn' = [conn EXCEPT ![c] = IdleConn]
      <3>1. conn'[c] = IdleConn
        BY <1>1, <2>4
      <3>2. IdleConn.at = "idle"
        BY DEF IdleConn
      <3> QED BY <3>1, <3>2
    <2> QED BY <1>2, <1>3, <2>2, <2>3, <2>4
  <1>7. ~RunCheck(c)
    <2>1. SUFFICES ASSUME RunCheck(c) PROVE FALSE
      OBVIOUS
    <2>2. PICK A, B, K : \/ conn' = [conn EXCEPT ![c] = [WithAnswers(WithAnswers(conn[c], A, "reject"), B, "retry") EXCEPT !.run = <<>>, !.at = "route"]]
                         \/ conn' = [conn EXCEPT ![c] = [WithAnswers(conn[c], A, "reject") EXCEPT !.run = <<>>, !.puts = K, !.at = "queued"]]
      BY <2>1 DEF RunCheck
    <2>3. PICK T : T = WithAnswers(conn[c], A, "reject")
      OBVIOUS
    <2>4. PICK U : U = WithAnswers(T, B, "retry")
      OBVIOUS
    <2>5. "at" \in DOMAIN T /\ "at" \in DOMAIN U
      BY <1>0, <1>4, <2>3, <2>4
    <2>6. PICK V : V = [U EXCEPT !.run = <<>>, !.at = "route"]
      OBVIOUS
    <2>7. PICK W : W = [T EXCEPT !.run = <<>>, !.puts = K, !.at = "queued"]
      OBVIOUS
    <2>8. V.at = "route" /\ W.at = "queued"
      BY <2>5, <2>6, <2>7
    <2>9. conn' = [conn EXCEPT ![c] = V] \/ conn' = [conn EXCEPT ![c] = W]
      BY <2>2, <2>3, <2>4, <2>6, <2>7
    <2> QED BY <1>1, <2>8, <2>9
  <1>8. ~RunCommit(c)
    <2>1. SUFFICES ASSUME RunCommit(c) PROVE FALSE
      OBVIOUS
    <2>2. PICK o : conn' = [conn EXCEPT ![c] = FinishedRun(conn[c], o)]
      BY <2>1 DEF RunCommit
    <2>3. PICK T : T = conn[c]
      OBVIOUS
    <2>4. FinishedRun(T, o).at = "after"
      BY <1>0, <2>3 DEF FinishedRun
    <2> QED BY <1>1, <2>2, <2>3, <2>4
  <1>9. ~RunAfter(c)
    <2>1. SUFFICES ASSUME RunAfter(c) PROVE FALSE
      OBVIOUS
    <2>2. PICK T : T = [conn[c] EXCEPT !.puts = Tail(@)]
      OBVIOUS
    <2>3. \/ Go(c, "route") \/ Go(c, "drain")
          \/ conn' = [conn EXCEPT ![c] = T]
          \/ \E S : conn' = [conn EXCEPT ![c] = WithAnswers(T, S, "retry")]
      BY <2>1, <2>2 DEF RunAfter
    <2>4. "at" \in DOMAIN T /\ T.at = "after"
      BY <1>0, <2>1, <2>2 DEF RunAfter
    <2> QED BY <1>1, <1>2, <1>4, <2>3, <2>4
  <1>10. ~HoldDrain(c) /\ ~HoldRecord(c)
    BY <1>0 DEF HoldDrain, HoldRecord
  <1>11. ~HoldMerge(c)
    <2>1. SUFFICES ASSUME HoldMerge(c) PROVE FALSE
      OBVIOUS
    <2>2. PICK T : T = [conn[c] EXCEPT !.at = "after", !.drained = <<>>, !.puts = Tail(@)]
      OBVIOUS
    <2>3. \/ conn' = [conn EXCEPT ![c] = T]
          \/ \E S : conn' = [conn EXCEPT ![c] = WithAnswers(T, S, "retry")]
      BY <2>1, <2>2 DEF HoldMerge
    <2>4. "at" \in DOMAIN T /\ T.at = "after"
      BY <1>0, <2>2
    <2> QED BY <1>1, <1>4, <2>3, <2>4
  <1>12. ~Check(c)
    <2>1. SUFFICES ASSUME Check(c) PROVE FALSE
      OBVIOUS
    <2>2. PICK v : /\ v = Verdict(E(c), conn[c].known, conn[c].i \in conn[c].verified)
                   /\ (\E a : Settle(c, a)) \/ Go(c, "gate") \/ Go(c, v)
      BY <2>1 DEF Check
    <2>3. v \in {"reject", "vanish", "duplicate", "admit", "accept"}
      BY <2>2 DEF Verdict, JoinVerdict
    <2> QED BY <1>2, <1>3, <2>2, <2>3
  <1>13. ~AdmitMember(c) /\ ~AdmitRecheck(c) /\ ~VanishMark(c) /\ ~VanishRoles(c)
    <2>1. AdmitMember(c) => Settle(c, "reject") \/ Go(c, "recheck")
      BY DEF AdmitMember
    <2>2. AdmitRecheck(c) => \E a : Settle(c, a)
      BY DEF AdmitRecheck
    <2>3. VanishMark(c) => Settle(c, "retry") \/ Go(c, "unrole")
      BY DEF VanishMark
    <2>4. VanishRoles(c) => Settle(c, "stored")
      BY DEF VanishRoles
    <2> QED BY <1>2, <1>3, <2>1, <2>2, <2>3, <2>4
  <1>14. ~Gate(c)
    <2>1. SUFFICES ASSUME Gate(c) PROVE FALSE
      OBVIOUS
    <2>2. (\E a : Settle(c, a)) \/ Go(c, "mark")
      BY <2>1 DEF Gate
    <2> QED BY <1>2, <1>3, <2>2
  <1>15. ~Put(c) /\ ~Undo(c) /\ ~ClearPending(c)
    BY <1>2, <1>3 DEF Put, Undo, ClearPending
  <1> QED BY <1>5, <1>6, <1>7, <1>8, <1>9, <1>10, <1>11, <1>12, <1>13, <1>14, <1>15 DEF Step

\* The store has less of the event c holds, or says nothing new of it.
LEMMA QuietOwn ==
  ASSUME IntakeTypes, CommandRecoverable, NEW c \in Conns, conn'[c].at \notin {"put", "clear"},
         db.applied \subseteq db'.applied,
         conn[c].at \in Solo => E(c).id \notin db'.events \/ (E(c).id \in db.events /\ db'.journal = db.journal)
  PROVE  OwnKept(c)
  <1>1. Held(c)'
    BY DEF Held
  <1>2. ASSUME conn[c].at \in Solo, E(c).cls \in Durable, Single(E(c).id), E(c).id \in db'.events \ menu.stored
        PROVE  E(c).id \in db'.applied \union db'.journal
    <2>1. menu.event[E(c).id] = E(c)
      BY <1>2, EventIs DEF IntakeTypes
    <2>2. E(c).id \in db.applied \union db.journal
      BY <1>2, <2>1 DEF CommandRecoverable, Single
    <2> QED BY <1>2, <2>2
  <1> QED BY <1>1, <1>2 DEF OwnKept

\* A key vanishes.
LEMMA VanishMove ==
  ASSUME IntakeTypes, RoleTypes, CommandRecoverable, NEW c \in Conns, VanishMark(c)
  PROVE  /\ DbMove(c) /\ OwnKept(c) /\ role' = role
         /\ \/ db'.vanished = db.vanished
            \/ db'.vanished = db.vanished \union {E(c).author} /\ Go(c, "unrole")
  <1>0. conn[c].at \in Solo /\ DbType(db) /\ Tasks /\ menu \in Menus /\ role' = role /\ menu' = menu
    BY DEF VanishMark, Solo, RoleTypes, IntakeTypes
  <1>1. CASE db' = db /\ Settle(c, "retry")
    <2>1. conn'[c].at = "route"
      BY <1>0, <1>1, SettleAt
    <2>2. E(c).id \notin db'.events \/ (E(c).id \in db.events /\ db'.journal = db.journal)
      BY <1>1
    <2> QED BY <1>0, <1>1, <2>1, <2>2, QuietOwn, SameMove
  <1>2. CASE /\ db' = [db EXCEPT !.vanished = @ \union {E(c).author}, !.events = {i \in @ : menu.event[i].author # E(c).author}]
             /\ Go(c, "unrole")
    <2>1. PICK V : V = db.vanished \union {E(c).author}
      OBVIOUS
    <2>2. PICK X : X = {i \in db.events : menu.event[i].author # E(c).author}
      OBVIOUS
    <2>3. V \in SUBSET Authors
      BY <1>0, <2>1, EventIs DEF DbType
    <2>4. db' = Vanishing(db, V, X)
      BY <1>0, <1>2, <2>1, <2>2 DEF DbType, DbFields, Vanishing
    <2>5. DbType(db') /\ db'.vanished = V /\ db'.events = X /\ \A g \in DbFields \ {"vanished", "events"} : db'[g] = db[g]
      BY <1>0, <2>3, <2>4, DbVanish
    <2>6. db'.journal = db.journal /\ db'.applied = db.applied
      BY <2>5 DEF DbFields
    <2>7. conn'[c].at = "unrole"
      BY <1>0, <1>2, GoAt
    <2>8. DbMove(c)
      BY <2>2, <2>5, <2>6 DEF DbMove
    <2>9. OwnKept(c)
      BY <2>2, <2>5, <2>6, <2>7, QuietOwn
    <2> QED BY <1>0, <1>2, <2>1, <2>5, <2>8, <2>9
  <1> QED BY <1>1, <1>2 DEF VanishMark

\* The journal entry before the put.
LEMMA MarkMove ==
  ASSUME IntakeTypes, RoleTypes, CommandRecoverable, NEW c \in Conns, Mark(c)
  PROVE  DbMove(c) /\ OwnKept(c) /\ role' = role /\ db'.vanished = db.vanished
  <1>0. conn[c].at \in Solo /\ DbType(db) /\ Tasks /\ menu \in Menus /\ role' = role /\ menu' = menu
    BY DEF Mark, Solo, RoleTypes, IntakeTypes
  <1>e. E(c).id \in Nat /\ menu.event[E(c).id] = E(c)
    BY <1>0, EventIs
  <1>1. CASE E(c).cls \notin Durable \union GroupActions
    <2>1. db' = db /\ Go(c, "put")
      BY <1>1 DEF Mark
    <2>2. E(c)' = E(c)
      BY <1>0, <2>1, GoAt
    <2>3. OwnKept(c)
      BY <1>1, <2>2 DEF OwnKept, Held
    <2> QED BY <1>0, <2>1, <2>3, SameMove
  <1>2. CASE E(c).cls \in Durable \union GroupActions /\ db' = db /\ Settle(c, "retry")
    <2>1. conn'[c].at = "route"
      BY <1>0, <1>2, SettleAt
    <2>2. E(c).id \notin db'.events \/ (E(c).id \in db.events /\ db'.journal = db.journal)
      BY <1>2
    <2> QED BY <1>0, <1>2, <2>1, <2>2, QuietOwn, SameMove
  <1>3. CASE /\ E(c).cls \in Durable
             /\ db' = [db EXCEPT !.journal = @ \union {E(c).id}]
             /\ conn' = [conn EXCEPT ![c].at = "put", ![c].fresh = E(c).id \notin db.journal]
    <2>1. /\ DbType(db') /\ db'.journal = db.journal \union {E(c).id} /\ \A g \in DbFields \ {"journal"} : db'[g] = db[g]
      BY <1>0, <1>3, <1>e, DbJournal
    <2>2. db'.applied = db.applied /\ db'.events = db.events /\ db'.vanished = db.vanished
      BY <2>1 DEF DbFields
    <2>3. DbMove(c)
      BY <2>1, <2>2 DEF DbMove
    <2>4. conn'[c].batch = conn[c].batch /\ conn'[c].i = conn[c].i /\ (conn'[c].fresh <=> E(c).id \notin db.journal) /\ conn'[c].at = "put"
      BY <1>0, <1>3 DEF Tasks, Task, TaskFields
    <2>5. E(c)' = E(c) /\ Single(E(c).id)' = Single(E(c).id)
      BY <1>0, <2>4 DEF E, Single, SendersOf
    <2>6. Held(c)'
      <3>1. SUFFICES ASSUME Single(E(c).id) PROVE conn'[c].fresh /\ E(c).id \in db.events \ menu.stored => E(c).id \in db.applied
        BY <1>0, <2>1, <2>2, <2>4, <2>5 DEF Held
      <3> QED BY <1>3, <1>e, <2>4, <3>1 DEF CommandRecoverable, Single
    <2>7. OwnKept(c)
      BY <2>1, <2>6 DEF OwnKept
    <2> QED BY <1>0, <2>2, <2>3, <2>7
  <1>4. CASE /\ E(c).cls \notin Durable
             /\ db' = [db EXCEPT !.marks = @ \union {E(c).id}]
             /\ \E b : conn' = [conn EXCEPT ![c].at = "put", ![c].fresh = b]
    <2>0. PICK X : X = db.marks \union {E(c).id}
      OBVIOUS
    <2>1. db' = Changed(db, "marks", X)
      BY <1>0, <1>4, <2>0 DEF Changed, DbType, DbFields
    <2>2. DbType(db') /\ (\A g \in DbFields \ {"marks"} : db'[g] = db[g]) /\ db'.vanished = db.vanished /\ db'.journal = db.journal
      BY <1>0, <2>1, DbSet DEF Loose
    <2>3. db'.applied = db.applied /\ db'.events = db.events
      BY <2>2 DEF DbFields
    <2>4. DbMove(c)
      BY <2>2, <2>3 DEF DbMove
    <2>5. PICK b : conn' = [conn EXCEPT ![c].at = "put", ![c].fresh = b]
      BY <1>4
    <2>6. conn'[c].batch = conn[c].batch /\ conn'[c].i = conn[c].i
      BY <1>0, <2>5 DEF Tasks, Task, TaskFields
    <2>7. E(c)' = E(c)
      BY <2>6 DEF E
    <2>8. OwnKept(c)
      BY <1>4, <2>7 DEF OwnKept, Held
    <2> QED BY <1>0, <2>2, <2>4, <2>8
  <1>5. GroupActions \intersect Durable = {}
    BY DEF GroupActions, Durable
  <1> QED
    <2>1. CASE E(c).cls \in Durable
      <3>1. CASE db' = db /\ Settle(c, "retry")
        BY <1>2, <2>1, <3>1
      <3>2. CASE ~(db' = db /\ Settle(c, "retry"))
        BY <1>3, <2>1, <3>2 DEF Mark
      <3> QED BY <3>1, <3>2
    <2>2. CASE E(c).cls \in GroupActions
      <3>1. CASE db' = db /\ Settle(c, "retry")
        BY <1>2, <2>2, <3>1
      <3>2. CASE ~(db' = db /\ Settle(c, "retry"))
        BY <1>4, <1>5, <2>2, <3>2 DEF Mark
      <3> QED BY <3>1, <3>2
    <2> QED BY <1>1, <2>1, <2>2

\* The entry of the event c holds is cleared.
LEMMA ClearMove ==
  ASSUME IntakeTypes, NEW c \in Conns, conn[c].at \in Solo, NEW d, DbType(d), d.journal = db.journal, d.applied = db.applied,
         d.events \subseteq db.events, d.vanished = db.vanished, db' = Unmark(d, E(c))
  PROVE  DbMove(c) /\ db'.vanished = db.vanished /\ db'.applied = db.applied /\ db'.events = d.events
  <1>1. /\ DbType(db') /\ db'.journal = d.journal \ {E(c).id} /\ db'.vanished = d.vanished /\ db'.applied = d.applied
        /\ db'.events = d.events
    BY UnmarkIs
  <1> QED BY <1>1 DEF DbMove

\* The put of one event with effects.
LEMMA PutMove ==
  ASSUME IntakeTypes, RoleTypes, CommandRecoverable, NEW c \in Conns, Held(c), Put(c)
  PROVE  DbMove(c) /\ OwnKept(c) /\ role' = role /\ db'.vanished = db.vanished
  <1>0. conn[c].at \in Solo /\ conn[c].at = "put" /\ DbType(db) /\ Tasks /\ menu \in Menus /\ role' = role /\ menu' = menu
    BY DEF Put, Solo, RoleTypes, IntakeTypes
  <1>1. PICK e \in SentEvent : e = E(c) /\ conn[c].t \in Nat
    BY <1>0, EventIs
  <1>2. CASE db' = Stored(db, e, conn[c].t) /\ Go(c, "effect")
    <2>1. DbType(db') /\ SameDb(db, db') /\ db'.events \subseteq db.events \union {e.id}
      BY <1>0, <1>1, <1>2, StoredIs
    <2>2. DbMove(c) /\ db'.vanished = db.vanished
      BY <1>0, <1>1, <2>1 DEF DbMove, SameDb
    <2>3. conn'[c].at = "effect"
      BY <1>0, <1>2, GoAt
    <2>4. OwnKept(c)
      BY <1>0, <2>1, <2>3 DEF OwnKept, Held, SameDb
    <2> QED BY <1>0, <2>2, <2>4
  <1>3. CASE db' = db /\ \E a : Settle(c, a)
    <2>1. conn'[c].at = "route"
      BY <1>0, <1>3, SettleAt
    <2> QED BY <1>0, <1>3, <2>1, QuietOwn, SameMove
  <1>4. CASE conn[c].fresh /\ db' = Unmark(db, E(c)) /\ \E a : Settle(c, a)
    <2>1. DbMove(c) /\ db'.vanished = db.vanished /\ db'.applied = db.applied /\ db'.events = db.events
      BY <1>0, <1>4, ClearMove
    <2>2. conn'[c].at = "route"
      BY <1>0, <1>4, SettleAt
    <2>3. OwnKept(c)
      BY <1>0, <1>4, <2>1, <2>2 DEF OwnKept, Held
    <2> QED BY <1>0, <2>1, <2>3
  <1>5. \/ db' = Stored(db, E(c), conn[c].t) /\ Go(c, "effect")
        \/ ((conn[c].fresh /\ db' = Unmark(db, E(c))) \/ db' = db) /\ \E a : Settle(c, a)
    BY DEF Put
  <1> QED BY <1>1, <1>2, <1>3, <1>4, <1>5

\* The entry is cleared after the effect.
LEMMA ClearedMove ==
  ASSUME IntakeTypes, RoleTypes, CommandRecoverable, NEW c \in Conns, Held(c), ClearPending(c)
  PROVE  DbMove(c) /\ OwnKept(c) /\ role' = role /\ db'.vanished = db.vanished
  <1>0. conn[c].at \in Solo /\ conn[c].at = "clear" /\ DbType(db) /\ Tasks /\ menu \in Menus /\ role' = role /\ menu' = menu /\ Settle(c, "stored")
    BY DEF ClearPending, Solo, RoleTypes, IntakeTypes
  <1>1. conn'[c].at = "route"
    BY <1>0, SettleAt
  <1>2. CASE db' = db
    BY <1>0, <1>1, <1>2, QuietOwn, SameMove
  <1>3. CASE db' = Unmark(db, E(c))
    <2>1. DbMove(c) /\ db'.vanished = db.vanished /\ db'.applied = db.applied /\ db'.events = db.events
      BY <1>0, <1>3, ClearMove
    <2>3. OwnKept(c)
      BY <1>0, <1>1, <2>1 DEF OwnKept, Held
    <2> QED BY <1>0, <2>1, <2>3
  <1> QED BY <1>2, <1>3 DEF ClearPending

\* A stored event that is taken back.
LEMMA UndoMove ==
  ASSUME IntakeTypes, RoleTypes, CommandRecoverable, NEW c \in Conns, Undo(c)
  PROVE  DbMove(c) /\ OwnKept(c) /\ role' = role /\ db'.vanished = db.vanished
  <1>0. conn[c].at \in Solo /\ DbType(db) /\ Tasks /\ menu \in Menus /\ role' = role /\ menu' = menu
    BY DEF Undo, Solo, RoleTypes, IntakeTypes
  <1>1. PICK a : Settle(c, a)
    BY DEF Undo
  <1>2. conn'[c].at = "route"
    BY <1>0, <1>1, SettleAt
  <1>3. PICK X : X = db.events \ {E(c).id}
    OBVIOUS
  <1>4. PICK d : d = Changed(db, "events", X)
    OBVIOUS
  <1>5. DbType(d) /\ d.events = X /\ (\A g \in DbFields \ {"events"} : d[g] = db[g]) /\ d.vanished = db.vanished /\ d.journal = db.journal
    BY <1>0, <1>4, DbSet DEF Loose
  <1>6. d.applied = db.applied
    BY <1>5 DEF DbFields
  <1>7. db' = db \/ db' = d \/ db' = Unmark(d, E(c))
    <2>1. d = [db EXCEPT !.events = @ \ {E(c).id}]
      BY <1>0, <1>3, <1>4 DEF Changed, DbType, DbFields
    <2> QED BY <2>1 DEF Undo
  <1>8. CASE db' = db
    BY <1>0, <1>2, <1>8, QuietOwn, SameMove
  <1>9. CASE db' = d
    <2>1. DbMove(c)
      BY <1>3, <1>5, <1>6, <1>9 DEF DbMove
    <2>2. OwnKept(c)
      BY <1>2, <1>3, <1>5, <1>6, <1>9, QuietOwn
    <2> QED BY <1>0, <1>5, <1>9, <2>1, <2>2
  <1>10. CASE db' = Unmark(d, E(c))
    <2>1. DbMove(c) /\ db'.vanished = db.vanished /\ db'.applied = db.applied /\ db'.events = d.events
      BY <1>0, <1>3, <1>5, <1>6, <1>10, ClearMove
    <2>2. OwnKept(c)
      BY <1>2, <1>3, <1>5, <2>1, QuietOwn
    <2> QED BY <1>0, <2>1, <2>2
  <1> QED BY <1>7, <1>8, <1>9, <1>10

\* The effect of a stored event.
LEMMA EffectMove ==
  ASSUME IntakeTypes, RoleTypes, CommandRecoverable, NEW c \in Conns, Effect(c)
  PROVE  /\ DbMove(c) /\ OwnKept(c) /\ db'.vanished = db.vanished
         /\ role' = [a \in Authors |-> role'[a]] /\ \A a \in db.vanished : role'[a] \in {"none", role[a]}
  <1>0. conn[c].at \in Solo /\ DbType(db) /\ Tasks /\ menu \in Menus /\ menu' = menu /\ role = [a \in Authors |-> role[a]] /\ db.vanished \subseteq Authors
    BY DEF Effect, Solo, RoleTypes, IntakeTypes, DbType
  <1>1. PICK e : e = E(c)
    OBVIOUS
  <1>2. ASSUME db' = db, Settle(c, "ephemeral") \/ Go(c, "undo") PROVE DbMove(c) /\ OwnKept(c) /\ db'.vanished = db.vanished
    <2>1. conn'[c].at \notin {"put", "clear"}
      BY <1>0, <1>2, SettleAt, GoAt
    <2> QED BY <1>0, <1>2, <2>1, QuietOwn, SameMove
  <1>3. ASSUME role' = role PROVE role' = [a \in Authors |-> role'[a]] /\ \A a \in db.vanished : role'[a] \in {"none", role[a]}
    BY <1>0, <1>3
  <1>4. ASSUME NEW n, DbType(n), db' = Changed(n, "applied", db.applied \union {e.id}), Go(c, "clear"), n.events = db.events, n.journal = db.journal,
               n.vanished = db.vanished
        PROVE  DbMove(c) /\ OwnKept(c) /\ db'.vanished = db.vanished
    <2>0. PICK X : X = db.applied \union {e.id}
      OBVIOUS
    <2>1. /\ DbType(db') /\ db'.applied = X /\ (\A g \in DbFields \ {"applied"} : db'[g] = n[g]) /\ db'.vanished = n.vanished
          /\ db'.journal = n.journal
      BY <1>4, <2>0, DbSet DEF Loose
    <2>2. db'.events = n.events
      BY <2>1 DEF DbFields
    <2>3. conn'[c].at = "clear" /\ E(c)' = E(c)
      BY <1>0, <1>4, GoAt
    <2>4. OwnKept(c)
      BY <1>1, <2>0, <2>1, <2>3 DEF OwnKept, Held
    <2> QED BY <1>4, <2>0, <2>1, <2>2, <2>4 DEF DbMove
  <1>5. CASE e.cls = "leave"
    <2>1. db' = db /\ Settle(c, "ephemeral") /\ role' = [role EXCEPT ![e.author] = "none"]
      BY <1>1, <1>5 DEF Effect, GroupActions
    <2>2. role' = [a \in Authors |-> role'[a]] /\ \A a \in db.vanished : role'[a] \in {"none", role[a]}
      BY <1>0, <2>1
    <2> QED BY <1>2, <2>1, <2>2
  <1>6. CASE e.cls = "member"
    <2>1. CASE db' = db /\ role' = role /\ Go(c, "undo")
      BY <1>2, <1>3, <2>1
    <2>2. CASE ~(db' = db /\ role' = role /\ Go(c, "undo"))
      <3>1. /\ MayCommand(e) /\ role' = Commanded(e, role)
            /\ \/ db' = db /\ Go(c, "undo")
               \/ db' = [db EXCEPT !.role = role', !.applied = @ \union {e.id}] /\ Go(c, "clear")
        BY <1>1, <1>6, <2>2 DEF Effect, GroupActions
      <3>2. role' = [a \in Authors |-> role'[a]] /\ \A a \in Authors : role'[a] # role[a] => a = e.to
        BY <1>0, <3>1, CommandedIs
      <3>3. \A a \in db.vanished : role'[a] \in {"none", role[a]}
        BY <1>0, <3>1, <3>2 DEF MayCommand
      <3>4. CASE db' = db /\ Go(c, "undo")
        BY <1>2, <3>2, <3>3, <3>4
      <3>5. CASE db' = [db EXCEPT !.role = role', !.applied = @ \union {e.id}] /\ Go(c, "clear")
        <4>1. PICK r : r = role'
          OBVIOUS
        <4>2. PICK n : n = Changed(db, "role", r)
          OBVIOUS
        <4>3. DbType(n) /\ \A g \in DbFields \ {"role"} : n[g] = db[g]
          BY <1>0, <3>2, <4>1, <4>2, DbRole
        <4>4. n.events = db.events /\ n.journal = db.journal /\ n.vanished = db.vanished
          BY <4>3 DEF DbFields
        <4>5. db' = Changed(n, "applied", db.applied \union {e.id})
          BY <1>0, <3>5, <4>1, <4>2 DEF Changed, DbType, DbFields
        <4> QED BY <1>4, <3>2, <3>3, <3>5, <4>3, <4>4, <4>5
      <3> QED BY <3>1, <3>4, <3>5
    <2> QED BY <2>1, <2>2
  <1>7. CASE e.cls = "icon"
    <2>1. /\ role' = role
          /\ \/ db' = db /\ Go(c, "undo")
             \/ db' = [db EXCEPT !.applied = @ \union {e.id}] /\ Go(c, "clear")
      BY <1>1, <1>7 DEF Effect, GroupActions
    <2>2. CASE db' = db /\ Go(c, "undo")
      BY <1>2, <1>3, <2>1, <2>2
    <2>3. CASE db' = [db EXCEPT !.applied = @ \union {e.id}] /\ Go(c, "clear")
      <3>1. db' = Changed(db, "applied", db.applied \union {e.id})
        BY <1>0, <2>3 DEF Changed, DbType, DbFields
      <3> QED BY <1>0, <1>3, <1>4, <2>1, <2>3, <3>1
    <2> QED BY <2>1, <2>2, <2>3
  <1>8. CASE e.cls \in GroupActions
    <2>1. db' = db /\ role' = role /\ (Go(c, "undo") \/ Go(c, "clear"))
      BY <1>1, <1>8 DEF Effect, GroupActions
    <2>2. E(c)' = E(c)
      BY <1>0, <2>1, GoAt
    <2>3. e.cls \notin Durable
      BY <1>8 DEF GroupActions, Durable
    <2>4. OwnKept(c)
      BY <1>1, <2>2, <2>3 DEF OwnKept, Held
    <2> QED BY <1>0, <1>3, <2>1, <2>4, SameMove
  <1>9. CASE e.cls \notin {"leave", "member", "icon"} \union GroupActions
    <2>1. Settle(c, "stored") /\ db' = Executed(db, e) /\ role' = role
      BY <1>1, <1>9 DEF Effect
    <2>2. PICK X : X = IF e.arg = "deny" THEN db.banned \union {e.to} ELSE db.banned \ {e.to}
      OBVIOUS
    <2>3. PICK Y : Y = db.replies \union {e.id}
      OBVIOUS
    <2>4. PICK m : m = Changed(db, "banned", X)
      OBVIOUS
    <2>5. DbType(m) /\ (\A g \in DbFields \ {"banned"} : m[g] = db[g]) /\ m.vanished = db.vanished /\ m.journal = db.journal
      BY <1>0, <2>4, DbSet DEF Loose
    <2>6. PICK n : n = Changed(m, "replies", Y)
      OBVIOUS
    <2>7. DbType(n) /\ (\A g \in DbFields \ {"replies"} : n[g] = m[g]) /\ n.vanished = m.vanished /\ n.journal = m.journal
      BY <2>5, <2>6, DbSet DEF Loose
    <2>8. db' = n
      BY <1>0, <2>1, <2>2, <2>3, <2>4, <2>6 DEF Changed, Executed, DbType, DbFields
    <2>9. n.events = db.events /\ n.applied = db.applied
      BY <2>5, <2>7 DEF DbFields
    <2>10. conn'[c].at = "route"
      BY <1>0, <2>1, SettleAt
    <2>11. OwnKept(c)
      BY <2>5, <2>7, <2>8, <2>9, <2>10, QuietOwn
    <2> QED BY <1>3, <2>1, <2>5, <2>7, <2>8, <2>9, <2>11 DEF DbMove
  <1> QED BY <1>5, <1>6, <1>7, <1>8, <1>9

\* The roles are those of the authors, and what is durable has its types.
LEMMA StepMove ==
  ASSUME IntakeTypes, RoleTypes, CommandRecoverable, NEW c \in Conns, Held(c), Step(c)
  PROVE  DbMove(c) /\ OwnKept(c) /\ RoleTypes'
  <1>0. Tasks /\ role = [a \in Authors |-> role[a]] /\ menu' = menu
    BY OthersSame DEF IntakeTypes, RoleTypes
  <1>1. ASSUME DbMove(c), OwnKept(c), role' = [a \in Authors |-> role'[a]] PROVE DbMove(c) /\ OwnKept(c) /\ RoleTypes'
    BY <1>1 DEF DbMove, RoleTypes
  <1>2. CASE VanishMark(c)
    <2>1. DbMove(c) /\ OwnKept(c) /\ role' = role
      BY <1>2, VanishMove
    <2> QED BY <1>0, <1>1, <2>1
  <1>3. CASE Mark(c)
    <2>1. DbMove(c) /\ OwnKept(c) /\ role' = role
      BY <1>3, MarkMove
    <2> QED BY <1>0, <1>1, <2>1
  <1>4. CASE Put(c)
    <2>1. DbMove(c) /\ OwnKept(c) /\ role' = role
      BY <1>4, PutMove
    <2> QED BY <1>0, <1>1, <2>1
  <1>5. CASE Undo(c)
    <2>1. DbMove(c) /\ OwnKept(c) /\ role' = role
      BY <1>5, UndoMove
    <2> QED BY <1>0, <1>1, <2>1
  <1>6. CASE ClearPending(c)
    <2>1. DbMove(c) /\ OwnKept(c) /\ role' = role
      BY <1>6, ClearedMove
    <2> QED BY <1>0, <1>1, <2>1
  <1>7. CASE Effect(c)
    <2>1. DbMove(c) /\ OwnKept(c) /\ role' = [a \in Authors |-> role'[a]]
      BY <1>7, EffectMove
    <2> QED BY <1>1, <2>1
  <1>8. CASE ~(VanishMark(c) \/ Mark(c) \/ Put(c) \/ Undo(c) \/ ClearPending(c) \/ Effect(c))
    <2>0. conn'[c].at \notin {"put", "clear"}
      BY <1>0, <1>8, Arrives
    <2>1. CASE RunCommit(c) \/ RunAfter(c) \/ HoldRecord(c)
      <3>1. DbMove(c) /\ role' = role
        BY <2>1, RunMove, AfterMove
      <3>2. conn[c].at \notin Solo
        BY <2>1 DEF RunCommit, RunAfter, HoldRecord, Solo
      <3>3. OwnKept(c)
        BY <2>0, <3>2 DEF OwnKept, Held
      <3> QED BY <1>0, <1>1, <3>1, <3>3
    <2>2. CASE AcceptBatchBegin(c) \/ Route(c) \/ RunCheck(c) \/ HoldDrain(c) \/ HoldMerge(c) \/ Check(c) \/ Gate(c)
      <3>1. db' = db /\ role' = role
        BY <2>2 DEF AcceptBatchBegin, Route, RunCheck, HoldDrain, HoldMerge, Check, Gate
      <3> QED BY <1>0, <1>1, <2>0, <3>1, SameMove, QuietOwn
    <2>3. CASE AdmitMember(c) \/ AdmitRecheck(c) \/ VanishRoles(c)
      <3>1. db' = db
        BY <2>3 DEF AdmitMember, AdmitRecheck, VanishRoles
      <3>2. role' = role \/ \E x : role' = [role EXCEPT ![E(c).author] = x]
        <4>1. AdmitMember(c) => role' = role \/ \E x : role' = [role EXCEPT ![E(c).author] = x]
          BY <1>0 DEF AdmitMember
        <4>2. AdmitRecheck(c) => role' = role \/ role' = [role EXCEPT ![E(c).author] = "none"]
          BY DEF AdmitRecheck
        <4>3. VanishRoles(c) => role' = [role EXCEPT ![E(c).author] = "none"]
          BY DEF VanishRoles
        <4> QED BY <2>3, <4>1, <4>2, <4>3
      <3>3. role' = [a \in Authors |-> role'[a]]
        BY <1>0, <3>2
      <3> QED BY <1>1, <2>0, <3>1, <3>3, SameMove, QuietOwn
    <2> QED BY <1>8, <2>1, <2>2, <2>3 DEF Step
  <1> QED BY <1>2, <1>3, <1>4, <1>5, <1>6, <1>7, <1>8

\* The commands after a step of one connection.
LEMMA CommandStep ==
  ASSUME IntakeTypes, RoleTypes, CommandRecoverable, \A x \in Conns : Held(x), NEW c \in Conns, Step(c)
  PROVE  CommandRecoverable' /\ \A x \in Conns : Held(x)'
  <1>1. DbMove(c) /\ OwnKept(c)
    BY StepMove
  <1>2. menu' = menu /\ \A x \in Conns \ {c} : conn'[x] = conn[x]
    BY OthersSame DEF IntakeTypes
  <1>3. \A i : Single(i)' = Single(i)
    BY <1>2 DEF Single, SendersOf
  <1>4. conn[c].at \in Solo => menu.event[E(c).id] = E(c) /\ c \in SendersOf(E(c).id)
    BY EventIs DEF IntakeTypes
  <1>5. CommandRecoverable'
    <2>1. SUFFICES ASSUME NEW i \in db'.events \ menu.stored, menu.event[i].cls \in Durable, Single(i)
                   PROVE  i \in db'.applied \union db'.journal
      <3>1. \A i : (\A x, y \in SendersOf(i) : x = y)' <=> Single(i)
        BY <1>3 DEF Single
      <3> QED BY <1>2, <3>1 DEF CommandRecoverable
    <2>2. CASE conn[c].at \in Solo /\ i = E(c).id
      BY <1>1, <1>4, <2>1, <2>2 DEF OwnKept
    <2>3. CASE conn[c].at \in Solo => i # E(c).id
      <3>1. (i \in db.journal => i \in db'.journal) /\ i \in db.events /\ db.applied \subseteq db'.applied
        BY <1>1, <2>1, <2>3 DEF DbMove
      <3>2. i \in db.applied \union db.journal
        BY <2>1, <3>1 DEF CommandRecoverable, Single
      <3> QED BY <3>1, <3>2
    <2> QED BY <2>2, <2>3
  <1>6. ASSUME NEW x \in Conns, x # c PROVE Held(x)'
    <2>0. conn'[x] = conn[x] /\ E(x)' = E(x)
      BY <1>2, <1>6 DEF E
    <2>1. CASE conn[x].at = "put" /\ E(x).cls \in Durable /\ Single(E(x).id)
      <3>1. menu.event[E(x).id] = E(x) /\ x \in SendersOf(E(x).id)
        BY <2>1, EventIs DEF IntakeTypes, Solo
      <3>2. conn[c].at \in Solo => E(x).id # E(c).id
        BY <1>4, <1>6, <2>1, <3>1 DEF Single
      <3>3. (E(x).id \in db.journal => E(x).id \in db'.journal) /\ (E(x).id \in db'.events => E(x).id \in db.events) /\ db.applied \subseteq db'.applied
        BY <1>1, <2>1, <3>1, <3>2 DEF DbMove
      <3>4. Held(x)
        OBVIOUS
      <3> QED BY <1>2, <1>3, <2>0, <2>1, <3>3, <3>4 DEF Held
    <2>2. CASE ~(conn[x].at = "put" /\ E(x).cls \in Durable /\ Single(E(x).id))
      <3>1. db.applied \subseteq db'.applied
        BY <1>1 DEF DbMove
      <3>2. Held(x)
        OBVIOUS
      <3>3. Single(E(x).id)' = Single(E(x).id)
        BY <1>3, <2>0
      <3> QED BY <2>0, <2>2, <3>1, <3>2, <3>3 DEF Held
    <2> QED BY <2>1, <2>2
  <1> QED BY <1>1, <1>5, <1>6 DEF OwnKept

-----------------------------------------------------------------------------
(* The replay of the journal *)

\* The replay of the journal: keys that vanished get no role, nothing that was applied is forgotten, and every stored
\* command is applied or stays in the journal.
Replaying(d, p) ==
    /\ p = [role |-> p.role, left |-> p.left, applied |-> p.applied]
    /\ p.role = [a \in Authors |-> p.role[a]] /\ \A a \in d.vanished : p.role[a] = "none"
    /\ p.left \subseteq d.journal /\ d.applied \subseteq p.applied /\ p.applied \subseteq d.applied \union d.journal
    /\ d.journal \intersect d.events \subseteq p.left \union p.applied

\* One entry.
LEMMA ReplayedOneIs ==
  ASSUME NEW d, DbType(d), NEW p, Replaying(d, p), NEW i
  PROVE  Replaying(d, ReplayedOne(d, p, i))
  <1>1. PICK q : q = ReplayedOne(d, p, i)
    OBVIOUS
  <1>2. CASE q = p
    BY <1>1, <1>2
  <1>3. CASE i \in d.journal \ d.events /\ q = [p EXCEPT !.left = @ \ {i}]
    <2>1. q = [role |-> p.role, left |-> p.left \ {i}, applied |-> p.applied]
      BY <1>3 DEF Replaying
    <2>2. q.role = p.role /\ q.left = p.left \ {i} /\ q.applied = p.applied /\ q = [role |-> q.role, left |-> q.left, applied |-> q.applied]
      BY <2>1
    <2> QED BY <1>1, <1>3, <2>2 DEF Replaying
  <1>4. CASE /\ i \in d.journal \intersect d.events
             /\ \E r : /\ r = p.role \/ (r = Commanded(menu.event[i], p.role) /\ menu.event[i].to \notin d.vanished)
                       /\ q = [role |-> r, left |-> p.left \ {i}, applied |-> p.applied \union {i}]
    <2>1. PICK r : /\ r = p.role \/ (r = Commanded(menu.event[i], p.role) /\ menu.event[i].to \notin d.vanished)
                   /\ q = [role |-> r, left |-> p.left \ {i}, applied |-> p.applied \union {i}]
      BY <1>4
    <2>2. q.role = r /\ q.left = p.left \ {i} /\ q.applied = p.applied \union {i} /\ q = [role |-> q.role, left |-> q.left, applied |-> q.applied]
      BY <2>1
    <2>3. p.role = [a \in Authors |-> p.role[a]] /\ (\A a \in d.vanished : p.role[a] = "none") /\ d.vanished \subseteq Authors
      BY DEF Replaying, DbType
    <2>4. r = [a \in Authors |-> r[a]] /\ \A a \in d.vanished : r[a] = "none"
      <3>1. CASE r = p.role
        BY <2>3, <3>1
      <3>2. CASE r = Commanded(menu.event[i], p.role) /\ menu.event[i].to \notin d.vanished
        <4>1. PICK u : u = p.role
          OBVIOUS
        <4>2. r = [a \in Authors |-> r[a]] /\ \A a \in Authors : r[a] # u[a] => a = menu.event[i].to
          <5>1. PICK e : e = menu.event[i]
            OBVIOUS
          <5>2. u = [a \in Authors |-> u[a]] /\ r = Commanded(e, u)
            BY <2>3, <3>2, <4>1, <5>1
          <5>3. r = [a \in Authors |-> r[a]] /\ \A a \in Authors : r[a] # u[a] => a = e.to
            BY <5>2, CommandedIs
          <5> QED BY <5>1, <5>3
        <4> QED BY <2>3, <3>2, <4>1, <4>2
      <3> QED BY <2>1, <3>1, <3>2
    <2> QED BY <1>1, <1>4, <2>2, <2>4 DEF Replaying
  <1>5. \/ q = p
        \/ i \in d.journal \ d.events /\ q = [p EXCEPT !.left = @ \ {i}]
        \/ /\ i \in d.journal \intersect d.events
           /\ \E r : /\ r = p.role \/ (r = Commanded(menu.event[i], p.role) /\ menu.event[i].to \notin d.vanished)
                     /\ q = [role |-> r, left |-> p.left \ {i}, applied |-> p.applied \union {i}]
    <2>1. CASE i \notin d.journal
      BY <1>1, <2>1 DEF ReplayedOne
    <2>2. CASE i \in d.journal \ d.events
      BY <1>1, <2>2 DEF ReplayedOne
    <2>3. CASE i \in d.journal \intersect d.events
      <3>1. PICK e : e = menu.event[i]
        OBVIOUS
      <3>2. PICK ok \in BOOLEAN : ok <=> e.cls = "icon" \/ (p.role[e.author] = "admin" /\ e.to \notin d.vanished /\ CommandFits(e, p.role))
        OBVIOUS
      <3>3. CASE ~ok
        BY <1>1, <2>3, <3>1, <3>2, <3>3 DEF ReplayedOne
      <3>4. CASE ok
        <4>1. PICK r : r = IF e.cls = "member" THEN Commanded(e, p.role) ELSE p.role
          OBVIOUS
        <4>2. q = [role |-> r, left |-> p.left \ {i}, applied |-> p.applied \union {i}]
          BY <1>1, <2>3, <3>1, <3>2, <3>4, <4>1 DEF ReplayedOne
        <4>3. r = p.role \/ (r = Commanded(e, p.role) /\ e.to \notin d.vanished)
          BY <3>2, <3>4, <4>1
        <4> QED BY <2>3, <3>1, <4>2, <4>3
      <3> QED BY <3>3, <3>4
    <2> QED BY <2>1, <2>2, <2>3
  <1> QED BY <1>2, <1>3, <1>4, <1>5

\* Every entry, in the order of the commands.
LEMMA ReplayedIs ==
  ASSUME NEW d, DbType(d)
  PROVE  Replaying(d, ReplayedCommand(d))
  <1>1. PICK n \in Nat : n = Max(d.journal \union {0})
    <2>1. PICK S : S = d.journal \union {0}
      OBVIOUS
    <2>2. S \subseteq Nat /\ S # {} /\ IsFiniteSet(S)
      BY <2>1, FS_AddElement DEF DbType
    <2>3. Max(S) \in S
      BY <2>2, GreatestNumber
    <2> QED BY <2>1, <2>2, <2>3
  <1>2. PICK b : b = [role |-> RestoredRole(d), left |-> d.journal, applied |-> d.applied]
    OBVIOUS
  <1>3. Replaying(d, b)
    <2>1. b.role = RestoredRole(d) /\ b.left = d.journal /\ b.applied = d.applied /\ b = [role |-> b.role, left |-> b.left, applied |-> b.applied]
      BY <1>2
    <2>2. d.vanished \subseteq Authors
      BY DEF DbType
    <2>3. RestoredRole(d) = [a \in Authors |-> RestoredRole(d)[a]] /\ \A a \in d.vanished : RestoredRole(d)[a] = "none"
      BY <2>2 DEF RestoredRole
    <2> QED BY <2>1, <2>3 DEF Replaying
  <1>4. PICK R : /\ "none" \in R /\ \A a \in Authors : d.role[a] \in R
                 /\ \A i \in 1..n : menu.event[i].arg \in R
    <2>1. PICK A : \A a \in Authors : d.role[a] \in A
      <3> WITNESS {d.role[a] : a \in Authors}
      <3> QED OBVIOUS
    <2>2. PICK B : \A i \in 1..n : menu.event[i].arg \in B
      <3> WITNESS {menu.event[i].arg : i \in 1..n}
      <3> QED OBVIOUS
    <2> WITNESS A \union B \union {"none"}
    <2> QED BY <2>1, <2>2
  <1>5. PICK D : D = {p \in [role : [Authors -> R], left : SUBSET d.journal, applied : SUBSET (d.applied \union d.journal)] : Replaying(d, p)}
    OBVIOUS
  <1>6. \A p : p \in D <=> Replaying(d, p) /\ p.role \in [Authors -> R]
    <2> TAKE p
    <2>1. CASE Replaying(d, p) /\ p.role \in [Authors -> R]
      <3>1. p = [role |-> p.role, left |-> p.left, applied |-> p.applied] /\ p.left \in SUBSET d.journal /\ p.applied \in SUBSET (d.applied \union d.journal)
        BY <2>1 DEF Replaying
      <3>2. p \in [role : [Authors -> R], left : SUBSET d.journal, applied : SUBSET (d.applied \union d.journal)]
        BY <2>1, <3>1
      <3> QED BY <1>5, <2>1, <3>2
    <2>2. CASE p \in D
      BY <1>5, <2>2
    <2> QED BY <2>1, <2>2
  <1>8. b \in D
    <2>1. b.role \in [Authors -> R]
      BY <1>2, <1>4 DEF RestoredRole
    <2> QED BY <1>3, <1>6, <2>1
  <1> DEFINE Walk1(p, k) == ReplayedOne(d, p, k)
             G == [x \in D \X (1..n) |-> Walk1(x[1], x[2])]
             f == CHOOSE f : f = [k \in 0..n |-> IF k = 0 THEN b ELSE Walk1(f[k - 1], k)]
  <1>9. ReplayedCommand(d) = f[n]
    BY <1>1, <1>2 DEF ReplayedCommand
  <1>10. \A p \in D, k \in 1..n : Walk1(p, k) \in D
    <2> TAKE p \in D, k \in 1..n
    <2>1. Replaying(d, p) /\ p.role \in [Authors -> R]
      BY <1>6
    <2>2. PICK q : q = ReplayedOne(d, p, k)
      OBVIOUS
    <2>3. Replaying(d, q)
      BY <2>1, <2>2, ReplayedOneIs
    <2>4. q.role \in [Authors -> R]
      <3>1. PICK e : e = menu.event[k]
        OBVIOUS
      <3>2. p = [role |-> p.role, left |-> p.left, applied |-> p.applied]
        BY <2>1 DEF Replaying
      <3>3. q.role = p.role \/ q.role = Commanded(e, p.role)
        BY <2>2, <3>1, <3>2 DEF ReplayedOne
      <3>4. e.arg \in R
        BY <1>4, <3>1
      <3> QED BY <2>1, <3>3, <3>4 DEF Commanded
    <2> QED BY <1>6, <2>2, <2>3, <2>4
  <1> HIDE DEF Walk1
  <1>11. PICK g : Walks(D, b, G, n, g)
    <2>1. G \in [D \X (1..n) -> D]
      BY <1>10
    <2> HIDE DEF G
    <2> QED BY <1>8, <2>1, WalkExists
  <1>12. g = [k \in 0..n |-> IF k = 0 THEN b ELSE Walk1(g[k - 1], k)]
    <2>1. g \in [0..n -> D] /\ g[0] = b /\ \A k \in 1..n : g[k] = Walk1(g[k - 1], k)
      <3>1. g \in [0..n -> D] /\ g[0] = b /\ \A k \in 1..n : g[k] = G[<<g[k - 1], k>>]
        <4> HIDE DEF G
        <4> QED BY <1>11 DEF Walks
      <3>2. \A k \in 1..n : g[k - 1] \in D
        BY <3>1
      <3>3. \A p \in D, k \in 1..n : G[<<p, k>>] = Walk1(p, k)
        OBVIOUS
      <3> HIDE DEF G
      <3> QED BY <3>1, <3>2, <3>3
    <2> QED BY <2>1
  <1>13. f[0] = b /\ \A k \in 1..n : f[k] = Walk1(f[k - 1], k)
    <2>1. f = [k \in 0..n |-> IF k = 0 THEN b ELSE Walk1(f[k - 1], k)]
      BY <1>12
    <2> HIDE DEF f
    <2> QED BY <2>1
  <1> HIDE DEF f
  <1>14. \A k \in 0..n : f[k] \in D
    <2>1. \A k \in 1..n : f[k - 1] \in D => f[k] \in D
      BY <1>10, <1>13
    <2>2. f[0] \in D
      BY <1>8, <1>13
    <2> QED BY <2>1, <2>2, WalkInduct
  <1> QED BY <1>6, <1>9, <1>14

-----------------------------------------------------------------------------
(* Keys that vanished *)

Open == {"recheck", "unrole", "admit"}

\* Roles are given only by a task that reads the vanish marker afterwards, or by a command that may not name such a key.
LEMMA VanishStep ==
  ASSUME IntakeTypes, RoleTypes, CommandRecoverable, VanishedNotMember, NEW c \in Conns, Held(c), Step(c)
  PROVE  VanishedNotMember'
  <1>0. Tasks /\ menu \in Menus /\ role = [a \in Authors |-> role[a]] /\ db.vanished \subseteq Authors
    BY DEF IntakeTypes, RoleTypes, DbType
  <1>1. \A x \in Conns \ {c} : conn'[x] = conn[x] /\ E(x)' = E(x)
    BY <1>0, OthersSame DEF E
  <1>2. \A a \in db.vanished : role[a] # "none" => \E x \in Conns : conn[x].at \in Open /\ E(x).author = a
    BY DEF VanishedNotMember, Busy, Open
  <1>3. SUFFICES \A a \in db'.vanished : role'[a] # "none" => \E x \in Conns : conn'[x].at \in Open /\ E(x)'.author = a
    BY DEF VanishedNotMember, Busy, Open
  <1>4. ASSUME conn[c].at \notin Open, db'.vanished = db.vanished, \A a \in db.vanished : role'[a] \in {"none", role[a]}
        PROVE  \A a \in db'.vanished : role'[a] # "none" => \E x \in Conns : conn'[x].at \in Open /\ E(x)'.author = a
    <2> TAKE a \in db'.vanished
    <2> HAVE role'[a] # "none"
    <2>1. PICK x \in Conns : conn[x].at \in Open /\ E(x).author = a
      BY <1>2, <1>4
    <2>2. x # c
      BY <1>4, <2>1
    <2> QED BY <1>1, <2>1, <2>2
  <1>5. CASE AdmitMember(c)
    <2>1. db' = db /\ conn[c].at \in Solo
      BY <1>5 DEF AdmitMember, Solo
    <2>2. E(c).author \in Authors
      BY <1>0, <2>1, EventIs
    <2>3. CASE role' = role /\ role[E(c).author] = "none"
      <3> TAKE a \in db'.vanished
      <3> HAVE role'[a] # "none"
      <3>1. PICK x \in Conns : conn[x].at \in Open /\ E(x).author = a
        BY <1>2, <2>1, <2>3
      <3>2. x # c
        BY <2>3, <3>1
      <3> QED BY <1>1, <3>1, <3>2
    <2>4. CASE Go(c, "recheck") /\ role' = [role EXCEPT ![E(c).author] = IF @ = "none" THEN "member" ELSE @]
      <3>1. conn'[c].at = "recheck" /\ E(c)' = E(c)
        BY <1>0, <2>4, GoAt
      <3> TAKE a \in db'.vanished
      <3> HAVE role'[a] # "none"
      <3>2. CASE a = E(c).author
        BY <3>1, <3>2 DEF Open
      <3>3. CASE a # E(c).author
        <4>1. role'[a] = role[a]
          BY <1>0, <2>1, <2>4, <3>3
        <4>2. PICK x \in Conns : conn[x].at \in Open /\ E(x).author = a
          BY <1>2, <2>1, <4>1
        <4> QED BY <1>1, <3>3, <4>2
      <3> QED BY <3>2, <3>3
    <2> QED BY <1>5, <2>3, <2>4 DEF AdmitMember
  <1>6. CASE AdmitRecheck(c)
    <2>1. db' = db /\ conn[c].at \in Solo
      BY <1>6 DEF AdmitRecheck, Solo
    <2>2. E(c).author \in Authors
      BY <1>0, <2>1, EventIs
    <2>3. role' = [role EXCEPT ![E(c).author] = "none"] \/ (role' = role /\ E(c).author \notin db.vanished)
      BY <1>6 DEF AdmitRecheck
    <2> TAKE a \in db'.vanished
    <2> HAVE role'[a] # "none"
    <2>4. a # E(c).author /\ role'[a] = role[a]
      BY <1>0, <2>1, <2>2, <2>3
    <2>5. PICK x \in Conns : conn[x].at \in Open /\ E(x).author = a
      BY <1>2, <2>1, <2>4
    <2> QED BY <1>1, <2>4, <2>5
  <1>7. CASE VanishRoles(c)
    <2>1. db' = db /\ conn[c].at \in Solo /\ role' = [role EXCEPT ![E(c).author] = "none"]
      BY <1>7 DEF VanishRoles, Solo
    <2>2. E(c).author \in Authors
      BY <1>0, <2>1, EventIs
    <2> TAKE a \in db'.vanished
    <2> HAVE role'[a] # "none"
    <2>4. a # E(c).author /\ role'[a] = role[a]
      BY <1>0, <2>1, <2>2
    <2>5. PICK x \in Conns : conn[x].at \in Open /\ E(x).author = a
      BY <1>2, <2>1, <2>4
    <2> QED BY <1>1, <2>4, <2>5
  <1>8. CASE VanishMark(c)
    <2>0. conn[c].at \notin Open
      BY <1>8 DEF VanishMark, Open
    <2>1. role' = role /\ (db'.vanished = db.vanished \/ (db'.vanished = db.vanished \union {E(c).author} /\ Go(c, "unrole")))
      BY <1>8, VanishMove
    <2>2. CASE db'.vanished = db.vanished
      BY <1>4, <2>0, <2>1, <2>2
    <2>3. CASE db'.vanished = db.vanished \union {E(c).author} /\ Go(c, "unrole")
      <3>1. conn'[c].at = "unrole" /\ E(c)' = E(c)
        BY <1>0, <2>3, GoAt
      <3> TAKE a \in db'.vanished
      <3> HAVE role'[a] # "none"
      <3>2. CASE a = E(c).author
        BY <3>1, <3>2 DEF Open
      <3>3. CASE a # E(c).author
        <4>1. PICK x \in Conns : conn[x].at \in Open /\ E(x).author = a
          BY <1>2, <2>1, <2>3, <3>3
        <4> QED BY <1>1, <2>0, <4>1
      <3> QED BY <3>2, <3>3
    <2> QED BY <2>1, <2>2, <2>3
  <1>9. CASE Effect(c)
    <2>1. conn[c].at \notin Open
      BY <1>9 DEF Effect, Open
    <2> QED BY <1>4, <1>9, <2>1, EffectMove
  <1>10. CASE ~(AdmitMember(c) \/ AdmitRecheck(c) \/ VanishRoles(c) \/ VanishMark(c) \/ Effect(c))
    <2>1. conn[c].at \notin Open
      BY <1>10 DEF Open, Step, AcceptBatchBegin, Route, RunCheck, RunCommit, RunAfter, HoldDrain, HoldRecord, HoldMerge, Check,
                   Gate, Mark, Put, Undo, ClearPending
    <2>2. role' = role /\ db'.vanished = db.vanished
      <3>1. CASE AcceptBatchBegin(c) \/ Route(c) \/ RunCheck(c) \/ HoldDrain(c) \/ HoldMerge(c) \/ Check(c) \/ Gate(c)
        BY <3>1 DEF AcceptBatchBegin, Route, RunCheck, HoldDrain, HoldMerge, Check, Gate
      <3>2. CASE RunCommit(c) \/ RunAfter(c) \/ HoldRecord(c)
        BY <3>2, RunMove, AfterMove
      <3>3. CASE Mark(c) \/ Put(c) \/ Undo(c) \/ ClearPending(c)
        BY <3>3, MarkMove, PutMove, UndoMove, ClearedMove
      <3> QED BY <1>10, <3>1, <3>2, <3>3 DEF Step
    <2> QED BY <1>4, <2>1, <2>2
  <1> QED BY <1>5, <1>6, <1>7, <1>8, <1>9, <1>10

-----------------------------------------------------------------------------
(* The invariant *)

\* The inductive invariant of the roles and the commands.
RoleInv ==
    /\ RoleTypes /\ VanishedNotMember /\ CommandRecoverable /\ \A c \in Conns : Held(c)
    /\ ~up => \A c \in Conns : conn[c].at = "idle"

\* At the start nothing vanished and nothing was stored.
LEMMA InitRoles ==
  ASSUME IntakeInit
  PROVE  RoleInv
  <1>1. /\ menu \in Menus /\ role = menu.roles /\ up = TRUE /\ conn = [c \in Conns |-> IdleConn]
        /\ db = [events |-> menu.stored, deleted |-> {}, vanished |-> {}, marks |-> {}, journal |-> {}, pending |-> {},
             seen |-> [a \in Authors |-> Unset], banned |-> menu.banned, replies |-> {}, role |-> menu.roles, applied |-> {}]
    BY DEF IntakeInit
  <1>2. db.role = menu.roles /\ db.vanished = {} /\ db.journal = {} /\ db.events = menu.stored /\ db.seen = [a \in Authors |-> Unset]
    BY <1>1
  <1>3. db = [f \in DOMAIN db |-> db[f]] /\ DbFields \subseteq DOMAIN db
    BY <1>1 DEF DbFields
  <1>4. menu.roles = [a \in Authors |-> menu.roles[a]]
    BY <1>1, MenuType
  <1>5. RoleTypes
    <2>1. db.seen \in [Authors -> Nat \union {Unset}]
      BY <1>2
    <2>2. IsFiniteSet(db.journal)
      BY <1>2, FS_EmptySet
    <2> QED BY <1>1, <1>2, <1>3, <1>4, <2>1, <2>2 DEF RoleTypes, DbType
  <1>6. VanishedNotMember /\ CommandRecoverable
    BY <1>2 DEF VanishedNotMember, CommandRecoverable
  <1>7. \A c \in Conns : conn[c].at = "idle"
    <2>1. \A c \in Conns : conn[c] = IdleConn
      BY <1>1
    <2>2. IdleConn.at = "idle"
      BY DEF IdleConn
    <2> QED BY <2>1, <2>2
  <1>8. \A c \in Conns : Held(c)
    BY <1>7 DEF Held
  <1> QED BY <1>1, <1>5, <1>6, <1>7, <1>8 DEF RoleInv

\* The saved roles without the keys that vanished.
LEMMA RestoredIs ==
  ASSUME NEW d, DbType(d)
  PROVE  LET r == RestoredRole(d) IN r = [a \in Authors |-> r[a]] /\ \A a \in d.vanished : r[a] = "none"
  BY DEF RestoredRole, DbType

\* The start after a stop.
LEMMA RecoverMove ==
  ASSUME IntakeTypes, RoleInv, Recover
  PROVE  RoleInv'
  <1>0. DbType(db) /\ DbFields \subseteq DOMAIN db /\ ~up /\ \A c \in Conns : conn[c].at = "idle"
    BY DEF RoleInv, RoleTypes, DbType, Recover
  <1>1. PICK X : X = (db.events \ db.marks) \ db.pending
    OBVIOUS
  <1>2. PICK Y : Y = db.deleted \union db.pending
    OBVIOUS
  <1>n. PICK N : N = {}
    OBVIOUS
  <1>3. PICK d1 : d1 = Changed(db, "events", X)
    OBVIOUS
  <1>4. DbType(d1) /\ d1.events = X /\ (\A g \in DbFields \ {"events"} : d1[g] = db[g])
    BY <1>0, <1>3, DbSet DEF Loose
  <1>5. PICK d2 : d2 = Changed(d1, "marks", N)
    OBVIOUS
  <1>6. DbType(d2) /\ (\A g \in DbFields \ {"marks"} : d2[g] = d1[g])
    BY <1>4, <1>5, DbSet DEF Loose
  <1>7. PICK d3 : d3 = Changed(d2, "pending", N)
    OBVIOUS
  <1>8. DbType(d3) /\ (\A g \in DbFields \ {"pending"} : d3[g] = d2[g])
    BY <1>6, <1>7, DbSet DEF Loose
  <1>9. PICK d : d = Changed(d3, "deleted", Y)
    OBVIOUS
  <1>10. DbType(d) /\ (\A g \in DbFields \ {"deleted"} : d[g] = d3[g])
    BY <1>8, <1>9, DbSet DEF Loose
  <1>11. d.events = X /\ d.journal = db.journal /\ d.applied = db.applied /\ d.vanished = db.vanished
    BY <1>4, <1>6, <1>8, <1>10 DEF DbFields
  <1>12. PICK r : r = ReplayedCommand(d)
    OBVIOUS
  <1>13. Replaying(d, r)
    BY <1>10, <1>12, ReplayedIs
  <1>14. db' = [d EXCEPT !.role = r.role, !.journal = r.left, !.applied = r.applied] /\ role' = r.role /\ up' = TRUE /\ conn' = conn /\ menu' = menu
    <2>1. d = [db EXCEPT !.events = (@ \ db.marks) \ db.pending, !.marks = {}, !.pending = {}, !.deleted = @ \union db.pending]
      BY <1>0, <1>1, <1>2, <1>3, <1>5, <1>7, <1>9, <1>n DEF Changed, DbFields
    <2> QED BY <1>12, <2>1 DEF Recover
  <1>15. DbFields \subseteq DOMAIN d /\ d = [f \in DOMAIN d |-> d[f]] /\ d.seen \in [Authors -> Nat \union {Unset}] /\ d.vanished \subseteq Authors
         /\ d.journal \subseteq Nat /\ IsFiniteSet(d.journal)
    BY <1>10 DEF DbType
  <1>16. /\ db'.role = r.role /\ db'.journal = r.left /\ db'.applied = r.applied /\ db'.events = d.events /\ db'.vanished = d.vanished /\ db'.seen = d.seen
         /\ DOMAIN db' = DOMAIN d /\ db' = [f \in DOMAIN db' |-> db'[f]]
    BY <1>14, <1>15 DEF DbFields
  <1>17. r.role = [a \in Authors |-> r.role[a]] /\ (\A a \in d.vanished : r.role[a] = "none") /\ r.left \subseteq d.journal /\ d.applied \subseteq r.applied
         /\ d.journal \intersect d.events \subseteq r.left \union r.applied
    BY <1>13 DEF Replaying
  <1>18. IsFiniteSet(r.left) /\ r.left \subseteq Nat
    BY <1>15, <1>17, FS_Subset
  <1>19. RoleTypes'
    BY <1>14, <1>15, <1>16, <1>17, <1>18 DEF RoleTypes, DbType
  <1>20. VanishedNotMember'
    BY <1>14, <1>16, <1>17 DEF VanishedNotMember
  <1>21. CommandRecoverable'
    <2>1. SUFFICES ASSUME NEW i \in db'.events \ menu.stored, menu.event[i].cls \in Durable, \A x, y \in SendersOf(i) : x = y
                   PROVE  i \in db'.applied \union db'.journal
      BY <1>14 DEF CommandRecoverable, SendersOf
    <2>2. i \in db.events /\ i \in d.events
      BY <1>1, <1>11, <1>16
    <2>3. i \in db.applied \union db.journal
      BY <2>1, <2>2 DEF RoleInv, CommandRecoverable
    <2> QED BY <1>11, <1>16, <1>17, <2>2, <2>3
  <1>22. \A c \in Conns : Held(c)'
    BY <1>0, <1>14 DEF Held
  <1> QED BY <1>14, <1>19, <1>20, <1>21, <1>22 DEF RoleInv

\* The steps of the process.
LEMMA ProcessMove ==
  ASSUME IntakeTypes, RoleInv, PersistRoles \/ ClockTick \/ Crash \/ Stop
  PROVE  RoleInv'
  <1>0. DbType(db) /\ role = [a \in Authors |-> role[a]] /\ menu' = menu /\ DbFields \subseteq DOMAIN db
    BY DEF RoleInv, RoleTypes, DbType, PersistRoles, ClockTick, Crash, Stop
  <1>1. DbType(db') /\ db'.events = db.events /\ db'.applied = db.applied /\ db'.journal = db.journal /\ db'.vanished = db.vanished
    <2>1. CASE db' = db
      BY <1>0, <2>1
    <2>2. CASE db' # db
      <3>1. db' = Changed(db, "role", role) \/ \E X : db' = Changed(db, "pending", X)
        BY <2>2 DEF PersistRoles, ClockTick, Crash, Stop, Changed
      <3>2. CASE db' = Changed(db, "role", role)
        <4>1. DbType(db') /\ \A g \in DbFields \ {"role"} : db'[g] = db[g]
          BY <1>0, <3>2, DbRole
        <4> QED BY <4>1 DEF DbFields
      <3>3. ASSUME NEW X, db' = Changed(db, "pending", X) PROVE DbType(db') /\ db'.events = db.events /\ db'.applied = db.applied /\ db'.journal = db.journal /\ db'.vanished = db.vanished
        <4>1. DbType(db') /\ \A g \in DbFields \ {"pending"} : db'[g] = db[g]
          BY <1>0, <3>3, DbSet DEF Loose
        <4> QED BY <4>1 DEF DbFields
      <3> QED BY <3>1, <3>2, <3>3
    <2> QED BY <2>1, <2>2
  <1>2. role' = role \/ role' = RestoredRole(db)
    BY DEF PersistRoles, ClockTick, Crash, Stop
  <1>3. RestoredRole(db) = [a \in Authors |-> RestoredRole(db)[a]] /\ \A a \in db.vanished : RestoredRole(db)[a] = "none"
    BY <1>0, RestoredIs
  <1>4. RoleTypes'
    BY <1>0, <1>1, <1>2, <1>3 DEF RoleTypes
  <1>5. CommandRecoverable'
    BY <1>0, <1>1 DEF RoleInv, CommandRecoverable, SendersOf
  <1>6. CASE Crash
    <2>1. \A c \in Conns : conn'[c] = IdleConn
      BY <1>6 DEF Crash
    <2>2. IdleConn.at = "idle"
      BY DEF IdleConn
    <2>3. \A c \in Conns : conn'[c].at = "idle"
      BY <2>1, <2>2
    <2>4. role' = RestoredRole(db)
      BY <1>6 DEF Crash
    <2>5. VanishedNotMember'
      BY <1>1, <1>3, <2>4 DEF VanishedNotMember
    <2>6. \A c \in Conns : Held(c)'
      BY <2>3 DEF Held
    <2> QED BY <1>4, <1>5, <2>3, <2>5, <2>6 DEF RoleInv
  <1>7. CASE Stop
    <2>1. conn' = conn /\ (\A c \in Conns : conn[c].at = "idle") /\ role' = RestoredRole(db)
      BY <1>7 DEF Stop
    <2>5. VanishedNotMember'
      BY <1>1, <1>3, <2>1 DEF VanishedNotMember
    <2>6. \A c \in Conns : Held(c)'
      BY <2>1 DEF Held
    <2> QED BY <1>4, <1>5, <2>1, <2>5, <2>6 DEF RoleInv
  <1>8. CASE PersistRoles \/ ClockTick
    <2>1. conn' = conn /\ up' = up /\ role' = role
      BY <1>8 DEF PersistRoles, ClockTick
    <2>5. VanishedNotMember'
      BY <1>1, <2>1 DEF RoleInv, VanishedNotMember, Busy, E
    <2>6. \A c \in Conns : Held(c)'
      <3> TAKE c \in Conns
      <3>1. Held(c)
        BY DEF RoleInv
      <3>2. E(c)' = E(c) /\ \A i : Single(i)' = Single(i)
        BY <1>0, <2>1 DEF E, Single, SendersOf
      <3>3. Single(E(c).id)' = Single(E(c).id)
        BY <3>2
      <3> QED BY <1>0, <1>1, <2>1, <3>1, <3>2, <3>3 DEF Held
    <2> QED BY <1>4, <1>5, <2>1, <2>5, <2>6 DEF RoleInv
  <1> QED BY <1>6, <1>7, <1>8

\* Every step keeps the invariant.
LEMMA RoleStep ==
  ASSUME IntakeTypes, RoleInv, [IntakeNext]_ivars
  PROVE  RoleInv'
  <1>1. CASE UNCHANGED ivars
    <2>1. conn' = conn /\ db' = db /\ role' = role /\ up' = up /\ menu' = menu
      BY <1>1 DEF ivars
    <2>2. \A c \in Conns : E(c)' = E(c)
      BY <2>1 DEF E
    <2>3. \A i : Single(i)' = Single(i)
      BY <2>1 DEF Single, SendersOf
    <2>4. RoleTypes' /\ VanishedNotMember' /\ CommandRecoverable'
      BY <2>1, <2>2 DEF RoleInv, RoleTypes, VanishedNotMember, CommandRecoverable, Busy, E, SendersOf
    <2>5. \A c \in Conns : Held(c)'
      <3> TAKE c \in Conns
      <3>1. Held(c)
        BY DEF RoleInv
      <3>3. Single(E(c).id)' = Single(E(c).id)
        BY <2>2, <2>3
      <3> QED BY <2>1, <2>2, <3>1, <3>3 DEF Held
    <2> QED BY <2>1, <2>4, <2>5 DEF RoleInv
  <1>2. ASSUME NEW c \in Conns, Step(c) PROVE RoleInv'
    <2>1. RoleTypes /\ VanishedNotMember /\ CommandRecoverable /\ \A x \in Conns : Held(x)
      BY DEF RoleInv
    <2>2. Held(c)
      BY <2>1
    <2>3. RoleTypes'
      BY <1>2, <2>1, <2>2, StepMove
    <2>4. CommandRecoverable' /\ \A x \in Conns : Held(x)'
      BY <1>2, <2>1, CommandStep
    <2>5. VanishedNotMember'
      BY <1>2, <2>1, <2>2, VanishStep
    <2>6. up' = up
      BY <1>2 DEF Step, AcceptBatchBegin, Route, RunCheck, RunCommit, RunAfter, HoldDrain, HoldRecord, HoldMerge, Check,
           AdmitMember, AdmitRecheck, VanishMark, VanishRoles, Gate, Mark, Put, Effect, Undo, ClearPending
    <2>7. up \/ conn[c].at # "idle"
      BY <1>2 DEF Step, AcceptBatchBegin, Route, RunCheck, RunCommit, RunAfter, HoldDrain, HoldRecord, HoldMerge, Check,
           AdmitMember, AdmitRecheck, VanishMark, VanishRoles, Gate, Mark, Put, Effect, Undo, ClearPending
    <2>8. up
      BY <2>7 DEF RoleInv
    <2> QED BY <2>3, <2>4, <2>5, <2>6, <2>8 DEF RoleInv
  <1> QED BY <1>1, <1>2, RecoverMove, ProcessMove DEF IntakeNext

\* VanishedNotMember holds for every number of connections and authors, however requests, admissions and commands interleave.
THEOREM VanishCorrect == IntakeSpec => []VanishedNotMember
  <1>1. IntakeInit => RoleInv
    BY InitRoles
  <1>2. IntakeTypes /\ RoleInv /\ [IntakeNext]_ivars => RoleInv'
    BY RoleStep
  <1>3. RoleInv => VanishedNotMember
    BY DEF RoleInv
  <1> QED BY <1>1, <1>2, <1>3, TypesHold, PTL DEF IntakeSpec

\* CommandRecoverable holds for every number of connections and commands, whatever fails or stops between two steps.
THEOREM CommandsRecoverable == IntakeSpec => []CommandRecoverable
  <1>1. IntakeInit => RoleInv
    BY InitRoles
  <1>2. IntakeTypes /\ RoleInv /\ [IntakeNext]_ivars => RoleInv'
    BY RoleStep
  <1>3. RoleInv => CommandRecoverable
    BY DEF RoleInv
  <1> QED BY <1>1, <1>2, <1>3, TypesHold, PTL DEF IntakeSpec

-----------------------------------------------------------------------------
(* The answers *)

\* The classes of which a yes promises that the event was committed.
Promised == {"note", "delete", "chat", "member", "icon"}

\* The event was committed once: it is stored, was deleted, or its author vanished.  No put can store it again.
Recorded(i) == i \in db.events \union db.deleted \/ menu.event[i].author \in db.vanished

\* The k-th event of a task's batch has a yes, or its put was accepted and its effect is under way.
Yes(T, k) ==
    /\ T.at # "idle" /\ k \in DOMAIN T.batch /\ T.batch[k].cls \in Promised
    /\ (T.slots[k] # Unset /\ T.slots[k].ans = "stored") \/ (T.at \in {"effect", "undo", "clear"} /\ k = T.i)

\* Connection c claims the k-th event of its n-th batch: it answered yes, or is about to.
Claim(c, n, k) ==
    \/ n \in DOMAIN answered[c] /\ k \in DOMAIN answered[c][n] /\ answered[c][n][k].ans = "stored" /\ menu.send[c][n][k].cls \in Promised
    \/ n = Len(answered[c]) + 1 /\ Yes(conn[c], k)

SentId(c, n, k) == menu.send[c][n][k].id

\* A claim is of a committed event, and nobody else claims it.
Claims ==
    \A c \in Conns : \A n, k : Claim(c, n, k) =>
       /\ Recorded(SentId(c, n, k))
       /\ \A d \in Conns : \A m, j : Claim(d, m, j) /\ SentId(d, m, j) = SentId(c, n, k) => c = d /\ n = m /\ k = j

\* The answers of a task are those of its events, and every event that was routed has an answer, is in the run or is queued.
Named(T) == \A k \in DOMAIN T.batch : T.slots[k] # Unset => T.slots[k].id = T.batch[k].id
Covered(T) ==
    \A k \in DOMAIN T.batch : k < T.i => T.slots[k] # Unset \/ k \in ToSet(T.run) \/ (T.at = "queued" /\ k \in ToSet(T.puts))

\* What a task of c is doing: its next batch.
Doing(c) ==
    conn[c].at # "idle" =>
       /\ Len(answered[c]) + 1 \in DOMAIN menu.send[c] /\ conn[c].batch = menu.send[c][Len(answered[c]) + 1]
       /\ Named(conn[c]) /\ Covered(conn[c])
       /\ conn[c].at \in {"vanish", "unrole"} => E(c).cls = "vanish"

\* The batches that were answered.
Past(c) ==
    \A n \in DOMAIN answered[c] : answered[c][n] # <<>> =>
       /\ n \in DOMAIN menu.send[c] /\ Len(answered[c][n]) = Len(menu.send[c][n])
       /\ \A k \in DOMAIN answered[c][n] : answered[c][n][k] # Unset /\ answered[c][n][k].id = menu.send[c][n][k].id

MarksOK == \A i \in db.marks : menu.event[i].cls \in GroupActions

AnswerInv == MarksOK /\ Claims /\ \A c \in Conns : Doing(c) /\ Past(c)

\* What a step does to a store whose events, deletions, keys and marks it only adds to.
LEMMA KeptRecord ==
  ASSUME MarksOK, menu' = menu, db.deleted \subseteq db'.deleted, db.vanished \subseteq db'.vanished, db'.marks \subseteq db.marks,
         \A i \in db.events : i \in db'.events \union db'.deleted \/ menu.event[i].author \in db'.vanished
  PROVE  MarksOK' /\ \A i : Recorded(i) => Recorded(i)'
  BY DEF MarksOK, Recorded

\* A recorded event stays so, but for the one that is taken back.
LEMMA StepRecord ==
  ASSUME IntakeTypes, RoleTypes, MarksOK, NEW c \in Conns, Step(c)
  PROVE  MarksOK' /\ \A i : Recorded(i) /\ (Undo(c) => i # E(c).id) => Recorded(i)'
  <1>0. DbType(db) /\ DbFields \subseteq DOMAIN db /\ menu \in Menus /\ Tasks /\ menu' = menu
    BY OthersSame DEF RoleTypes, IntakeTypes, DbType
  <1>1. CASE db' = db
    BY <1>0, <1>1, KeptRecord
  <1>2. CASE RunCommit(c)
    <2>1. PICK T : T = conn[c]
      OBVIOUS
    <2>2. Task(c, T) /\ T.puts \in Seq(Plain(T.batch))
      BY <1>0, <2>1 DEF Tasks, Task
    <2>3. CASE db' = db
      BY <1>1, <2>3
    <2>4. CASE db' = Committed(T, db)[Len(T.puts)]
      <3>1. Len(T.puts) \in 0..Len(T.puts)
        BY <2>2, LenProperties
      <3>2. SameDb(db, db') /\ db.events \subseteq db'.events
        BY <1>0, <2>2, <2>4, <3>1, CommittedIs
      <3> QED BY <1>0, <3>2, KeptRecord DEF SameDb
    <2> QED BY <1>2, <2>1, <2>3, <2>4 DEF RunCommit
  <1>3. CASE RunAfter(c) /\ db' # db
    <2>1. PICK i : db' = [db EXCEPT !.events = @ \ {i}, !.deleted = @ \union {i}]
      BY <1>3 DEF RunAfter
    <2>2. db'.events = db.events \ {i} /\ db'.deleted = db.deleted \union {i} /\ db'.vanished = db.vanished /\ db'.marks = db.marks
      BY <1>0, <2>1 DEF DbFields
    <2> QED BY <1>0, <2>2, KeptRecord
  <1>4. CASE HoldRecord(c) /\ db' # db
    <2>1. db'.events = db.events /\ db'.deleted = db.deleted /\ db'.vanished = db.vanished /\ db'.marks = db.marks
      BY <1>0, <1>4 DEF HoldRecord, DbFields
    <2> QED BY <1>0, <2>1, KeptRecord
  <1>5. CASE VanishMark(c) /\ db' # db
    <2>1. db' = [db EXCEPT !.vanished = @ \union {E(c).author}, !.events = {i \in @ : menu.event[i].author # E(c).author}]
      BY <1>5 DEF VanishMark
    <2>2. PICK X : X = {i \in db.events : menu.event[i].author # E(c).author}
      OBVIOUS
    <2>3. db'.events = X /\ db'.vanished = db.vanished \union {E(c).author} /\ db'.deleted = db.deleted /\ db'.marks = db.marks
      BY <1>0, <2>1, <2>2 DEF DbFields
    <2> QED BY <1>0, <2>2, <2>3, KeptRecord
  <1>6. CASE Mark(c) /\ db' # db
    <2>1. \/ E(c).cls \in Durable /\ db' = [db EXCEPT !.journal = @ \union {E(c).id}]
          \/ E(c).cls \in GroupActions /\ db' = [db EXCEPT !.marks = @ \union {E(c).id}]
      <3>1. CASE E(c).cls \in Durable
        BY <1>6, <3>1 DEF Mark
      <3>2. CASE E(c).cls \notin Durable
        BY <1>6, <3>2 DEF Mark
      <3> QED BY <3>1, <3>2
    <2>2. CASE E(c).cls \in Durable /\ db' = [db EXCEPT !.journal = @ \union {E(c).id}]
      <3>1. db'.events = db.events /\ db'.deleted = db.deleted /\ db'.vanished = db.vanished /\ db'.marks = db.marks
        BY <1>0, <2>2 DEF DbFields
      <3> QED BY <1>0, <3>1, KeptRecord
    <2>3. CASE E(c).cls \in GroupActions /\ db' = [db EXCEPT !.marks = @ \union {E(c).id}]
      <3>1. db'.events = db.events /\ db'.deleted = db.deleted /\ db'.vanished = db.vanished /\ db'.marks = db.marks \union {E(c).id}
        BY <1>0, <2>3 DEF DbFields
      <3>2. menu.event[E(c).id] = E(c)
        BY <1>0, <1>6, EventIs DEF Mark, Solo
      <3>3. MarksOK'
        BY <1>0, <2>3, <3>1, <3>2 DEF MarksOK
      <3> QED BY <1>0, <3>1, <3>3 DEF Recorded
    <2> QED BY <2>1, <2>2, <2>3
  <1>7. CASE Put(c) /\ db' # db
    <2>1. PICK e \in SentEvent : e = E(c) /\ conn[c].t \in Nat
      BY <1>0, <1>7, EventIs DEF Put, Solo
    <2>2. db' = Stored(db, e, conn[c].t) \/ db' = Unmark(db, e)
      BY <1>7, <2>1 DEF Put
    <2>3. CASE db' = Stored(db, e, conn[c].t)
      <3>1. SameDb(db, db') /\ db.events \subseteq db'.events
        BY <1>0, <2>1, <2>3, StoredIs
      <3> QED BY <1>0, <3>1, KeptRecord DEF SameDb
    <2>4. CASE db' = Unmark(db, e)
      <3>1. db'.events = db.events /\ db'.deleted = db.deleted /\ db'.vanished = db.vanished /\ db'.marks \subseteq db.marks
        BY <1>0, <2>4, UnmarkIs
      <3> QED BY <1>0, <3>1, KeptRecord
    <2> QED BY <2>2, <2>3, <2>4
  <1>8. CASE ClearPending(c) /\ db' # db
    <2>1. PICK e : e = E(c)
      OBVIOUS
    <2>2. db' = Unmark(db, e)
      BY <1>8, <2>1 DEF ClearPending
    <2>3. db'.events = db.events /\ db'.deleted = db.deleted /\ db'.vanished = db.vanished /\ db'.marks \subseteq db.marks
      BY <1>0, <2>2, UnmarkIs
    <2> QED BY <1>0, <2>3, KeptRecord
  <1>9. CASE Undo(c) /\ db' # db
    <2>1. PICK e : e = E(c)
      OBVIOUS
    <2>2. PICK d : d = [db EXCEPT !.events = @ \ {e.id}]
      OBVIOUS
    <2>3. d.events = db.events \ {e.id} /\ d.deleted = db.deleted /\ d.vanished = db.vanished /\ d.marks = db.marks
      BY <1>0, <2>2 DEF DbFields
    <2>4. DbType(d)
      <3>1. PICK X : X = db.events \ {e.id}
        OBVIOUS
      <3>2. d = Changed(db, "events", X)
        BY <1>0, <2>2, <3>1 DEF Changed, DbFields
      <3> QED BY <1>0, <3>2, DbSet DEF Loose
    <2>5. db' = d \/ db' = Unmark(d, e)
      BY <1>9, <2>1, <2>2 DEF Undo
    <2>6. db'.events = d.events /\ db'.deleted = d.deleted /\ db'.vanished = d.vanished /\ db'.marks \subseteq d.marks
      <3>1. CASE db' = d
        BY <3>1
      <3>2. CASE db' = Unmark(d, e)
        BY <2>4, <3>2, UnmarkIs
      <3> QED BY <2>5, <3>1, <3>2
    <2> QED BY <1>0, <1>9, <2>1, <2>3, <2>6 DEF MarksOK, Recorded
  <1>10. CASE Effect(c) /\ db' # db
    <2>1. PICK e : e = E(c)
      OBVIOUS
    <2>2. \/ \E r : db' = [db EXCEPT !.role = r, !.applied = @ \union {e.id}]
          \/ db' = [db EXCEPT !.applied = @ \union {e.id}]
          \/ db' = Executed(db, e)
      BY <1>10, <2>1 DEF Effect
    <2>3. db'.events = db.events /\ db'.deleted = db.deleted /\ db'.vanished = db.vanished /\ db'.marks = db.marks
      BY <1>0, <2>2 DEF Executed, DbFields
    <2> QED BY <1>0, <2>3, KeptRecord
  <1>11. \/ db' = db \/ RunCommit(c) \/ RunAfter(c) \/ HoldRecord(c) \/ VanishMark(c) \/ Mark(c) \/ Put(c) \/ ClearPending(c)
         \/ Undo(c) \/ Effect(c)
    BY DEF Step, AcceptBatchBegin, Route, RunCheck, HoldDrain, HoldMerge, Check, AdmitMember, AdmitRecheck, VanishRoles, Gate
  <1> QED BY <1>1, <1>2, <1>3, <1>4, <1>5, <1>6, <1>7, <1>8, <1>9, <1>10, <1>11

\* The event of a claim.
LEMMA ClaimEvent ==
  ASSUME IntakeTypes, NEW c \in Conns, Doing(c), Past(c), NEW n, NEW k, Claim(c, n, k)
  PROVE  menu.event[SentId(c, n, k)] = menu.send[c][n][k] /\ menu.send[c][n][k].cls \in Promised
  <1>0. menu \in Menus /\ Tasks /\ answered \in [Conns -> Seq(Seq(Answer))]
    BY DEF IntakeTypes
  <1>1. SUFFICES n \in DOMAIN menu.send[c] /\ k \in DOMAIN menu.send[c][n] /\ menu.send[c][n][k].cls \in Promised
    BY <1>0, MenuType DEF SentId
  <1>2. CASE n \in DOMAIN answered[c] /\ k \in DOMAIN answered[c][n] /\ answered[c][n][k].ans = "stored" /\ menu.send[c][n][k].cls \in Promised
    <2>1. PICK A : A = Seq(Answer)
      OBVIOUS
    <2>2. answered[c] \in Seq(A)
      BY <1>0, <2>1
    <2>3. answered[c][n] \in A
      BY <1>2, <2>2, LenProperties, ElementOfSeq
    <2>4. PICK s \in Seq(Answer) : s = answered[c][n]
      BY <2>1, <2>3
    <2>5. s # <<>> /\ DOMAIN s = 1..Len(s) /\ Len(s) \in Nat
      BY <1>2, <2>4, LenProperties, EmptySeq
    <2>6. n \in DOMAIN menu.send[c] /\ Len(s) = Len(menu.send[c][n])
      BY <1>2, <2>4, <2>5 DEF Past
    <2>7. menu.send[c][n] \in Seq(SentEvent)
      <3>1. PICK B : B = Seq(SentEvent)
        OBVIOUS
      <3>2. menu.send[c] \in Seq(B)
        BY <1>0, <3>1, MenuType
      <3> QED BY <2>6, <3>1, <3>2, LenProperties, ElementOfSeq
    <2>8. k \in DOMAIN menu.send[c][n]
      BY <1>2, <2>4, <2>5, <2>6, <2>7, LenProperties
    <2> QED BY <1>2, <2>6, <2>8
  <1>3. CASE n = Len(answered[c]) + 1 /\ Yes(conn[c], k)
    BY <1>3 DEF Yes, Doing
  <1> QED BY <1>2, <1>3 DEF Claim

\* The claims after a step of c: old ones of what stays recorded, and new ones of what was not recorded before.
LEMMA ClaimStep ==
  ASSUME Claims, menu' = menu, NEW c \in Conns,
         \A d \in Conns \ {c} : conn'[d] = conn[d] /\ answered'[d] = answered[d],
         \A n, k : Claim(c, n, k)' => Recorded(SentId(c, n, k))' /\ (Claim(c, n, k) \/ ~Recorded(SentId(c, n, k))),
         \A n, k, m, j : Claim(c, n, k)' /\ Claim(c, m, j)' /\ SentId(c, n, k) = SentId(c, m, j) /\ ~Recorded(SentId(c, n, k)) => n = m /\ k = j,
         \A d \in Conns \ {c} : \A n, k : Claim(d, n, k) => Recorded(SentId(d, n, k))'
  PROVE  Claims'
  <1>1. \A d, n, k : SentId(d, n, k)' = SentId(d, n, k)
    BY DEF SentId
  <1>2. \A d \in Conns \ {c} : \A n, k : Claim(d, n, k)' <=> Claim(d, n, k)
    BY DEF Claim, Yes
  <1>3. \A d \in Conns : \A n, k : Claim(d, n, k)' => Recorded(SentId(d, n, k))' /\ (Claim(d, n, k) \/ (d = c /\ ~Recorded(SentId(d, n, k))))
    BY <1>2
  <1>4. \A d \in Conns : \A n, k : Claim(d, n, k) => Recorded(SentId(d, n, k))
    BY DEF Claims
  <1>5. \A x, y \in Conns : \A n, k, m, j : Claim(x, n, k) /\ Claim(y, m, j) /\ SentId(y, m, j) = SentId(x, n, k) => x = y /\ n = m /\ k = j
    BY DEF Claims
  <1>6. ASSUME NEW x \in Conns, NEW y \in Conns, NEW n, NEW k, NEW m, NEW j, Claim(x, n, k)', Claim(y, m, j)', SentId(y, m, j) = SentId(x, n, k)
        PROVE  x = y /\ n = m /\ k = j
    <2>1. CASE Recorded(SentId(x, n, k))
      <3>1. Claim(x, n, k) /\ Claim(y, m, j)
        BY <1>3, <1>6, <2>1
      <3> QED BY <1>5, <1>6, <3>1
    <2>2. CASE ~Recorded(SentId(x, n, k))
      <3>1. x = c /\ y = c
        BY <1>3, <1>4, <1>6, <2>2
      <3>2. Claim(c, n, k)' /\ Claim(c, m, j)' /\ SentId(c, n, k) = SentId(c, m, j) /\ ~Recorded(SentId(c, n, k))
        BY <1>6, <2>2, <3>1
      <3> QED BY <3>1, <3>2
    <2> QED BY <2>1, <2>2
  <1> QED BY <1>1, <1>3, <1>6 DEF Claims

\* The same of a step that claims nothing new.
LEMMA QuietClaims ==
  ASSUME Claims, menu' = menu, NEW c \in Conns,
         \A d \in Conns \ {c} : conn'[d] = conn[d] /\ answered'[d] = answered[d],
         \A n, k : Claim(c, n, k)' => Claim(c, n, k),
         \A d \in Conns : \A n, k : Claim(d, n, k) /\ Claim(d, n, k)' => Recorded(SentId(d, n, k))'
  PROVE  Claims'
  <1>1. \A n, k : Claim(c, n, k)' => Recorded(SentId(c, n, k))' /\ (Claim(c, n, k) \/ ~Recorded(SentId(c, n, k)))
    OBVIOUS
  <1>2. \A n, k, m, j : Claim(c, n, k)' /\ Claim(c, m, j)' /\ SentId(c, n, k) = SentId(c, m, j) /\ ~Recorded(SentId(c, n, k)) => n = m /\ k = j
    BY DEF Claims
  <1>3. \A d \in Conns \ {c} : \A n, k : Claim(d, n, k) => Recorded(SentId(d, n, k))'
    <2>1. \A d \in Conns \ {c} : \A n, k : Claim(d, n, k)' <=> Claim(d, n, k)
      BY DEF Claim, Yes
    <2> QED BY <2>1
  <1> QED BY <1>1, <1>2, <1>3, ClaimStep

\* What a step of c answers when the batch goes on and nothing new is claimed.
LEMMA QuietYes ==
  ASSUME menu' = menu, NEW c \in Conns, answered'[c] = answered[c], \A k : Yes(conn'[c], k) => Yes(conn[c], k)
  PROVE  \A n, k : Claim(c, n, k)' => Claim(c, n, k)
  <1>1. \A k : Yes(conn[c], k)' <=> Yes(conn'[c], k)
    BY DEF Yes
  <1> QED BY <1>1 DEF Claim

\* A task that keeps its batch.
LEMMA DoingOn ==
  ASSUME NEW c \in Conns, Doing(c), menu' = menu, answered'[c] = answered[c], conn[c].at # "idle", conn'[c].batch = conn[c].batch,
         Named(conn'[c]), Covered(conn'[c]), conn'[c].at \in {"vanish", "unrole"} => conn'[c].batch[conn'[c].i].cls = "vanish"
  PROVE  Doing(c)'
  <1>1. Named(conn[c])' /\ Covered(conn[c])'
    BY DEF Named, Covered
  <1>2. E(c)' = conn'[c].batch[conn'[c].i]
    BY DEF E
  <1> QED BY <1>1, <1>2 DEF Doing

\* The batches that were answered stay so.
LEMMA PastOn ==
  ASSUME NEW c \in Conns, Past(c), menu' = menu, answered'[c] = answered[c]
  PROVE  Past(c)'
  BY DEF Past

\* A task that goes on.
LEMMA GoDoing ==
  ASSUME IntakeTypes, NEW c \in Conns, Doing(c), menu' = menu, answered' = answered, NEW s, Go(c, s), s # "queued",
         conn[c].at \notin {"idle", "queued"}, s \in {"vanish", "unrole"} => E(c).cls = "vanish"
  PROVE  Doing(c)' /\ conn'[c].i = conn[c].i /\ conn'[c].batch = conn[c].batch /\ conn'[c].slots = conn[c].slots /\ conn'[c].at = s
  <1>1. TaskFields \subseteq DOMAIN conn[c] /\ DOMAIN conn = Conns
    BY DEF Tasks, Task, IntakeTypes
  <1>2. conn'[c] = [conn[c] EXCEPT !.at = s]
    BY <1>1 DEF Go
  <1>3. /\ conn'[c].at = s /\ conn'[c].i = conn[c].i /\ conn'[c].batch = conn[c].batch /\ conn'[c].run = conn[c].run
        /\ conn'[c].slots = conn[c].slots /\ conn'[c].puts = conn[c].puts
    BY <1>1, <1>2 DEF TaskFields
  <1>4. Named(conn'[c]) /\ Covered(conn'[c])
    BY <1>3 DEF Doing, Named, Covered
  <1> QED BY <1>3, <1>4, DoingOn DEF E

\* A task that gives an answer.
LEMMA SettleDoing ==
  ASSUME IntakeTypes, NEW c \in Conns, Doing(c), menu' = menu, answered' = answered, NEW a \in Said, Settle(c, a),
         conn[c].at \notin {"idle", "queued"}, conn[c].i \in DOMAIN conn[c].batch
  PROVE  /\ Doing(c)' /\ conn'[c].i = conn[c].i + 1 /\ conn'[c].batch = conn[c].batch /\ conn'[c].at = "route"
         /\ \A k \in DOMAIN conn[c].batch : /\ k # conn[c].i => conn'[c].slots[k] = conn[c].slots[k]
                                            /\ k = conn[c].i => conn'[c].slots[k].ans = a
  <1>1. Task(c, conn[c]) /\ DOMAIN conn = Conns /\ menu \in Menus
    BY DEF Tasks, IntakeTypes
  <1>2. PICK T : T = conn[c]
    OBVIOUS
  <1>3. TaskFields \subseteq DOMAIN T /\ T.i \in Nat \ {0} /\ T.slots \in [DOMAIN T.batch -> Answer] /\ T.i \in DOMAIN T.batch
    BY <1>1, <1>2 DEF Task
  <1>4. PICK U : U = Finished(T, a)
    OBVIOUS
  <1>5. conn'[c] = U
    BY <1>1, <1>2, <1>4 DEF Settle
  <1>6. PICK x : x = [id |-> T.batch[T.i].id, ans |-> a]
    OBVIOUS
  <1>7. PICK S : S = [T.slots EXCEPT ![T.i] = x]
    OBVIOUS
  <1>8. U.slots = S /\ U.i = T.i + 1 /\ U.at = "route" /\ U.batch = T.batch /\ U.run = T.run
    BY <1>3, <1>4, <1>6, <1>7 DEF Finished, TaskFields
  <1>9. x.id = T.batch[T.i].id /\ x.ans = a /\ x # Unset
    <2>1. T.batch[T.i].id \in Nat
      BY <1>1, <1>2, <1>3, BatchIs DEF SentEvent
    <2> QED BY <1>6, <2>1, NoAnswer
  <1>10. S[T.i] = x /\ \A k \in DOMAIN T.batch : k # T.i => S[k] = T.slots[k]
    BY <1>3, <1>7
  <1>11. DOMAIN T.batch \subseteq Nat
    BY <1>1, <1>2, SlotsSeq
  <1>12. Named(U)
    BY <1>2, <1>8, <1>9, <1>10 DEF Doing, Named
  <1>13. Covered(U)
    <2> SUFFICES ASSUME NEW k \in DOMAIN T.batch, k < T.i + 1
                 PROVE  S[k] # Unset \/ k \in ToSet(T.run)
      BY <1>8 DEF Covered
    <2>1. CASE k = T.i
      BY <1>9, <1>10, <2>1
    <2>2. CASE k # T.i
      <3>1. k < T.i
        BY <1>3, <1>11, <2>2
      <3>2. Covered(T) /\ T.at # "queued"
        BY <1>2 DEF Doing
      <3> QED BY <1>10, <2>2, <3>1, <3>2 DEF Covered
    <2> QED BY <2>1, <2>2
  <1>14. Doing(c)'
    BY <1>2, <1>5, <1>8, <1>12, <1>13, DoingOn
  <1> QED BY <1>2, <1>5, <1>8, <1>9, <1>10, <1>14

Effecting == {"effect", "undo", "clear"}

\* Only the end of a batch changes the answers, and only those of its connection.
LEMMA AnsweredSame ==
  ASSUME IntakeTypes, NEW c \in Conns, Step(c)
  PROVE  (Route(c) \/ answered' = answered) /\ \A d \in Conns \ {c} : answered'[d] = answered[d]
  <1>1. Route(c) \/ answered' = answered
    BY DEF Step, AcceptBatchBegin, RunCheck, RunCommit, RunAfter, HoldDrain, HoldRecord, HoldMerge, Check,
           AdmitMember, AdmitRecheck, VanishMark, VanishRoles, Gate, Mark, Put, Effect, Undo, ClearPending
  <1>2. Route(c) => answered' = answered \/ \E s : answered' = [answered EXCEPT ![c] = Append(@, s)]
    BY DEF Route
  <1>3. answered \in [Conns -> Seq(Seq(Answer))]
    BY DEF IntakeTypes
  <1>4. \A d \in Conns \ {c} : answered'[d] = answered[d]
    BY <1>1, <1>2, <1>3
  <1> QED BY <1>1, <1>4

\* What is claimed stays recorded.
LEMMA KeepRecorded ==
  ASSUME IntakeTypes, RoleTypes, AnswerInv, NEW c \in Conns, Step(c), ~Undo(c)
  PROVE  \A d \in Conns : \A n, k : Claim(d, n, k) => Recorded(SentId(d, n, k))'
  <1>1. \A i : Recorded(i) => Recorded(i)'
    BY StepRecord DEF AnswerInv
  <1>2. menu' = menu
    BY OthersSame DEF IntakeTypes
  <1>3. \A d, n, k : SentId(d, n, k)' = SentId(d, n, k)
    BY <1>2 DEF SentId
  <1>4. \A d \in Conns : \A n, k : Claim(d, n, k) => Recorded(SentId(d, n, k))
    BY DEF AnswerInv, Claims
  <1> TAKE d \in Conns
  <1> TAKE n, k
  <1> HAVE Claim(d, n, k)
  <1>5. PICK i : i = SentId(d, n, k)
    OBVIOUS
  <1>6. Recorded(i)'
    BY <1>1, <1>4, <1>5
  <1> QED BY <1>3, <1>5, <1>6 DEF Recorded

AnswerStep(c) == Claims' /\ Doing(c)' /\ Past(c)'

\* An answer of a single event that promises nothing new.
LEMMA SettleAnswers ==
  ASSUME IntakeTypes, RoleTypes, AnswerInv, NEW c \in Conns, Step(c), ~Undo(c), conn[c].at \in Solo, answered' = answered,
         NEW a \in Said, Settle(c, a), a = "stored" => E(c).cls \notin Promised \/ conn[c].at \in Effecting
  PROVE  AnswerStep(c)
  <1>0. Doing(c) /\ Past(c) /\ Claims /\ menu' = menu /\ Tasks /\ \A d \in Conns \ {c} : conn'[d] = conn[d]
    BY OthersSame DEF AnswerInv, IntakeTypes
  <1>1. conn[c].i \in DOMAIN conn[c].batch /\ conn[c].at \notin {"idle", "queued"} /\ conn[c].at # "route"
    BY <1>0 DEF Tasks, Task, Solo
  <1>2. /\ Doing(c)' /\ conn'[c].batch = conn[c].batch /\ conn'[c].at = "route"
        /\ \A k \in DOMAIN conn[c].batch : /\ k # conn[c].i => conn'[c].slots[k] = conn[c].slots[k]
                                           /\ k = conn[c].i => conn'[c].slots[k].ans = a
    BY <1>0, <1>1, SettleDoing
  <1>3. \A k : Yes(conn'[c], k) => Yes(conn[c], k)
    <2> TAKE k
    <2> HAVE Yes(conn'[c], k)
    <2>1. k \in DOMAIN conn[c].batch /\ conn[c].batch[k].cls \in Promised /\ conn'[c].slots[k] # Unset /\ conn'[c].slots[k].ans = "stored"
      BY <1>2 DEF Yes
    <2>2. CASE k = conn[c].i
      BY <1>1, <1>2, <2>1, <2>2 DEF Yes, Effecting, E
    <2>3. CASE k # conn[c].i
      BY <1>1, <1>2, <2>1, <2>3 DEF Yes
    <2> QED BY <2>2, <2>3
  <1>4. \A n, k : Claim(c, n, k)' => Claim(c, n, k)
    BY <1>0, <1>3, QuietYes
  <1>5. Claims'
    BY <1>0, <1>4, KeepRecorded, QuietClaims
  <1>6. Past(c)'
    BY <1>0, PastOn
  <1> QED BY <1>2, <1>5, <1>6 DEF AnswerStep

\* A task goes on and promises nothing new.
LEMMA GoAnswers ==
  ASSUME IntakeTypes, RoleTypes, AnswerInv, NEW c \in Conns, Step(c), ~Undo(c), conn[c].at \notin {"idle", "queued"}, answered' = answered,
         NEW s, Go(c, s), s \notin {"queued", "idle"}, s \in {"vanish", "unrole"} => E(c).cls = "vanish",
         s \in Effecting => conn[c].at \in Effecting \/ E(c).cls \notin Promised
  PROVE  AnswerStep(c)
  <1>0. Doing(c) /\ Past(c) /\ Claims /\ menu' = menu /\ Tasks /\ \A d \in Conns \ {c} : conn'[d] = conn[d]
    BY OthersSame DEF AnswerInv, IntakeTypes
  <1>2. /\ Doing(c)' /\ conn'[c].batch = conn[c].batch /\ conn'[c].at = s /\ conn'[c].i = conn[c].i /\ conn'[c].slots = conn[c].slots
    BY <1>0, GoDoing
  <1>3. \A k : Yes(conn'[c], k) => Yes(conn[c], k)
    BY <1>2 DEF Yes, Effecting, E
  <1>4. \A n, k : Claim(c, n, k)' => Claim(c, n, k)
    BY <1>0, <1>3, QuietYes
  <1>5. Claims'
    BY <1>0, <1>4, KeepRecorded, QuietClaims
  <1>6. Past(c)'
    BY <1>0, PastOn
  <1> QED BY <1>2, <1>5, <1>6 DEF AnswerStep

\* The single events, but for their put and its undoing.
LEMMA SoloAnswers ==
  ASSUME IntakeTypes, RoleTypes, AnswerInv, NEW c \in Conns, Step(c),
         \/ Check(c) \/ AdmitMember(c) \/ AdmitRecheck(c) \/ VanishMark(c) \/ VanishRoles(c)
         \/ Gate(c) \/ Mark(c) \/ Effect(c) \/ ClearPending(c)
  PROVE  AnswerStep(c)
  <1>0. conn[c].at \in Solo \ {"undo", "put"} /\ answered' = answered /\ Doing(c)
    BY DEF Check, AdmitMember, AdmitRecheck, VanishMark, VanishRoles, Gate, Mark, Effect, ClearPending, Solo, AnswerInv
  <1>1. ~Undo(c) /\ conn[c].at \notin {"idle", "queued"}
    BY <1>0 DEF Undo, Solo
  <1>2. ASSUME NEW a \in Said, Settle(c, a), a = "stored" => E(c).cls \notin Promised \/ conn[c].at \in Effecting PROVE AnswerStep(c)
    BY <1>0, <1>1, <1>2, SettleAnswers
  <1>3. ASSUME NEW s, Go(c, s), s \notin {"queued", "idle"}, s \in {"vanish", "unrole"} => E(c).cls = "vanish",
               s \in Effecting => conn[c].at \in Effecting \/ E(c).cls \notin Promised
        PROVE  AnswerStep(c)
    BY <1>0, <1>1, <1>3, GoAnswers
  <1>4. CASE Check(c)
    <2>1. PICK v : v = Verdict(E(c), conn[c].known, conn[c].i \in conn[c].verified)
      OBVIOUS
    <2>2. v \in {"reject", "vanish", "duplicate", "admit", "accept"} /\ (v = "vanish" => E(c).cls = "vanish")
      BY <2>1 DEF Verdict, JoinVerdict
    <2>3. \/ \E a \in Said \ {"stored"} : Settle(c, a)
          \/ E(c).cls = "dm" /\ \E a \in {"stored", "reject"} : Settle(c, a)
          \/ Go(c, "gate")
          \/ v \in {"vanish", "admit"} /\ Go(c, v)
      BY <1>4, <2>1, <2>2 DEF Check, Said
    <2> QED BY <1>2, <1>3, <2>2, <2>3 DEF Said, Promised, Effecting
  <1>5. CASE AdmitMember(c)
    <2>1. Settle(c, "reject") \/ Go(c, "recheck")
      BY <1>5 DEF AdmitMember
    <2> QED BY <1>2, <1>3, <2>1 DEF Said, Effecting
  <1>6. CASE AdmitRecheck(c)
    <2>1. \E a \in Said \ {"stored"} : Settle(c, a)
      BY <1>6 DEF AdmitRecheck, Said
    <2> QED BY <1>2, <2>1
  <1>7. CASE VanishMark(c)
    <2>1. (Settle(c, "retry") \/ Go(c, "unrole")) /\ E(c).cls = "vanish"
      BY <1>0, <1>1, <1>7 DEF VanishMark, Doing
    <2> QED BY <1>2, <1>3, <2>1 DEF Said, Effecting
  <1>8. CASE VanishRoles(c)
    <2>1. Settle(c, "stored") /\ E(c).cls = "vanish"
      BY <1>0, <1>1, <1>8 DEF VanishRoles, Doing
    <2> QED BY <1>2, <2>1 DEF Said, Promised
  <1>9. CASE Gate(c)
    <2>1. Settle(c, "reject") \/ Go(c, "mark")
      BY <1>9 DEF Gate
    <2> QED BY <1>2, <1>3, <2>1 DEF Said, Effecting
  <1>10. CASE Effect(c)
    <2>1. /\ conn[c].at \in Effecting
          /\ \/ \E a \in Said : Settle(c, a)
             \/ Go(c, "undo") \/ Go(c, "clear")
      BY <1>10 DEF Effect, Said, Effecting
    <2> QED BY <1>2, <1>3, <2>1 DEF Effecting
  <1>11. CASE ClearPending(c)
    <2>1. conn[c].at \in Effecting /\ Settle(c, "stored")
      BY <1>11 DEF ClearPending, Effecting
    <2> QED BY <1>2, <2>1 DEF Said
  <1>12. CASE Mark(c)
    <2>1. \/ Go(c, "put")
          \/ Settle(c, "retry")
          \/ \E b : conn' = [conn EXCEPT ![c].at = "put", ![c].fresh = b]
      BY <1>12 DEF Mark
    <2>2. CASE Go(c, "put") \/ Settle(c, "retry")
      BY <1>2, <1>3, <2>2 DEF Said, Effecting
    <2>3. ASSUME NEW b, conn' = [conn EXCEPT ![c].at = "put", ![c].fresh = b] PROVE AnswerStep(c)
      <3>0. Doing(c) /\ Past(c) /\ Claims /\ menu' = menu /\ Tasks /\ \A d \in Conns \ {c} : conn'[d] = conn[d]
        BY OthersSame DEF AnswerInv, IntakeTypes
      <3>1. TaskFields \subseteq DOMAIN conn[c] /\ DOMAIN conn = Conns
        BY <3>0 DEF Tasks, Task
      <3>2. /\ conn'[c].at = "put" /\ conn'[c].i = conn[c].i /\ conn'[c].batch = conn[c].batch /\ conn'[c].run = conn[c].run
            /\ conn'[c].slots = conn[c].slots /\ conn'[c].puts = conn[c].puts
        BY <2>3, <3>1 DEF TaskFields
      <3>3. Named(conn'[c]) /\ Covered(conn'[c])
        BY <1>1, <3>0, <3>2 DEF Doing, Named, Covered
      <3>4. Doing(c)'
        BY <1>0, <1>1, <3>0, <3>2, <3>3, DoingOn
      <3>5. \A k : Yes(conn'[c], k) => Yes(conn[c], k)
        BY <1>1, <3>2 DEF Yes
      <3>6. \A n, k : Claim(c, n, k)' => Claim(c, n, k)
        BY <1>0, <3>0, <3>5, QuietYes
      <3>7. Claims'
        BY <1>0, <1>1, <3>0, <3>6, KeepRecorded, QuietClaims
      <3>8. Past(c)'
        BY <1>0, <3>0, PastOn
      <3> QED BY <3>4, <3>7, <3>8 DEF AnswerStep
    <2> QED BY <2>1, <2>2, <2>3
  <1> QED BY <1>4, <1>5, <1>6, <1>7, <1>8, <1>9, <1>10, <1>11, <1>12

\* A step of a task that answers some events of its batch, none of them with a yes.
LEMMA RunAnswers ==
  ASSUME IntakeTypes, RoleTypes, AnswerInv, NEW c \in Conns, Step(c), ~Undo(c), answered' = answered, conn[c].at # "idle",
         conn'[c].batch = conn[c].batch, conn'[c].at \notin Effecting \union {"vanish", "unrole"}, Covered(conn'[c]),
         \A k \in DOMAIN conn[c].batch :
            \/ conn'[c].slots[k] = conn[c].slots[k]
            \/ conn'[c].slots[k].id = conn[c].batch[k].id /\ conn'[c].slots[k].ans # "stored"
  PROVE  AnswerStep(c)
  <1>0. Doing(c) /\ Past(c) /\ Claims /\ menu' = menu /\ Tasks /\ \A d \in Conns \ {c} : conn'[d] = conn[d]
    BY OthersSame DEF AnswerInv, IntakeTypes
  <1>1. Named(conn'[c])
    BY <1>0 DEF Doing, Named
  <1>2. Doing(c)'
    BY <1>0, <1>1, DoingOn
  <1>3. \A k : Yes(conn'[c], k) => Yes(conn[c], k)
    BY <1>0 DEF Yes, Effecting
  <1>4. \A n, k : Claim(c, n, k)' => Claim(c, n, k)
    BY <1>0, <1>3, QuietYes
  <1>5. Claims'
    BY <1>0, <1>4, KeepRecorded, QuietClaims
  <1>6. Past(c)'
    BY <1>0, PastOn
  <1> QED BY <1>2, <1>5, <1>6 DEF AnswerStep

\* The put of a single event: what it stores was not recorded before.
LEMMA PutAnswers ==
  ASSUME IntakeTypes, RoleTypes, AnswerInv, NEW c \in Conns, Step(c), Put(c)
  PROVE  AnswerStep(c)
  <1>0. /\ Doing(c) /\ Past(c) /\ Claims /\ menu' = menu /\ Tasks /\ menu \in Menus /\ DbType(db) /\ \A d \in Conns \ {c} : conn'[d] = conn[d]
        /\ conn[c].at = "put" /\ answered' = answered
    BY OthersSame DEF AnswerInv, IntakeTypes, RoleTypes, Put
  <1>1. ~Undo(c) /\ conn[c].at \in Solo \ Effecting /\ conn[c].at \notin {"idle", "queued"}
    BY <1>0 DEF Undo, Solo, Effecting
  <1>2. PICK e \in SentEvent : e = E(c) /\ conn[c].t \in Nat /\ menu.event[e.id] = e
    BY <1>0, <1>1, EventIs
  <1>3. PICK o \in Said : /\ \/ o = "retry" \/ o = PutOutcome(db, e)
                          /\ o \in Accepted => db' = Stored(db, e, conn[c].t) /\ Go(c, "effect")
                          /\ o \notin Accepted => Settle(c, o)
    <2>1. PICK shed : /\ shed \in Fault("shed")
                      /\ LET o == IF shed THEN "retry" ELSE PutOutcome(db, e)
                         IN  IF o \in Accepted THEN db' = Stored(db, e, conn[c].t) /\ Go(c, "effect") ELSE Settle(c, o)
      BY <1>2 DEF Put
    <2>2. PICK o : o = IF shed THEN "retry" ELSE PutOutcome(db, e)
      OBVIOUS
    <2>3. o \in Said /\ (o = "retry" \/ o = PutOutcome(db, e))
      BY <2>2, OutcomeIs DEF Said
    <2> QED BY <2>1, <2>2, <2>3
  <1>4. CASE o \notin Accepted
    BY <1>0, <1>1, <1>3, <1>4, SettleAnswers DEF Accepted
  <1>5. CASE o \in Accepted /\ e.cls \notin Promised
    <2>1. Go(c, "effect") /\ E(c).cls \notin Promised
      BY <1>2, <1>3, <1>5
    <2> QED BY <1>0, <1>1, <2>1, GoAnswers DEF Effecting
  <1>6. CASE o \in Accepted /\ e.cls \in Promised
    <2>1. PutOutcome(db, e) = "stored" /\ ~Recorded(e.id)
      BY <1>2, <1>3, <1>6 DEF PutOutcome, Promised, Ephemeral, Accepted, Recorded
    <2>2. Recorded(e.id)'
      <3>1. e.id \in Stored(db, e, conn[c].t).events
        BY <1>0, <1>2, <2>1, StoredIs
      <3> QED BY <1>3, <1>6, <3>1 DEF Recorded
    <2>3. PICK i : i = e.id
      OBVIOUS
    <2>4. ~Recorded(i) /\ Recorded(i)'
      BY <2>1, <2>2, <2>3 DEF Recorded
    <2>5. Go(c, "effect")
      BY <1>3, <1>6
    <2>6. Doing(c)' /\ conn'[c].i = conn[c].i /\ conn'[c].batch = conn[c].batch /\ conn'[c].slots = conn[c].slots /\ conn'[c].at = "effect"
      BY <1>0, <1>1, <2>5, GoDoing
    <2>7. \A n, k : Claim(c, n, k)' => Claim(c, n, k) \/ (n = Len(answered[c]) + 1 /\ k = conn[c].i)
      <3>1. \A k : Yes(conn[c], k)' => Yes(conn[c], k) \/ k = conn[c].i
        BY <1>1, <2>6 DEF Yes
      <3> QED BY <1>0, <3>1 DEF Claim
    <2>8. SentId(c, Len(answered[c]) + 1, conn[c].i) = i
      BY <1>0, <1>1, <1>2, <2>3 DEF Doing, SentId, E
    <2>9. \A n, k : Claim(c, n, k) => Recorded(SentId(c, n, k))
      BY <1>0 DEF Claims
    <2>10. \A d, n, k : SentId(d, n, k)' = SentId(d, n, k)
      BY <1>0 DEF SentId
    <2>11. \A n, k : Claim(c, n, k)' => Recorded(SentId(c, n, k))' /\ (Claim(c, n, k) \/ ~Recorded(SentId(c, n, k)))
      <3> TAKE n, k
      <3> HAVE Claim(c, n, k)'
      <3>1. CASE Claim(c, n, k)
        BY <1>1, <3>1, KeepRecorded
      <3>2. CASE n = Len(answered[c]) + 1 /\ k = conn[c].i
        <4>1. SentId(c, n, k) = i /\ SentId(c, n, k)' = i
          BY <2>8, <2>10, <3>2
        <4> QED BY <2>4, <4>1 DEF Recorded
      <3> QED BY <2>7, <3>1, <3>2
    <2>12. \A n, k, m, j : Claim(c, n, k)' /\ Claim(c, m, j)' /\ SentId(c, n, k) = SentId(c, m, j) /\ ~Recorded(SentId(c, n, k)) => n = m /\ k = j
      BY <2>7, <2>9
    <2>13. Claims'
      BY <1>0, <1>1, <2>11, <2>12, KeepRecorded, ClaimStep
    <2>14. Past(c)'
      BY <1>0, PastOn
    <2> QED BY <2>6, <2>13, <2>14 DEF AnswerStep
  <1> QED BY <1>4, <1>5, <1>6

\* A stored event is taken back: nobody else claims it.
LEMMA UndoAnswers ==
  ASSUME IntakeTypes, RoleTypes, AnswerInv, NEW c \in Conns, Step(c), Undo(c)
  PROVE  AnswerStep(c)
  <1>0. /\ Doing(c) /\ Past(c) /\ Claims /\ menu' = menu /\ Tasks /\ menu \in Menus /\ \A d \in Conns \ {c} : conn'[d] = conn[d]
        /\ conn[c].at = "undo" /\ answered' = answered /\ MarksOK
    BY OthersSame DEF AnswerInv, IntakeTypes, RoleTypes, Undo
  <1>1. conn[c].at \in Solo \intersect Effecting /\ conn[c].at \notin {"idle", "queued"} /\ conn[c].i \in DOMAIN conn[c].batch
    BY <1>0 DEF Solo, Effecting, Tasks, Task
  <1>2. PICK e \in SentEvent : e = E(c) /\ menu.event[e.id] = e
    BY <1>0, <1>1, EventIs
  <1>3. PICK a \in {"reject", "retry"} : Settle(c, a)
    BY DEF Undo
  <1>4. a \in Said /\ a # "stored"
    BY DEF Said
  <1>5. /\ Doing(c)' /\ conn'[c].batch = conn[c].batch /\ conn'[c].at = "route"
        /\ \A k \in DOMAIN conn[c].batch : /\ k # conn[c].i => conn'[c].slots[k] = conn[c].slots[k]
                                           /\ k = conn[c].i => conn'[c].slots[k].ans = a
    BY <1>0, <1>1, <1>3, <1>4, SettleDoing
  <1>6. \A k : Yes(conn'[c], k) => Yes(conn[c], k) /\ k # conn[c].i
    BY <1>1, <1>4, <1>5 DEF Yes
  <1>7. \A n, k : Claim(c, n, k)' => Claim(c, n, k)
    BY <1>0, <1>6, QuietYes
  <1>8. PICK N, I : N = Len(answered[c]) + 1 /\ I = conn[c].i
    OBVIOUS
  <1>9. ~Claim(c, N, I)'
    <2>1. Len(answered[c]) \in Nat /\ DOMAIN answered[c] = 1..Len(answered[c])
      BY LenProperties DEF IntakeTypes
    <2>2. N \notin DOMAIN answered[c]
      BY <1>8, <2>1
    <2>3. ~Yes(conn'[c], I)
      BY <1>6, <1>8
    <2>4. \A k : Yes(conn[c], k)' <=> Yes(conn'[c], k)
      BY DEF Yes
    <2> QED BY <1>0, <2>2, <2>3, <2>4 DEF Claim
  <1>10. \A d \in Conns : \A n, k : Claim(d, n, k) /\ Claim(d, n, k)' => SentId(d, n, k) # e.id
    <2> SUFFICES ASSUME NEW d \in Conns, NEW n, NEW k, Claim(d, n, k), Claim(d, n, k)', SentId(d, n, k) = e.id PROVE FALSE
      OBVIOUS
    <2>1. Doing(d) /\ Past(d)
      BY DEF AnswerInv
    <2>2. e.cls \in Promised
      BY <1>2, <2>1, ClaimEvent
    <2>3. Yes(conn[c], I)
      BY <1>0, <1>1, <1>2, <1>8, <2>2 DEF Yes, E
    <2>4. Claim(c, N, I)
      BY <1>8, <2>3 DEF Claim
    <2>5. SentId(c, N, I) = e.id
      BY <1>0, <1>1, <1>2, <1>8 DEF Doing, SentId, E
    <2>6. d = c /\ n = N /\ k = I
      BY <1>0, <2>4, <2>5 DEF Claims
    <2> QED BY <1>9, <2>6
  <1>11. \A d \in Conns : \A n, k : Claim(d, n, k) /\ Claim(d, n, k)' => Recorded(SentId(d, n, k))'
    <2> TAKE d \in Conns
    <2> TAKE n, k
    <2> HAVE Claim(d, n, k) /\ Claim(d, n, k)'
    <2>1. PICK i : i = SentId(d, n, k)
      OBVIOUS
    <2>2. Recorded(i) /\ i # E(c).id
      BY <1>0, <1>2, <1>10, <2>1 DEF Claims
    <2>3. Recorded(i)'
      BY <1>0, <2>2, StepRecord
    <2>4. SentId(d, n, k)' = i
      BY <1>0, <2>1 DEF SentId
    <2> QED BY <2>3, <2>4 DEF Recorded
  <1>12. Claims'
    BY <1>0, <1>7, <1>11, QuietClaims
  <1>13. Past(c)'
    BY <1>0, PastOn
  <1> QED BY <1>5, <1>12, <1>13 DEF AnswerStep

\* A batch begins: nothing is answered yet.
LEMMA BeginAnswers ==
  ASSUME IntakeTypes, RoleTypes, AnswerInv, NEW c \in Conns, Step(c), AcceptBatchBegin(c)
  PROVE  AnswerStep(c)
  <1>0. /\ Doing(c) /\ Past(c) /\ Claims /\ menu' = menu /\ Tasks /\ menu \in Menus /\ \A d \in Conns \ {c} : conn'[d] = conn[d]
        /\ conn[c].at = "idle" /\ answered' = answered /\ DOMAIN conn = Conns /\ Len(answered[c]) < Len(menu.send[c])
    BY OthersSame DEF AnswerInv, IntakeTypes, AcceptBatchBegin, Tasks
  <1>1. ~Undo(c)
    BY <1>0 DEF Undo
  <1>2. PICK b : b = menu.send[c][Len(answered[c]) + 1]
    OBVIOUS
  <1>3. Len(answered[c]) + 1 \in DOMAIN menu.send[c] /\ b \in Seq(SentEvent)
    <2>1. PICK s : s = menu.send[c]
      OBVIOUS
    <2>2. s \in Seq(Seq(SentEvent))
      BY <1>0, <2>1, MenuType
    <2>3. Len(answered[c]) \in Nat
      BY LenProperties DEF IntakeTypes
    <2>4. DOMAIN s = 1..Len(s) /\ Len(s) \in Nat
      BY <2>2, LenProperties
    <2>5. Len(answered[c]) + 1 \in 1..Len(s)
      BY <1>0, <2>1, <2>3, <2>4
    <2>6. s[Len(answered[c]) + 1] \in Seq(SentEvent)
      BY <2>2, <2>5, ElementOfSeq
    <2> QED BY <1>2, <2>1, <2>4, <2>5, <2>6
  <1>4. PICK S : S = [k \in DOMAIN b |-> Unset]
    OBVIOUS
  <1>5. PICK K, A, V : conn' = [conn EXCEPT ![c] = [IdleConn EXCEPT !.at = "route", !.batch = b, !.slots = S, !.known = K, !.attempt = A, !.verified = V, !.t = clock]]
    <2>1. PICK r : r = Reserve(b)
      OBVIOUS
    <2>2. PICK panics \in Fault("panic") :
             conn' = [conn EXCEPT ![c] = [IdleConn EXCEPT
                !.at = "route", !.batch = b, !.slots = [k \in DOMAIN b |-> Unset],
                !.known = KnownPrefixes(b), !.attempt = r.ok,
                !.verified = VerifiedBy(b, r.ok, panics), !.t = clock]]
      BY <1>2, <2>1 DEF AcceptBatchBegin
    <2> QED BY <1>4, <2>2
  <1>6. PICK U : U = [IdleConn EXCEPT !.at = "route", !.batch = b, !.slots = S, !.known = K, !.attempt = A, !.verified = V, !.t = clock]
    OBVIOUS
  <1>7. conn'[c] = U
    BY <1>0, <1>5, <1>6
  <1>8. U.at = "route" /\ U.batch = b /\ U.slots = S /\ U.i = 1
    BY <1>6 DEF IdleConn
  <1>9. \A k \in DOMAIN b : k \in Nat \ {0} /\ S[k] = Unset
    BY <1>3, <1>4, LenProperties
  <1>10. Named(U) /\ Covered(U)
    BY <1>8, <1>9 DEF Named, Covered
  <1>11. Doing(c)'
    <2>1. Named(conn[c])' /\ Covered(conn[c])'
      BY <1>7, <1>10 DEF Named, Covered
    <2> QED BY <1>0, <1>2, <1>3, <1>7, <1>8, <2>1 DEF Doing
  <1>12. \A k : ~Yes(conn'[c], k)
    BY <1>7, <1>8, <1>9 DEF Yes
  <1>13. \A n, k : Claim(c, n, k)' => Claim(c, n, k)
    BY <1>0, <1>12, QuietYes
  <1>14. Claims'
    BY <1>0, <1>1, <1>13, KeepRecorded, QuietClaims
  <1>15. Past(c)'
    BY <1>0, PastOn
  <1> QED BY <1>11, <1>14, <1>15 DEF AnswerStep

\* The end of a batch: its answers are sent, every event has one.
LEMMA EndAnswers ==
  ASSUME IntakeTypes, RoleTypes, AnswerInv, NEW c \in Conns, Step(c), conn[c].at = "route",
         conn[c].run = <<>>, conn[c].i > Len(conn[c].batch),
         conn' = [conn EXCEPT ![c] = IdleConn], answered' = [answered EXCEPT ![c] = Append(@, conn[c].slots)]
  PROVE  AnswerStep(c)
  <1>0. /\ Doing(c) /\ Past(c) /\ Claims /\ menu' = menu /\ Tasks /\ menu \in Menus /\ \A d \in Conns \ {c} : conn'[d] = conn[d]
        /\ DOMAIN conn = Conns /\ answered \in [Conns -> Seq(Seq(Answer))] /\ \A d \in Conns \ {c} : answered'[d] = answered[d]
    BY OthersSame, AnsweredSame DEF AnswerInv, IntakeTypes, Tasks
  <1>1. ~Undo(c)
    BY DEF Undo
  <1>2. PICK T : T = conn[c]
    OBVIOUS
  <1>3. Task(c, T) /\ T.at = "route" /\ T.run = <<>> /\ T.i > Len(T.batch) /\ T.i \in Nat
    BY <1>0, <1>2 DEF Tasks, Task
  <1>4. T.slots \in Seq(Answer) /\ Len(T.slots) = Len(T.batch) /\ DOMAIN T.batch = 1..Len(T.batch) /\ Len(T.batch) \in Nat
    BY <1>0, <1>3, SlotsSeq
  <1>5. DOMAIN T.slots = DOMAIN T.batch
    BY <1>4, LenProperties
  <1>6. PICK L \in Nat : L = Len(answered[c]) /\ DOMAIN answered[c] = 1..L
    BY <1>0, LenProperties
  <1>7. L + 1 \in DOMAIN menu.send[c] /\ T.batch = menu.send[c][L + 1] /\ Named(T) /\ Covered(T)
    BY <1>0, <1>2, <1>3, <1>6 DEF Doing
  <1>8. \A k \in DOMAIN T.batch : T.slots[k] # Unset /\ T.slots[k].id = T.batch[k].id
    <2> TAKE k \in DOMAIN T.batch
    <2>1. k < T.i
      BY <1>3, <1>4
    <2>2. k \notin ToSet(T.run) /\ T.at # "queued"
      BY <1>3 DEF ToSet
    <2> QED BY <1>7, <2>1, <2>2 DEF Covered, Named
  <1>9. PICK B, s : B = Seq(Answer) /\ s = T.slots
    OBVIOUS
  <1>10. PICK w : w = Append(answered[c], s)
    OBVIOUS
  <1>11. w \in Seq(B) /\ Len(w) = L + 1 /\ w[L + 1] = s /\ \A n \in 1..L : w[n] = answered[c][n]
    BY <1>0, <1>4, <1>6, <1>9, <1>10, AppendProperties
  <1>12. DOMAIN w = 1..(L + 1) /\ answered'[c] = w
    BY <1>0, <1>2, <1>9, <1>10, <1>11, LenProperties
  <1>13. Past(c)'
    <2> SUFFICES ASSUME NEW n \in 1..(L + 1), w[n] # <<>>
                 PROVE  /\ n \in DOMAIN menu.send[c] /\ Len(w[n]) = Len(menu.send[c][n])
                        /\ \A k \in DOMAIN w[n] : w[n][k] # Unset /\ w[n][k].id = menu.send[c][n][k].id
      BY <1>0, <1>12 DEF Past
    <2>1. CASE n = L + 1
      BY <1>4, <1>5, <1>7, <1>8, <1>9, <1>11, <2>1
    <2>2. CASE n # L + 1
      <3>1. n \in 1..L
        BY <2>2
      <3>2. n \in DOMAIN answered[c] /\ w[n] = answered[c][n]
        BY <1>6, <1>11, <3>1
      <3>3. PICK x : x = answered[c][n]
        OBVIOUS
      <3>4. /\ n \in DOMAIN menu.send[c] /\ Len(x) = Len(menu.send[c][n])
            /\ \A k \in DOMAIN x : x[k] # Unset /\ x[k].id = menu.send[c][n][k].id
        BY <1>0, <3>2, <3>3 DEF Past
      <3> QED BY <3>2, <3>3, <3>4
    <2> QED BY <2>1, <2>2
  <1>14. conn'[c] = IdleConn /\ IdleConn.at = "idle"
    BY <1>0 DEF IdleConn
  <1>15. Doing(c)'
    BY <1>14 DEF Doing
  <1>16. \A n, k : Claim(c, n, k)' => Claim(c, n, k)
    <2> TAKE n, k
    <2> HAVE Claim(c, n, k)'
    <2>1. ~Yes(conn[c], k)'
      BY <1>14 DEF Yes
    <2>2. n \in 1..(L + 1) /\ k \in DOMAIN w[n] /\ w[n][k].ans = "stored" /\ menu.send[c][n][k].cls \in Promised
      BY <1>0, <1>12, <2>1 DEF Claim
    <2>3. CASE n = L + 1
      <3>1. k \in DOMAIN T.batch /\ T.batch[k].cls \in Promised /\ T.slots[k] # Unset /\ T.slots[k].ans = "stored"
        BY <1>5, <1>7, <1>8, <1>9, <1>11, <2>2, <2>3
      <3>2. Yes(conn[c], k)
        BY <1>2, <1>3, <3>1 DEF Yes
      <3> QED BY <1>6, <2>3, <3>2 DEF Claim
    <2>4. CASE n # L + 1
      <3>1. n \in 1..L
        BY <2>2, <2>4
      <3> QED BY <1>6, <1>11, <2>2, <3>1 DEF Claim
    <2> QED BY <2>3, <2>4
  <1>17. Claims'
    BY <1>0, <1>1, <1>16, KeepRecorded, QuietClaims
  <1> QED BY <1>13, <1>15, <1>17 DEF AnswerStep

\* The loop over a batch.
LEMMA RouteAnswers ==
  ASSUME IntakeTypes, RoleTypes, AnswerInv, NEW c \in Conns, Step(c), Route(c)
  PROVE  AnswerStep(c)
  <1>0. Doing(c) /\ menu' = menu /\ Tasks /\ menu \in Menus /\ conn[c].at = "route" /\ conn[c].at \notin {"idle", "queued"} /\ ~Undo(c)
    BY OthersSame DEF AnswerInv, IntakeTypes, Route, Undo
  <1>1. PICK T : T = conn[c]
    OBVIOUS
  <1>2. Task(c, T) /\ TaskFields \subseteq DOMAIN T /\ T.i \in Nat \ {0} /\ DOMAIN conn = Conns
    BY <1>0, <1>1 DEF Tasks, Task
  <1>3. DOMAIN T.batch = 1..Len(T.batch) /\ Len(T.batch) \in Nat
    BY <1>0, <1>2, SlotsSeq
  <1>4. \/ Go(c, "run") /\ answered' = answered
        \/ /\ T.run = <<>> /\ T.i > Len(T.batch)
           /\ conn' = [conn EXCEPT ![c] = IdleConn] /\ answered' = [answered EXCEPT ![c] = Append(@, T.slots)]
        \/ Go(c, "check") /\ answered' = answered
        \/ ~ (T.i > Len(T.batch)) /\ Settle(c, "reject") /\ answered' = answered
        \/ ~ (T.i > Len(T.batch)) /\ conn' = [conn EXCEPT ![c].run = Append(@, T.i), ![c].i = @ + 1] /\ answered' = answered
    BY <1>1 DEF Route
  <1>5. ASSUME NEW s \in {"run", "check"}, Go(c, s), answered' = answered PROVE AnswerStep(c)
    BY <1>0, <1>5, GoAnswers DEF Effecting
  <1>6. CASE T.run = <<>> /\ T.i > Len(T.batch) /\ conn' = [conn EXCEPT ![c] = IdleConn] /\ answered' = [answered EXCEPT ![c] = Append(@, T.slots)]
    BY <1>0, <1>1, <1>6, EndAnswers
  <1>7. CASE ~ (T.i > Len(T.batch)) /\ Settle(c, "reject") /\ answered' = answered
    <2>1. conn[c].i \in DOMAIN conn[c].batch /\ "reject" \in Said
      BY <1>1, <1>2, <1>3, <1>7 DEF Said
    <2>2. /\ Doing(c)' /\ conn'[c].batch = conn[c].batch /\ conn'[c].at = "route"
          /\ \A k \in DOMAIN conn[c].batch : /\ k # conn[c].i => conn'[c].slots[k] = conn[c].slots[k]
                                             /\ k = conn[c].i => conn'[c].slots[k].ans = "reject"
      BY <1>0, <1>7, <2>1, SettleDoing
    <2>3. \A k : Yes(conn'[c], k) => Yes(conn[c], k)
      BY <1>0, <2>2 DEF Yes
    <2>4. \A n, k : Claim(c, n, k)' => Claim(c, n, k)
      BY <1>0, <1>7, <2>3, QuietYes
    <2>5. Claims /\ Past(c) /\ \A d \in Conns \ {c} : conn'[d] = conn[d] /\ answered'[d] = answered[d]
      BY <1>0, <1>7, OthersSame DEF AnswerInv
    <2>6. Claims'
      BY <1>0, <2>4, <2>5, KeepRecorded, QuietClaims
    <2>7. Past(c)'
      BY <1>0, <1>7, <2>5, PastOn
    <2> QED BY <2>2, <2>6, <2>7 DEF AnswerStep
  <1>8. CASE ~ (T.i > Len(T.batch)) /\ conn' = [conn EXCEPT ![c].run = Append(@, T.i), ![c].i = @ + 1] /\ answered' = answered
    <2>1. PICK q : q = Append(T.run, T.i)
      OBVIOUS
    <2>2. PICK U : U = [[T EXCEPT !.run = q] EXCEPT !.i = T.i + 1]
      OBVIOUS
    <2>3. U.batch = T.batch /\ U.i = T.i + 1 /\ U.run = q /\ U.slots = T.slots /\ U.at = T.at
      BY <1>2, <2>2 DEF TaskFields
    <2>4. conn' = [conn EXCEPT ![c] = U]
      BY <1>1, <1>2, <1>8, <2>1, <2>2 DEF TaskFields
    <2>5. conn'[c] = U
      BY <1>2, <2>4
    <2>6. T.i \in ToSet(q) /\ \A k \in ToSet(T.run) : k \in ToSet(q)
      <3>1. T.run \in Seq(Plain(T.batch)) /\ T.i \in Nat
        BY <1>2 DEF Task
      <3>2. PICK P : P = Plain(T.batch) \union Nat
        OBVIOUS
      <3>3. T.run \in Seq(P) /\ T.i \in P
        <4>1. Plain(T.batch) \subseteq P
          BY <3>2
        <4> QED BY <3>1, <3>2, <4>1, SeqDef
      <3>4. PICK m \in Nat : m = Len(T.run) /\ DOMAIN T.run = 1..m
        BY <3>3, LenProperties
      <3>5. q \in Seq(P) /\ Len(q) = m + 1 /\ q[m + 1] = T.i /\ \A k \in 1..m : q[k] = T.run[k]
        BY <2>1, <3>3, <3>4, AppendProperties
      <3>6. DOMAIN q = 1..(m + 1)
        BY <3>5, LenProperties
      <3> QED BY <3>4, <3>5, <3>6 DEF ToSet
    <2>7. Covered(U)
      <3> SUFFICES ASSUME NEW k \in DOMAIN T.batch, k < T.i + 1
                   PROVE  T.slots[k] # Unset \/ k \in ToSet(q)
        BY <2>3 DEF Covered
      <3>1. CASE k = T.i
        BY <2>6, <3>1
      <3>2. CASE k < T.i
        BY <1>0, <1>1, <2>6, <3>2 DEF Doing, Covered
      <3> QED BY <1>2, <1>3, <3>1, <3>2
    <2> QED BY <1>0, <1>1, <1>8, <2>3, <2>5, <2>7, RunAnswers DEF Effecting
  <1> QED BY <1>1, <1>4, <1>5, <1>6, <1>7, <1>8

\* What some events of a batch are answered.
LEMMA AnswersSet ==
  ASSUME NEW T, TaskFields \subseteq DOMAIN T, T.slots \in [DOMAIN T.batch -> Answer], \A k \in DOMAIN T.batch : T.batch[k].id \in Nat,
         NEW S, NEW a \in Said
  PROVE  LET U == WithAnswers(T, S, a)
         IN  /\ U.batch = T.batch /\ U.i = T.i /\ U.at = T.at /\ U.run = T.run /\ U.puts = T.puts
             /\ \A k \in DOMAIN T.batch :
                  /\ k \in S => U.slots[k] # Unset /\ U.slots[k].id = T.batch[k].id /\ U.slots[k].ans = a
                  /\ k \notin S => U.slots[k] = T.slots[k]
  <1>1. PICK s : s = [k \in DOMAIN T.slots |-> IF k \in S THEN [id |-> T.batch[k].id, ans |-> a] ELSE T.slots[k]]
    OBVIOUS
  <1>2. PICK U : U = [T EXCEPT !.slots = s]
    OBVIOUS
  <1>3. WithAnswers(T, S, a) = U
    BY <1>1, <1>2 DEF WithAnswers, TaskFields
  <1>4. U.batch = T.batch /\ U.i = T.i /\ U.at = T.at /\ U.run = T.run /\ U.puts = T.puts /\ U.slots = s
    BY <1>2 DEF TaskFields
  <1>5. ASSUME NEW k \in DOMAIN T.batch
        PROVE  /\ k \in S => s[k] # Unset /\ s[k].id = T.batch[k].id /\ s[k].ans = a
               /\ k \notin S => s[k] = T.slots[k]
    <2>1. PICK x : x = [id |-> T.batch[k].id, ans |-> a]
      OBVIOUS
    <2>2. x # Unset /\ x.id = T.batch[k].id /\ x.ans = a
      BY <2>1, NoAnswer
    <2> QED BY <1>1, <2>1, <2>2
  <1> QED BY <1>3, <1>4, <1>5

\* The run is checked: what is refused is answered, the rest is queued.
LEMMA RunCheckAnswers ==
  ASSUME IntakeTypes, RoleTypes, AnswerInv, NEW c \in Conns, Step(c), RunCheck(c)
  PROVE  AnswerStep(c)
  <1>0. Doing(c) /\ Tasks /\ DOMAIN conn = Conns /\ menu \in Menus /\ conn[c].at = "run" /\ ~Undo(c) /\ answered' = answered
    BY DEF AnswerInv, IntakeTypes, Tasks, RunCheck, Undo
  <1>1. PICK T : T = conn[c]
    OBVIOUS
  <1>2. Task(c, T) /\ TaskFields \subseteq DOMAIN T /\ Named(T) /\ Covered(T) /\ T.at = "run"
    BY <1>0, <1>1 DEF Tasks, Task, Doing
  <1>n. \A k \in DOMAIN T.batch : T.batch[k].id \in Nat
    BY <1>0, <1>2, BatchIs DEF SentEvent
  <1>3. PICK kept, gone : gone \in BOOLEAN /\
          conn' = [conn EXCEPT ![c] =
             IF gone THEN [WithAnswers(WithAnswers(T, ToSet(T.run) \ ToSet(kept), "reject"), ToSet(kept), "retry") EXCEPT !.run = <<>>, !.at = "route"]
             ELSE [WithAnswers(T, ToSet(T.run) \ ToSet(kept), "reject") EXCEPT !.run = <<>>, !.puts = kept, !.at = "queued"]]
    <2>1. PICK noDb \in Fault("read"), shed \in Fault("shed") :
            LET T1 == conn[c]
                p == Prechecked(c)
                aged == OnlyIn(p.puts, {j \in ToSet(p.puts) : ~(MinAge > 0 /\ noDb) /\ ~TooNew(T1.batch[j], T1.t)})
                r == Charged(c, aged)
                refused == WithAnswers(T1, ToSet(T1.run) \ ToSet(r.kept), "reject")
                gone == shed \/ r.kept = <<>>
            IN  conn' = [conn EXCEPT ![c] =
                    IF gone THEN [WithAnswers(refused, ToSet(r.kept), "retry") EXCEPT !.run = <<>>, !.at = "route"]
                    ELSE [refused EXCEPT !.run = <<>>, !.puts = r.kept, !.at = "queued"]]
      BY DEF RunCheck
    <2>2. PICK aged : aged = OnlyIn(Prechecked(c).puts, {j \in ToSet(Prechecked(c).puts) : ~(MinAge > 0 /\ noDb) /\ ~TooNew(conn[c].batch[j], conn[c].t)})
      OBVIOUS
    <2>3. PICK kept : kept = Charged(c, aged).kept
      OBVIOUS
    <2>4. PICK gone \in BOOLEAN : gone <=> (shed \/ kept = <<>>)
      OBVIOUS
    <2> WITNESS kept, gone
    <2> QED BY <1>1, <2>1, <2>2, <2>3, <2>4
  <1>4. PICK X, Y : X = ToSet(T.run) \ ToSet(kept) /\ Y = ToSet(kept)
    OBVIOUS
  <1>5. PICK U : U = WithAnswers(T, X, "reject")
    OBVIOUS
  <1>6. PICK V : V = WithAnswers(U, Y, "retry")
    OBVIOUS
  <1>7. /\ Task(c, U) /\ U.batch = T.batch /\ U.i = T.i /\ U.run = T.run
        /\ \A k \in DOMAIN T.batch :
             /\ k \in X => U.slots[k] # Unset /\ U.slots[k].id = T.batch[k].id /\ U.slots[k].ans = "reject"
             /\ k \notin X => U.slots[k] = T.slots[k]
    <2>1. Task(c, U)
      BY <1>0, <1>2, <1>5, TaskAnswered DEF Said
    <2>2. T.slots \in [DOMAIN T.batch -> Answer]
      BY <1>2 DEF Task
    <2> QED BY <1>2, <1>n, <1>5, <2>1, <2>2, AnswersSet DEF Said
  <1>8. /\ Task(c, V) /\ V.batch = T.batch /\ V.i = T.i
        /\ \A k \in DOMAIN T.batch :
             /\ k \in Y => V.slots[k] # Unset /\ V.slots[k].id = T.batch[k].id /\ V.slots[k].ans = "retry"
             /\ k \notin Y => V.slots[k] = U.slots[k]
    <2>1. Task(c, V)
      BY <1>0, <1>6, <1>7, TaskAnswered DEF Said
    <2>2. U.slots \in [DOMAIN U.batch -> Answer] /\ TaskFields \subseteq DOMAIN U /\ \A k \in DOMAIN U.batch : U.batch[k].id \in Nat
      BY <1>7, <1>n DEF Task
    <2> QED BY <1>6, <1>7, <2>1, <2>2, AnswersSet DEF Said
  <1>9. TaskFields \subseteq DOMAIN U /\ TaskFields \subseteq DOMAIN V
    BY <1>7, <1>8 DEF Task
  <1>10. CASE gone
    <2>1. PICK W : W = [V EXCEPT !.run = <<>>, !.at = "route"]
      OBVIOUS
    <2>2. conn' = [conn EXCEPT ![c] = W]
      BY <1>3, <1>4, <1>5, <1>6, <1>10, <2>1
    <2>3. conn'[c] = W /\ W.batch = T.batch /\ W.i = T.i /\ W.at = "route" /\ W.slots = V.slots
      BY <1>0, <1>8, <1>9, <2>1, <2>2 DEF TaskFields
    <2>4. Covered(W)
      <3> SUFFICES ASSUME NEW k \in DOMAIN T.batch, k < T.i PROVE V.slots[k] # Unset
        BY <2>3 DEF Covered
      <3>1. T.slots[k] # Unset \/ k \in ToSet(T.run)
        BY <1>2 DEF Covered
      <3> QED BY <1>4, <1>7, <1>8, <3>1
    <2>5. \A k \in DOMAIN T.batch : W.slots[k] = T.slots[k] \/ (W.slots[k].id = T.batch[k].id /\ W.slots[k].ans # "stored")
      BY <1>7, <1>8, <2>3
    <2> QED BY <1>0, <1>1, <2>3, <2>4, <2>5, RunAnswers DEF Effecting
  <1>11. CASE ~gone
    <2>1. PICK W : W = [U EXCEPT !.run = <<>>, !.puts = kept, !.at = "queued"]
      OBVIOUS
    <2>2. conn' = [conn EXCEPT ![c] = W]
      BY <1>3, <1>4, <1>5, <1>11, <2>1
    <2>3. conn'[c] = W /\ W.batch = T.batch /\ W.i = T.i /\ W.at = "queued" /\ W.slots = U.slots /\ W.puts = kept
      BY <1>0, <1>7, <1>9, <2>1, <2>2 DEF TaskFields
    <2>4. Covered(W)
      <3> SUFFICES ASSUME NEW k \in DOMAIN T.batch, k < T.i PROVE U.slots[k] # Unset \/ k \in ToSet(kept)
        BY <2>3 DEF Covered
      <3>1. T.slots[k] # Unset \/ k \in ToSet(T.run)
        BY <1>2 DEF Covered
      <3> QED BY <1>4, <1>7, <3>1
    <2>5. \A k \in DOMAIN T.batch : W.slots[k] = T.slots[k] \/ (W.slots[k].id = T.batch[k].id /\ W.slots[k].ans # "stored")
      BY <1>7, <2>3
    <2> QED BY <1>0, <1>1, <2>3, <2>4, <2>5, RunAnswers DEF Effecting
  <1> QED BY <1>10, <1>11

\* What follows the puts of a run takes a yes back, or leaves the answers alone.
LEMMA AfterAnswers ==
  ASSUME IntakeTypes, RoleTypes, AnswerInv, NEW c \in Conns, Step(c), RunAfter(c) \/ HoldDrain(c) \/ HoldRecord(c) \/ HoldMerge(c)
  PROVE  AnswerStep(c)
  <1>0. /\ Doing(c) /\ Tasks /\ DOMAIN conn = Conns /\ menu \in Menus /\ conn[c].at \in {"after", "drain", "record", "merge"}
        /\ ~Undo(c) /\ answered' = answered
    BY DEF AnswerInv, IntakeTypes, Tasks, RunAfter, HoldDrain, HoldRecord, HoldMerge, Undo
  <1>1. PICK T : T = conn[c]
    OBVIOUS
  <1>2. Task(c, T) /\ TaskFields \subseteq DOMAIN T /\ Named(T) /\ Covered(T) /\ T.at \notin {"idle", "queued"}
    BY <1>0, <1>1 DEF Tasks, Task, Doing
  <1>3. PICK q : q = Tail(T.puts)
    OBVIOUS
  \* The batch goes on with the same answers, or with a yes taken back.
  <1>4. ASSUME NEW U, conn' = [conn EXCEPT ![c] = U], U.batch = T.batch, U.i = T.i, U.run = T.run,
               U.at \in {"after", "drain", "record", "merge", "route"},
               \A k \in DOMAIN T.batch : U.slots[k] = T.slots[k] \/ (U.slots[k] # Unset /\ U.slots[k].id = T.batch[k].id /\ U.slots[k].ans = "retry")
        PROVE  AnswerStep(c)
    <2>1. conn'[c] = U
      BY <1>0, <1>4
    <2>2. Covered(U)
      BY <1>2, <1>4 DEF Covered
    <2>3. U.at \notin Effecting \union {"vanish", "unrole"}
      BY <1>4 DEF Effecting
    <2>4. \A k \in DOMAIN T.batch : U.slots[k] = T.slots[k] \/ (U.slots[k].id = T.batch[k].id /\ U.slots[k].ans # "stored")
      BY <1>4
    <2>5. conn[c].at # "idle" /\ conn'[c].batch = conn[c].batch
      BY <1>1, <1>2, <1>4, <2>1
    <2> QED BY <1>0, <1>1, <2>1, <2>2, <2>3, <2>4, <2>5, RunAnswers
  <1>n. T.slots \in [DOMAIN T.batch -> Answer] /\ \A k \in DOMAIN T.batch : T.batch[k].id \in Nat
    BY <1>0, <1>2, BatchIs DEF SentEvent, Task
  <1>5. ASSUME NEW U, conn' = [conn EXCEPT ![c] = U], U.batch = T.batch, U.i = T.i, U.run = T.run, U.slots = T.slots,
               U.at \in {"after", "drain", "record", "merge", "route"}
        PROVE  AnswerStep(c)
    BY <1>4, <1>5
  <1>6. ASSUME NEW U, NEW J, conn' = [conn EXCEPT ![c] = WithAnswers(U, J, "retry")], TaskFields \subseteq DOMAIN U,
               U.batch = T.batch, U.i = T.i, U.run = T.run, U.slots = T.slots, U.at = "after"
        PROVE  AnswerStep(c)
    <2>1. PICK V : V = WithAnswers(U, J, "retry")
      OBVIOUS
    <2>2. U.slots \in [DOMAIN U.batch -> Answer] /\ \A k \in DOMAIN U.batch : U.batch[k].id \in Nat
      BY <1>n, <1>6
    <2>3. /\ V.batch = U.batch /\ V.i = U.i /\ V.at = U.at /\ V.run = U.run
          /\ \A k \in DOMAIN U.batch :
                  /\ k \in J => V.slots[k] # Unset /\ V.slots[k].id = U.batch[k].id /\ V.slots[k].ans = "retry"
                  /\ k \notin J => V.slots[k] = U.slots[k]
      BY <1>6, <2>1, <2>2, AnswersSet DEF Said
    <2> QED BY <1>4, <1>6, <2>1, <2>3
  <1>7. CASE RunAfter(c)
    <2>0. PICK U : U = [T EXCEPT !.puts = q]
      OBVIOUS
    <2>1. TaskFields \subseteq DOMAIN U /\ U.batch = T.batch /\ U.i = T.i /\ U.run = T.run /\ U.slots = T.slots /\ U.at = "after"
      BY <1>1, <1>2, <1>7, <2>0 DEF TaskFields, RunAfter
    <2>2. PICK J : J = {Head(T.puts)}
      OBVIOUS
    <2>3. \/ Go(c, "route")
          \/ conn' = [conn EXCEPT ![c] = U]
          \/ conn' = [conn EXCEPT ![c] = WithAnswers(U, J, "retry")]
          \/ Go(c, "drain")
      BY <1>1, <1>3, <1>7, <2>0, <2>2 DEF RunAfter
    <2>4. ASSUME NEW s \in {"route", "drain"}, Go(c, s) PROVE AnswerStep(c)
      <3>1. PICK V : V = [T EXCEPT !.at = s]
        OBVIOUS
      <3>2. V.batch = T.batch /\ V.i = T.i /\ V.run = T.run /\ V.slots = T.slots /\ V.at = s
        BY <1>2, <3>1 DEF TaskFields
      <3>3. conn' = [conn EXCEPT ![c] = V]
        BY <1>1, <2>4, <3>1 DEF Go
      <3> QED BY <1>5, <3>2, <3>3
    <2>5. CASE conn' = [conn EXCEPT ![c] = U]
      BY <1>5, <2>1, <2>5
    <2>6. CASE conn' = [conn EXCEPT ![c] = WithAnswers(U, J, "retry")]
      BY <1>6, <2>1, <2>6
    <2> QED BY <2>3, <2>4, <2>5, <2>6
  <1>8. CASE HoldDrain(c) \/ HoldRecord(c)
    <2>1. PICK d, s : conn' = [conn EXCEPT ![c].at = s, ![c].drained = d] /\ s \in {"record", "merge"}
      <3>1. CASE HoldDrain(c)
        BY <3>1 DEF HoldDrain
      <3>2. CASE HoldRecord(c)
        <4>1. PICK shed \in Fault("removal") :
                 conn' = [conn EXCEPT ![c].at = "merge", ![c].drained = IF shed THEN @ ELSE <<>>]
          BY <3>2 DEF HoldRecord
        <4>2. PICK d : d = IF shed THEN conn[c].drained ELSE <<>>
          OBVIOUS
        <4>3. conn' = [conn EXCEPT ![c].at = "merge", ![c].drained = d]
          BY <1>1, <1>2, <4>1, <4>2 DEF TaskFields
        <4> QED BY <4>3
      <3> QED BY <1>8, <3>1, <3>2
    <2>2. PICK U : U = [[T EXCEPT !.at = s] EXCEPT !.drained = d]
      OBVIOUS
    <2>3. U.batch = T.batch /\ U.i = T.i /\ U.run = T.run /\ U.slots = T.slots /\ U.at = s
      BY <1>2, <2>2 DEF TaskFields
    <2>4. conn' = [conn EXCEPT ![c] = U]
      BY <1>1, <1>2, <2>1, <2>2 DEF TaskFields
    <2> QED BY <1>5, <2>1, <2>3, <2>4
  <1>9. CASE HoldMerge(c)
    <2>1. PICK U : U = [T EXCEPT !.at = "after", !.drained = <<>>, !.puts = q]
      OBVIOUS
    <2>2. TaskFields \subseteq DOMAIN U /\ U.batch = T.batch /\ U.i = T.i /\ U.run = T.run /\ U.slots = T.slots /\ U.at = "after"
      BY <1>2, <2>1 DEF TaskFields
    <2>3. PICK J : J = {Head(T.puts)}
      OBVIOUS
    <2>4. conn' = [conn EXCEPT ![c] = WithAnswers(U, J, "retry")] \/ conn' = [conn EXCEPT ![c] = U]
      BY <1>1, <1>3, <1>9, <2>1, <2>3 DEF HoldMerge
    <2> QED BY <1>5, <1>6, <2>2, <2>4
  <1> QED BY <1>7, <1>8, <1>9

\* What a put of a run stores stays stored through the run.
LEMMA RunStays ==
  ASSUME menu \in Menus, NEW c \in Conns, NEW T, Task(c, T), NEW d, DbType(d), NEW x \in DOMAIN T.puts,
         PutOutcome(Committed(T, d)[x - 1], T.batch[T.puts[x]]) = "stored"
  PROVE  \A m \in x..Len(T.puts) : T.batch[T.puts[x]].id \in Committed(T, d)[m].events
  <1>1. PICK f : f = Committed(T, d)
    OBVIOUS
  <1>2. PICK n \in Nat : n = Len(T.puts) /\ DOMAIN T.puts = 1..n /\ \A k \in 1..n : T.puts[k] \in DOMAIN T.batch
    <2>1. T.puts \in Seq(Plain(T.batch))
      BY DEF Task
    <2>2. \A k \in Plain(T.batch) : k \in DOMAIN T.batch
      BY DEF Plain
    <2> QED BY <2>1, <2>2, LenProperties, ElementOfSeq
  <1>3. \A k \in 1..n : T.batch[T.puts[k]] \in SentEvent
    BY <1>2, BatchIs
  <1>4. T.t \in Nat
    BY DEF Task
  <1>5. /\ \A k \in 1..n : f[k] = Stored(f[k - 1], T.batch[T.puts[k]], T.t)
        /\ \A k \in 0..n : DbType(f[k])
    <2>1. /\ \A k \in DOMAIN T.puts : Committed(T, d)[k] = Stored(Committed(T, d)[k - 1], T.batch[T.puts[k]], T.t)
          /\ \A k \in 0..Len(T.puts) : DbType(Committed(T, d)[k])
      BY CommittedIs
    <2> QED BY <1>1, <1>2, <2>1
  <1>6. PICK i : i = T.batch[T.puts[x]].id
    OBVIOUS
  <1>7. x \in 1..n /\ x - 1 \in 0..n
    BY <1>2
  <1>8. i \in f[x].events
    <2>1. PICK p, e : p = f[x - 1] /\ e = T.batch[T.puts[x]]
      OBVIOUS
    <2>2. DbType(p) /\ e \in SentEvent /\ PutOutcome(p, e) = "stored" /\ f[x] = Stored(p, e, T.t)
      BY <1>1, <1>3, <1>5, <1>7, <2>1
    <2> QED BY <1>4, <1>6, <2>1, <2>2, StoredIs
  <1>9. \A m \in (x + 1)..n : i \in f[m - 1].events => i \in f[m].events
    <2> TAKE m \in (x + 1)..n
    <2>1. m \in 1..n /\ m - 1 \in 0..n
      BY <1>7
    <2>2. PICK p, e : p = f[m - 1] /\ e = T.batch[T.puts[m]]
      OBVIOUS
    <2>3. DbType(p) /\ e \in SentEvent /\ f[m] = Stored(p, e, T.t)
      BY <1>3, <1>5, <2>1, <2>2
    <2>4. p.events \subseteq f[m].events
      BY <1>4, <2>3, StoredIs
    <2> QED BY <2>2, <2>4
  <1> DEFINE S == {m \in x..n : i \notin f[m].events}
  <1>10. SUFFICES S = {}
    BY <1>1, <1>2, <1>6
  <1>11. SUFFICES ASSUME S # {} PROVE FALSE
    OBVIOUS
  <1>12. S \subseteq Nat
    BY <1>7
  <1>13. PICK m \in S : \A y \in S : m <= y
    <2> HIDE DEF S
    <2> QED BY <1>11, <1>12, LeastNumber
  <1>14. m \in (x + 1)..n /\ i \notin f[m].events
    BY <1>7, <1>8, <1>13
  <1>15. m - 1 \in x..n /\ m - 1 \notin S
    BY <1>7, <1>13, <1>14
  <1> QED BY <1>9, <1>14, <1>15

\* Two puts of a run do not store the same event.
LEMMA StoredOnce ==
  ASSUME menu \in Menus, NEW c \in Conns, NEW T, Task(c, T), NEW d, DbType(d), NEW x \in DOMAIN T.puts, NEW y \in DOMAIN T.puts,
         PutOutcome(Committed(T, d)[x - 1], T.batch[T.puts[x]]) = "stored",
         PutOutcome(Committed(T, d)[y - 1], T.batch[T.puts[y]]) = "stored",
         T.batch[T.puts[x]].id = T.batch[T.puts[y]].id
  PROVE  x = y
  <1>1. PICK n \in Nat : n = Len(T.puts) /\ DOMAIN T.puts = 1..n
    <2>1. T.puts \in Seq(Plain(T.batch))
      BY DEF Task
    <2> QED BY <2>1, LenProperties
  <1>2. PICK f : f = Committed(T, d)
    OBVIOUS
  <1>3. ASSUME NEW u \in 1..n, NEW v \in 1..n, u < v,
               PutOutcome(f[u - 1], T.batch[T.puts[u]]) = "stored",
               PutOutcome(f[v - 1], T.batch[T.puts[v]]) = "stored", T.batch[T.puts[u]].id = T.batch[T.puts[v]].id
        PROVE  FALSE
    <2>1. v - 1 \in u..n
      BY <1>3
    <2>2. T.batch[T.puts[u]].id \in f[v - 1].events
      BY <1>1, <1>2, <1>3, <2>1, RunStays
    <2> QED BY <1>3, <2>2 DEF PutOutcome
  <1>4. x \in 1..n /\ y \in 1..n
    BY <1>1
  <1>5. ~(x < y) /\ ~(y < x)
    BY <1>2, <1>3, <1>4
  <1> QED BY <1>4, <1>5

\* What the puts of a run are answered.
LEMMA FinishedIs ==
  ASSUME menu \in Menus, NEW c \in Conns, NEW T, Task(c, T), NEW o, \A k \in DOMAIN T.puts : o[k] \in Said
  PROVE  LET U == FinishedRun(T, o)
         IN  /\ U.batch = T.batch /\ U.i = T.i /\ U.at = "after" /\ U.run = T.run
             /\ \A j \in DOMAIN T.batch :
                  /\ j \in ToSet(T.puts) => /\ U.slots[j] # Unset /\ U.slots[j].id = T.batch[j].id
                                            /\ \E k \in DOMAIN T.puts : T.puts[k] = j /\ U.slots[j].ans = o[k]
                  /\ j \notin ToSet(T.puts) => U.slots[j] = T.slots[j]
  <1>0. TaskFields \subseteq DOMAIN T /\ T.slots \in [DOMAIN T.batch -> Answer]
    BY DEF Task
  <1>1. PICK kept : kept = OnlyIn(T.puts, OutcomeSlots(T, o, Accepted))
    OBVIOUS
  <1>2. PICK known : known = T.known \union {T.batch[j].id : j \in OutcomeSlots(T, o, Accepted \union {"duplicate"})}
    OBVIOUS
  <1>3. PICK slots : slots = [j \in DOMAIN T.slots |-> IF j \in ToSet(T.puts)
                                 THEN [id |-> T.batch[j].id, ans |-> o[CHOOSE k \in DOMAIN T.puts : Slot(T, k) = j]]
                                 ELSE T.slots[j]]
    OBVIOUS
  <1>4. PICK U : U = [[[[T EXCEPT !.slots = slots] EXCEPT !.puts = kept] EXCEPT !.known = known] EXCEPT !.at = "after"]
    OBVIOUS
  <1>5. FinishedRun(T, o) = U
    BY <1>1, <1>2, <1>3, <1>4 DEF FinishedRun
  <1>6. U.batch = T.batch /\ U.i = T.i /\ U.run = T.run /\ U.slots = slots /\ U.at = "after"
    BY <1>0, <1>4 DEF TaskFields
  <1>7. ASSUME NEW j \in DOMAIN T.batch
        PROVE  /\ j \in ToSet(T.puts) => /\ slots[j] # Unset /\ slots[j].id = T.batch[j].id
                                         /\ \E k \in DOMAIN T.puts : T.puts[k] = j /\ slots[j].ans = o[k]
               /\ j \notin ToSet(T.puts) => slots[j] = T.slots[j]
    <2>1. CASE j \in ToSet(T.puts)
      <3>1. \E k \in DOMAIN T.puts : Slot(T, k) = j
        BY <2>1 DEF ToSet, Slot
      <3>2. PICK k : k \in DOMAIN T.puts /\ Slot(T, k) = j /\ k = CHOOSE x \in DOMAIN T.puts : Slot(T, x) = j
        BY <3>1
      <3>3. PICK a \in Said : a = o[k]
        BY <3>2
      <3>4. T.batch[j].id \in Nat
        BY BatchIs DEF SentEvent
      <3>5. slots[j] = [id |-> T.batch[j].id, ans |-> a]
        BY <1>0, <1>3, <2>1, <3>2, <3>3
      <3>6. slots[j] # Unset /\ slots[j].id = T.batch[j].id /\ slots[j].ans = a
        BY <3>4, <3>5, NoAnswer
      <3> QED BY <2>1, <3>2, <3>3, <3>6 DEF Slot
    <2>2. CASE j \notin ToSet(T.puts)
      BY <1>0, <1>3, <2>2
    <2> QED BY <2>1, <2>2
  <1> QED BY <1>5, <1>6, <1>7

\* A run is committed: what gets a yes was not recorded before.
LEMMA RunCommitAnswers ==
  ASSUME IntakeTypes, RoleTypes, AnswerInv, NEW c \in Conns, Step(c), RunCommit(c)
  PROVE  AnswerStep(c)
  <1>0. /\ Doing(c) /\ Past(c) /\ Claims /\ menu' = menu /\ Tasks /\ menu \in Menus /\ DbType(db)
        /\ \A d \in Conns \ {c} : conn'[d] = conn[d]
        /\ DOMAIN conn = Conns /\ conn[c].at = "queued" /\ ~Undo(c) /\ answered' = answered
    BY OthersSame DEF AnswerInv, IntakeTypes, Tasks, RoleTypes, RunCommit, Undo
  <1>1. PICK T : T = conn[c]
    OBVIOUS
  <1>2. Task(c, T) /\ Named(T) /\ Covered(T) /\ T.at = "queued"
    BY <1>0, <1>1 DEF Tasks, Doing
  <1>3. PICK lost \in Fault("lost") :
          /\ db' = IF lost THEN db ELSE Committed(T, db)[Len(T.puts)]
          /\ conn' = [conn EXCEPT ![c] = FinishedRun(T, Outcomes(T, db, lost))]
    BY <1>1 DEF RunCommit
  <1>4. PICK o : o = Outcomes(T, db, lost)
    OBVIOUS
  <1>5. PICK f : f = Committed(T, db)
    OBVIOUS
  <1>6. \A k \in DOMAIN T.puts : o[k] \in Said /\ (o[k] = "stored" => ~lost /\ PutOutcome(f[k - 1], T.batch[T.puts[k]]) = "stored")
    BY <1>4, <1>5, OutcomeIs DEF Outcomes, Said
  <1>7. PICK U : U = FinishedRun(T, o)
    OBVIOUS
  <1>8. conn'[c] = U
    BY <1>0, <1>3, <1>4, <1>7
  <1>9. /\ U.batch = T.batch /\ U.i = T.i /\ U.at = "after" /\ U.run = T.run
        /\ \A j \in DOMAIN T.batch :
             /\ j \in ToSet(T.puts) => /\ U.slots[j] # Unset /\ U.slots[j].id = T.batch[j].id
                                       /\ \E k \in DOMAIN T.puts : T.puts[k] = j /\ U.slots[j].ans = o[k]
             /\ j \notin ToSet(T.puts) => U.slots[j] = T.slots[j]
    BY <1>0, <1>2, <1>6, <1>7, FinishedIs
  <1>10. Named(U) /\ Covered(U)
    BY <1>2, <1>9 DEF Named, Covered
  <1>11. Doing(c)'
    BY <1>0, <1>1, <1>2, <1>8, <1>9, <1>10, DoingOn
  <1>12. PICK N : N = Len(answered[c]) + 1
    OBVIOUS
  <1>13. T.batch = menu.send[c][N]
    BY <1>0, <1>1, <1>2, <1>12 DEF Doing
  \* A new yes is that of a put.
  <1>14. \A j : Yes(U, j) => \/ Yes(T, j)
                             \/ \E k \in DOMAIN T.puts : T.puts[k] = j /\ o[k] = "stored"
    <2> TAKE j
    <2> HAVE Yes(U, j)
    <2>1. j \in DOMAIN T.batch /\ T.batch[j].cls \in Promised /\ U.slots[j] # Unset /\ U.slots[j].ans = "stored"
      BY <1>9 DEF Yes
    <2>2. CASE j \in ToSet(T.puts)
      BY <1>9, <2>1, <2>2
    <2>3. CASE j \notin ToSet(T.puts)
      BY <1>2, <1>9, <2>1, <2>3 DEF Yes
    <2> QED BY <2>2, <2>3
  \* Such an event was not recorded, and is now.
  <1>15. ASSUME NEW k \in DOMAIN T.puts, o[k] = "stored"
         PROVE  ~Recorded(T.batch[T.puts[k]].id) /\ T.batch[T.puts[k]].id \in db'.events
    <2>1. PICK n \in Nat : n = Len(T.puts) /\ DOMAIN T.puts = 1..n /\ T.puts[k] \in DOMAIN T.batch
      <3>1. T.puts \in Seq(Plain(T.batch))
        BY <1>2 DEF Task
      <3>2. \A x \in Plain(T.batch) : x \in DOMAIN T.batch
        BY DEF Plain
      <3> QED BY <3>1, <3>2, LenProperties, ElementOfSeq
    <2>2. PICK e \in SentEvent : e = T.batch[T.puts[k]] /\ menu.event[e.id] = e
      BY <1>0, <1>2, <2>1, BatchIs
    <2>3. k - 1 \in 0..n /\ n \in k..n
      BY <2>1
    <2>4. PICK p : p = f[k - 1]
      OBVIOUS
    <2>5. PutOutcome(p, e) = "stored" /\ ~lost
      BY <1>6, <1>15, <2>2, <2>4
    <2>6. SameDb(db, p) /\ db.events \subseteq p.events
      BY <1>0, <1>2, <1>5, <2>1, <2>3, <2>4, CommittedIs
    <2>7. ~Recorded(e.id)
      BY <2>2, <2>5, <2>6 DEF PutOutcome, Recorded, SameDb
    <2>8. e.id \in f[n].events
      BY <1>0, <1>2, <1>5, <2>1, <2>2, <2>3, <2>4, <2>5, RunStays
    <2> QED BY <1>3, <1>5, <2>1, <2>2, <2>5, <2>7, <2>8
  <1>16. \A n, k : Claim(c, n, k)' => \/ Claim(c, n, k)
                                      \/ n = N /\ \E x \in DOMAIN T.puts : T.puts[x] = k /\ o[x] = "stored"
    <2>1. \A k : Yes(conn[c], k)' <=> Yes(U, k)
      BY <1>8 DEF Yes
    <2> QED BY <1>0, <1>1, <1>12, <1>14, <2>1 DEF Claim
  <1>17. \A k : SentId(c, N, k) = T.batch[k].id
    BY <1>13 DEF SentId
  <1>18. \A n, k : Claim(c, n, k)' => Recorded(SentId(c, n, k))' /\ (Claim(c, n, k) \/ ~Recorded(SentId(c, n, k)))
    <2> TAKE n, k
    <2> HAVE Claim(c, n, k)'
    <2>1. CASE Claim(c, n, k)
      BY <1>0, <2>1, KeepRecorded
    <2>2. CASE n = N /\ \E x \in DOMAIN T.puts : T.puts[x] = k /\ o[x] = "stored"
      <3>1. PICK x \in DOMAIN T.puts : T.puts[x] = k /\ o[x] = "stored"
        BY <2>2
      <3>2. PICK i : i = T.batch[k].id
        OBVIOUS
      <3>3. ~Recorded(i) /\ i \in db'.events
        BY <1>15, <3>1, <3>2
      <3>4. SentId(c, n, k) = i /\ SentId(c, n, k)' = i
        BY <1>0, <1>17, <2>2, <3>2 DEF SentId
      <3>5. Recorded(SentId(c, n, k))'
        BY <3>3, <3>4 DEF Recorded
      <3> QED BY <3>3, <3>4, <3>5
    <2> QED BY <1>16, <2>1, <2>2
  <1>19. \A n, k, m, j : Claim(c, n, k)' /\ Claim(c, m, j)' /\ SentId(c, n, k) = SentId(c, m, j) /\ ~Recorded(SentId(c, n, k)) => n = m /\ k = j
    <2> TAKE n, k, m, j
    <2> HAVE Claim(c, n, k)' /\ Claim(c, m, j)' /\ SentId(c, n, k) = SentId(c, m, j) /\ ~Recorded(SentId(c, n, k))
    <2>1. ~Claim(c, n, k) /\ ~Claim(c, m, j)
      BY <1>0 DEF Claims
    <2>2. n = N /\ m = N
      BY <1>16, <2>1
    <2>3. PICK x \in DOMAIN T.puts : T.puts[x] = k /\ o[x] = "stored"
      BY <1>16, <2>1
    <2>4. PICK y \in DOMAIN T.puts : T.puts[y] = j /\ o[y] = "stored"
      BY <1>16, <2>1
    <2>5. T.batch[T.puts[x]].id = T.batch[T.puts[y]].id
      BY <1>17, <2>2, <2>3, <2>4
    <2>6. /\ PutOutcome(Committed(T, db)[x - 1], T.batch[T.puts[x]]) = "stored"
          /\ PutOutcome(Committed(T, db)[y - 1], T.batch[T.puts[y]]) = "stored"
      BY <1>5, <1>6, <2>3, <2>4
    <2>7. x = y
      BY <1>0, <1>2, <2>5, <2>6, StoredOnce
    <2> QED BY <2>2, <2>3, <2>4, <2>7
  <1>20. Claims'
    <2>1. \A d \in Conns \ {c} : conn'[d] = conn[d] /\ answered'[d] = answered[d]
      BY <1>0
    <2>2. \A d \in Conns \ {c} : \A n, k : Claim(d, n, k) => Recorded(SentId(d, n, k))'
      BY <1>0, KeepRecorded
    <2> QED BY <1>0, <1>18, <1>19, <2>1, <2>2, ClaimStep
  <1>21. Past(c)'
    BY <1>0, PastOn
  <1> QED BY <1>11, <1>20, <1>21 DEF AnswerStep

\* A step of a connection keeps the invariant.
LEMMA ConnAnswers ==
  ASSUME IntakeTypes, RoleTypes, AnswerInv, NEW c \in Conns, Step(c)
  PROVE  AnswerInv'
  <1>1. AnswerStep(c)
    BY SoloAnswers, PutAnswers, UndoAnswers, BeginAnswers, RouteAnswers, RunCheckAnswers, RunCommitAnswers, AfterAnswers DEF Step
  <1>2. MarksOK'
    BY StepRecord DEF AnswerInv
  <1>3. \A d \in Conns \ {c} : conn'[d] = conn[d] /\ answered'[d] = answered[d]
    BY OthersSame, AnsweredSame DEF IntakeTypes
  <1>4. menu' = menu
    BY OthersSame DEF IntakeTypes
  <1>5. \A d \in Conns \ {c} : Doing(d)' /\ Past(d)'
    <2> TAKE d \in Conns \ {c}
    <2>1. Doing(d) /\ Past(d) /\ conn'[d] = conn[d] /\ answered'[d] = answered[d]
      BY <1>3 DEF AnswerInv
    <2>2. Past(d)'
      BY <1>4, <2>1, PastOn
    <2>3. Named(conn[d])' <=> Named(conn[d])
      BY <2>1 DEF Named
    <2>4. Covered(conn[d])' <=> Covered(conn[d])
      BY <2>1 DEF Covered
    <2>5. E(d)' = E(d)
      BY <2>1 DEF E
    <2>6. Doing(d)'
      BY <1>4, <2>1, <2>3, <2>4, <2>5 DEF Doing
    <2> QED BY <2>2, <2>6
  <1> QED BY <1>1, <1>2, <1>5 DEF AnswerInv, AnswerStep

\* A step that claims nothing new.
LEMMA AllQuiet ==
  ASSUME Claims, menu' = menu, \A d \in Conns : \A n, k : Claim(d, n, k)' => Claim(d, n, k),
         \A d \in Conns : \A n, k : Claim(d, n, k) => Recorded(SentId(d, n, k))'
  PROVE  Claims'
  <1>1. \A d, n, k : SentId(d, n, k)' = SentId(d, n, k)
    BY DEF SentId
  <1>2. \A x, y \in Conns : \A n, k, m, j : Claim(x, n, k) /\ Claim(y, m, j) /\ SentId(y, m, j) = SentId(x, n, k) => x = y /\ n = m /\ k = j
    BY DEF Claims
  <1> QED BY <1>1, <1>2 DEF Claims

\* A step that keeps what is recorded of the promised classes.
LEMMA KeepPromised ==
  ASSUME IntakeTypes, AnswerInv, menu' = menu,
         \A i : Recorded(i) /\ menu.event[i].cls \in Promised => Recorded(i)'
  PROVE  \A d \in Conns : \A n, k : Claim(d, n, k) => Recorded(SentId(d, n, k))'
  <1> TAKE d \in Conns
  <1> TAKE n, k
  <1> HAVE Claim(d, n, k)
  <1>1. PICK i : i = SentId(d, n, k)
    OBVIOUS
  <1>2. Doing(d) /\ Past(d) /\ Claims
    BY DEF AnswerInv
  <1>3. menu.event[i].cls \in Promised
    BY <1>1, <1>2, ClaimEvent
  <1>4. Recorded(i)
    BY <1>1, <1>2 DEF Claims
  <1>5. Recorded(i)'
    BY <1>3, <1>4
  <1>6. SentId(d, n, k)' = i
    BY <1>1 DEF SentId
  <1> QED BY <1>5, <1>6 DEF Recorded

\* A step of the process that leaves the tasks alone.
LEMMA StillAnswers ==
  ASSUME IntakeTypes, AnswerInv, menu' = menu, conn' = conn, answered' = answered, MarksOK',
         \A i : Recorded(i) /\ menu.event[i].cls \in Promised => Recorded(i)'
  PROVE  AnswerInv'
  <1>1. \A d \in Conns : \A n, k : Claim(d, n, k)' => Claim(d, n, k)
    BY DEF Claim, Yes
  <1>2. Claims'
    BY <1>1, KeepPromised, AllQuiet DEF AnswerInv
  <1>3. \A d \in Conns : Doing(d)' /\ Past(d)'
    <2> TAKE d \in Conns
    <2>1. Doing(d) /\ Past(d)
      BY DEF AnswerInv
    <2>2. Named(conn[d])' <=> Named(conn[d])
      BY DEF Named
    <2>3. Covered(conn[d])' <=> Covered(conn[d])
      BY DEF Covered
    <2>4. E(d)' = E(d)
      BY DEF E
    <2> QED BY <2>1, <2>2, <2>3, <2>4, PastOn DEF Doing
  <1> QED BY <1>2, <1>3 DEF AnswerInv

\* A crash: the batches in hand are not answered.
LEMMA CrashAnswers ==
  ASSUME IntakeTypes, RoleTypes, AnswerInv, Crash
  PROVE  AnswerInv'
  <1>1. menu' = menu /\ db' = db /\ \A d \in Conns : conn'[d] = IdleConn
    BY DEF Crash
  <1>2. IdleConn.at = "idle"
    BY DEF IdleConn
  <1>3. MarksOK' /\ \A i : Recorded(i) => Recorded(i)'
    BY <1>1 DEF AnswerInv, MarksOK, Recorded
  <1>4. ASSUME NEW d \in Conns PROVE (\A n, k : Claim(d, n, k)' => Claim(d, n, k)) /\ Doing(d)' /\ Past(d)'
    <2>1. Past(d)
      BY DEF AnswerInv
    <2>2. Doing(d)'
      BY <1>1, <1>2 DEF Doing
    <2>3. \A k : ~Yes(conn[d], k)'
      BY <1>1, <1>2 DEF Yes
    <2>4. CASE conn[d].at = "idle"
      <3>1. answered'[d] = answered[d]
        BY <2>4 DEF Crash
      <3>2. \A n, k : Claim(d, n, k)' => Claim(d, n, k)
        BY <1>1, <2>3, <3>1 DEF Claim
      <3>3. Past(d)'
        BY <1>1, <2>1, <3>1, PastOn
      <3> QED BY <2>2, <3>2, <3>3
    <2>5. CASE conn[d].at # "idle"
      <3>1. PICK A, e : A = Seq(Answer) /\ e = <<>>
        OBVIOUS
      <3>2. answered'[d] = Append(answered[d], e)
        BY <2>5, <3>1 DEF Crash
      <3>3. answered[d] \in Seq(A) /\ e \in A /\ DOMAIN e = {}
        BY <3>1 DEF IntakeTypes
      <3>4. PICK L \in Nat : L = Len(answered[d]) /\ DOMAIN answered[d] = 1..L
        BY <3>3, LenProperties
      <3>5. PICK w : w = Append(answered[d], e)
        OBVIOUS
      <3>6. w \in Seq(A) /\ Len(w) = L + 1 /\ w[L + 1] = e /\ \A n \in 1..L : w[n] = answered[d][n]
        BY <3>3, <3>4, <3>5, AppendProperties
      <3>7. DOMAIN w = 1..(L + 1) /\ answered'[d] = w
        BY <3>2, <3>5, <3>6, LenProperties
      <3>8. \A n \in DOMAIN w : w[n] # <<>> => n \in 1..L
        BY <3>1, <3>6, <3>7
      <3>9. \A n, k : Claim(d, n, k)' => Claim(d, n, k)
        <4> TAKE n, k
        <4> HAVE Claim(d, n, k)'
        <4>1. n \in DOMAIN w /\ k \in DOMAIN w[n] /\ w[n][k].ans = "stored" /\ menu.send[d][n][k].cls \in Promised
          BY <1>1, <2>3, <3>7 DEF Claim
        <4>2. n \in 1..L
          <5>1. n # L + 1
            BY <3>3, <3>6, <4>1
          <5> QED BY <3>7, <4>1, <5>1
        <4> QED BY <3>4, <3>6, <4>1, <4>2 DEF Claim
      <3>10. Past(d)'
        <4> SUFFICES ASSUME NEW n \in DOMAIN w, w[n] # <<>>
                     PROVE  /\ n \in DOMAIN menu.send[d] /\ Len(w[n]) = Len(menu.send[d][n])
                            /\ \A k \in DOMAIN w[n] : w[n][k] # Unset /\ w[n][k].id = menu.send[d][n][k].id
          BY <1>1, <3>7 DEF Past
        <4>1. n \in DOMAIN answered[d] /\ w[n] = answered[d][n]
          BY <3>4, <3>6, <3>8
        <4>2. PICK x : x = answered[d][n]
          OBVIOUS
        <4>3. /\ n \in DOMAIN menu.send[d] /\ Len(x) = Len(menu.send[d][n])
              /\ \A k \in DOMAIN x : x[k] # Unset /\ x[k].id = menu.send[d][n][k].id
          BY <2>1, <4>1, <4>2 DEF Past
        <4> QED BY <4>1, <4>2, <4>3
      <3> QED BY <2>2, <3>9, <3>10
    <2> QED BY <2>4, <2>5
  <1>5. Claims'
    BY <1>1, <1>3, <1>4, KeepPromised, AllQuiet DEF AnswerInv
  <1> QED BY <1>3, <1>4, <1>5 DEF AnswerInv

\* The start after a stop: the marked events are group actions, and the pending deletions are recorded.
LEMMA RecoverAnswers ==
  ASSUME IntakeTypes, RoleTypes, AnswerInv, Recover
  PROVE  AnswerInv'
  <1>1. menu' = menu /\ conn' = conn /\ answered' = answered /\ DbFields \subseteq DOMAIN db
    BY DEF Recover, RoleTypes, DbType
  <1>2. PICK d : d = [db EXCEPT !.events = (@ \ db.marks) \ db.pending, !.marks = {}, !.pending = {}, !.deleted = @ \union db.pending]
    OBVIOUS
  <1>3. /\ d.events = (db.events \ db.marks) \ db.pending /\ d.marks = {} /\ d.deleted = db.deleted \union db.pending
        /\ d.vanished = db.vanished /\ DbFields \subseteq DOMAIN d
    BY <1>1, <1>2 DEF DbFields
  <1>4. PICK R, J, A : db' = [d EXCEPT !.role = R, !.journal = J, !.applied = A]
    BY <1>2 DEF Recover
  <1>5. db'.events = d.events /\ db'.marks = d.marks /\ db'.deleted = d.deleted /\ db'.vanished = d.vanished
    BY <1>3, <1>4 DEF DbFields
  <1>6. MarksOK'
    BY <1>3, <1>5 DEF MarksOK
  <1>7. \A i : Recorded(i) /\ menu.event[i].cls \in Promised => Recorded(i)'
    BY <1>1, <1>3, <1>5 DEF Recorded, AnswerInv, MarksOK, Promised, GroupActions
  <1> QED BY <1>1, <1>6, <1>7, StillAnswers

\* The other steps of the process do not touch the events.
LEMMA OtherAnswers ==
  ASSUME IntakeTypes, RoleTypes, AnswerInv, PersistRoles \/ ClockTick \/ Stop \/ UNCHANGED ivars
  PROVE  AnswerInv'
  <1>1. menu' = menu /\ conn' = conn /\ answered' = answered /\ DbFields \subseteq DOMAIN db
    BY DEF PersistRoles, ClockTick, Stop, ivars, RoleTypes, DbType
  <1>2. db' = db \/ (\E R : db' = [db EXCEPT !.role = R]) \/ \E P : db' = [db EXCEPT !.pending = P]
    BY DEF PersistRoles, ClockTick, Stop, ivars
  <1>3. db'.events = db.events /\ db'.marks = db.marks /\ db'.deleted = db.deleted /\ db'.vanished = db.vanished
    BY <1>1, <1>2 DEF DbFields
  <1>4. MarksOK' /\ \A i : Recorded(i) => Recorded(i)'
    BY <1>1, <1>3 DEF MarksOK, Recorded, AnswerInv
  <1> QED BY <1>1, <1>4, StillAnswers

\* At the start nothing is answered.
LEMMA InitAnswers ==
  ASSUME IntakeInit
  PROVE  AnswerInv
  <1>1. /\ \A c \in Conns : conn[c] = IdleConn /\ answered[c] = <<>>
        /\ db.marks = {}
    BY DEF IntakeInit
  <1>2. IdleConn.at = "idle" /\ DOMAIN <<>> = {}
    BY DEF IdleConn
  <1>3. \A c \in Conns : Doing(c) /\ Past(c) /\ \A n, k : ~Claim(c, n, k)
    BY <1>1, <1>2 DEF Doing, Past, Claim, Yes
  <1> QED BY <1>1, <1>3 DEF AnswerInv, MarksOK, Claims

\* What the invariant says of the answers.
LEMMA AnswersFollow ==
  ASSUME IntakeTypes, AnswerInv
  PROVE  AnswersTrue
  <1>0. \A c \in Conns : Doing(c) /\ Past(c)
    BY DEF AnswerInv
  <1>1. \A c \in Conns : \A n \in DOMAIN answered[c] : answered[c][n] # <<>> =>
             /\ Len(answered[c][n]) = Len(menu.send[c][n])
             /\ \A k \in DOMAIN answered[c][n] : answered[c][n][k] # Unset /\ answered[c][n][k].id = menu.send[c][n][k].id
    BY <1>0 DEF Past
  <1>2. ASSUME NEW c \in Conns, NEW x \in SaidStored(c)
        PROVE  /\ Claim(c, x[1], x[2]) /\ SentId(c, x[1], x[2]) = menu.send[c][x[1]][x[2]].id /\ x = <<x[1], x[2]>>
    <2>1. x \in Answers(c) /\ answered[c][x[1]][x[2]].ans = "stored" /\ menu.send[c][x[1]][x[2]].cls \in Promised
      BY <1>2 DEF SaidStored, Promised
    <2>2. PICK n \in DOMAIN answered[c] : x \in {n} \X (DOMAIN answered[c][n])
      BY <2>1 DEF Answers
    <2>3. x[1] = n /\ x[2] \in DOMAIN answered[c][n] /\ x = <<x[1], x[2]>>
      BY <2>2
    <2> QED BY <2>1, <2>2, <2>3 DEF Claim, SentId
  <1>3. ASSUME NEW c \in Conns, NEW x \in SaidStored(c)
        PROVE  LET e == menu.send[c][x[1]][x[2]]
               IN  /\ e.id \in db.events \union db.deleted \/ e.author \in db.vanished
                   /\ \A d \in Conns : \A y \in SaidStored(d) : menu.send[d][y[1]][y[2]].id = e.id => <<c, x>> = <<d, y>>
    <2>1. Claim(c, x[1], x[2]) /\ SentId(c, x[1], x[2]) = menu.send[c][x[1]][x[2]].id /\ x = <<x[1], x[2]>>
      BY <1>2, <1>3
    <2>2. PICK e : e = menu.send[c][x[1]][x[2]]
      OBVIOUS
    <2>3. menu.event[e.id] = e
      BY <1>0, <2>1, <2>2, ClaimEvent
    <2>4. Recorded(e.id)
      BY <2>1, <2>2 DEF AnswerInv, Claims
    <2>5. \A d \in Conns : \A y \in SaidStored(d) : menu.send[d][y[1]][y[2]].id = e.id => <<c, x>> = <<d, y>>
      <3> SUFFICES ASSUME NEW d \in Conns, NEW y \in SaidStored(d), menu.send[d][y[1]][y[2]].id = e.id PROVE c = d /\ x = y
        OBVIOUS
      <3>1. Claim(d, y[1], y[2]) /\ SentId(d, y[1], y[2]) = e.id /\ y = <<y[1], y[2]>>
        BY <1>2
      <3>2. c = d /\ x[1] = y[1] /\ x[2] = y[2]
        BY <2>1, <2>2, <3>1 DEF AnswerInv, Claims
      <3> QED BY <2>1, <3>1, <3>2
    <2> QED BY <2>2, <2>3, <2>4, <2>5 DEF Recorded
  <1> QED BY <1>1, <1>3 DEF AnswersTrue

\* AnswersTrue holds for every number of connections and batches, however runs, single events, failures and stops interleave.
THEOREM AnswersCorrect == IntakeSpec => []AnswersTrue
  <1>1. IntakeInit => RoleInv /\ AnswerInv
    BY InitRoles, InitAnswers
  <1>2. IntakeTypes /\ RoleInv /\ [IntakeNext]_ivars => RoleInv'
    BY RoleStep
  <1>3. IntakeTypes /\ RoleInv /\ AnswerInv /\ [IntakeNext]_ivars => AnswerInv'
    <2> SUFFICES ASSUME IntakeTypes, RoleTypes, AnswerInv, [IntakeNext]_ivars PROVE AnswerInv'
      BY DEF RoleInv
    <2> QED BY ConnAnswers, CrashAnswers, RecoverAnswers, OtherAnswers DEF IntakeNext
  <1>4. IntakeTypes /\ AnswerInv => AnswersTrue
    BY AnswersFollow
  <1> QED BY <1>1, <1>2, <1>3, <1>4, TypesHold, PTL DEF IntakeSpec
=============================================================================
