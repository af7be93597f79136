----------------------------- MODULE PublishRate -----------------------------
(***************************************************************************)
(* The sliding windows of the publish and join limiters (relay/mod.rs,     *)
(* PublishRate): a bounded map of one window of timestamps per author with *)
(* two ordered indices over it.  A limiter is the record                   *)
(*   [win, recency, evictable, limit, pruned].                             *)
(***************************************************************************)
EXTENDS Naturals, Sequences, FiniteSets, SequencesExt, Functions

CONSTANTS
    Window,   \* 60 seconds
    Tracked   \* MAX_TRACKED_PUBKEYS

ASSUME RateConstants == Window \in Nat /\ Tracked \in Nat \ {0}

NoWindows == [win |-> <<>>, recency |-> {}, evictable |-> {}, limit |-> 0, pruned |-> 0]

\* The elements of q that are in S, in their order.
OnlyIn(q, S) ==
    LET kept[n \in 0..Len(q)] ==
          IF n = 0 THEN <<>> ELSE IF q[n] \in S THEN Append(kept[n - 1], q[n]) ELSE kept[n - 1]
    IN  kept[Len(q)]

\* prune keeps what is live; allow only drops what expired at the front, and a timestamp of a slower batch may stand behind
\* a later one.
LiveEntry(w, now) == OnlyIn(w, {t \in ToSet(w) : now - t < Window})
PopExpired(w, now) ==
    LET live == {k \in DOMAIN w : now - w[k] < Window}
    IN  IF live = {} THEN <<>> ELSE SubSeq(w, Min(live), Len(w))

\* index_insert: every window is in recency, the unsaturated ones in evictable.
IndexInsert(l, a, last, saturated) ==
    [l EXCEPT !.recency = @ \union {<<last, a>>},
              !.evictable = IF saturated THEN @ ELSE @ \union {<<last, a>>}]

IndexRemove(l, a, last) ==
    [l EXCEPT !.recency = @ \ {<<last, a>>}, !.evictable = @ \ {<<last, a>>}]

RebuildIndices(l) ==
    LET rows(S) == {<<Last(l.win[a]), a>> : a \in S}
    IN  [l EXCEPT !.recency = rows(DOMAIN l.win),
                  !.evictable = rows({a \in DOMAIN l.win : Len(l.win[a]) < l.limit})]

Prune(l, now) ==
    LET kept == {a \in DOMAIN l.win : LiveEntry(l.win[a], now) # <<>>}
    IN  RebuildIndices([l EXCEPT !.win = [a \in kept |-> LiveEntry(l.win[a], now)]])

\* One eviction: the least recent unsaturated window, or the least recent of all
\* (authors are numbers, in the order of their keys).
Oldest(S) == CHOOSE r \in S : \A q \in S : r[1] < q[1] \/ (r[1] = q[1] /\ r[2] <= q[2])
Evict(l) ==
    LET r == Oldest(IF l.evictable # {} THEN l.evictable ELSE l.recency)
    IN  [IndexRemove(l, r[2], r[1]) EXCEPT !.win = Restrict(@, DOMAIN l.win \ {r[2]})]

\* A full map is pruned at most once a second, then gives up one window.
RateRoom(l, now) ==
    IF Cardinality(DOMAIN l.win) < Tracked THEN l
    ELSE LET p == IF now - l.pruned >= 1 THEN Prune([l EXCEPT !.pruned = now], now) ELSE l
         IN  IF Cardinality(DOMAIN p.win) < Tracked THEN p ELSE Evict(p)

\* The first timestamp of an author.
Opened(w, a, now) == [b \in DOMAIN w \union {a} |-> IF b = a THEN <<now>> ELSE w[b]]

\* allow: [ok, l]
Allow(l0, max, a, now) ==
    LET l == IF l0.limit = max THEN l0 ELSE RebuildIndices([l0 EXCEPT !.limit = max])
    IN  IF a \in DOMAIN l.win
        THEN LET w == PopExpired(l.win[a], now)
             IN  IF Len(w) >= max
                 THEN [ok |-> FALSE, l |-> [l EXCEPT !.win[a] = w]]
                 ELSE [ok |-> TRUE,
                       l |-> IndexInsert(IndexRemove([l EXCEPT !.win[a] = Append(w, now)],
                                                     a, Last(l.win[a])),
                                         a, now, Len(w) + 1 >= max)]
        ELSE LET r == RateRoom(l, now)
             IN  [ok |-> TRUE,
                  l |-> IndexInsert([r EXCEPT !.win = Opened(@, a, now)], a, now, 1 >= max)]

\* Mutant: a released reservation leaves the indices as they were.
RollbackMutant(l, a, now) ==
    IF a \notin DOMAIN l.win \/ ~ \E k \in DOMAIN l.win[a] : l.win[a][k] = now THEN l
    ELSE LET k == CHOOSE k \in DOMAIN l.win[a] :
                    l.win[a][k] = now /\ \A j \in DOMAIN l.win[a] : l.win[a][j] = now => j <= k
             w == RemoveAt(l.win[a], k)
         IN  [l EXCEPT !.win = IF w = <<>> THEN Restrict(@, DOMAIN @ \ {a}) ELSE [@ EXCEPT ![a] = w]]

\* rollback: takes back one reservation of this second; an empty window leaves the map.
Rollback(l, a, now) ==
    IF a \notin DOMAIN l.win \/ ~ \E k \in DOMAIN l.win[a] : l.win[a][k] = now THEN l
    ELSE LET k == CHOOSE k \in DOMAIN l.win[a] :
                    l.win[a][k] = now /\ \A j \in DOMAIN l.win[a] : l.win[a][j] = now => j <= k
             w == RemoveAt(l.win[a], k)
             out == IndexRemove(l, a, Last(l.win[a]))
         IN  IF w = <<>> THEN [out EXCEPT !.win = Restrict(@, DOMAIN @ \ {a})]
             ELSE IndexInsert([out EXCEPT !.win[a] = w], a, Last(w), Len(w) >= l.limit)

\* One reservation after the other: at the positions due, for who[k]; the others pass.
AllowAll(l, max, who, due, now) ==
    LET step[k \in 0..Len(who)] ==
          IF k = 0 THEN [l |-> l, ok |-> {}]
          ELSE LET p == step[k - 1]
                   r == IF k \in due THEN Allow(p.l, max, who[k], now) ELSE [ok |-> TRUE, l |-> p.l]
               IN  [l |-> r.l, ok |-> IF r.ok THEN p.ok \union {k} ELSE p.ok]
    IN  step[Len(who)]

\* One reservation of each author of who is taken back.
RollbackAll(l, who, now) ==
    LET back[k \in 0..Len(who)] == IF k = 0 THEN l ELSE Rollback(back[k - 1], who[k], now)
    IN  back[Len(who)]

\* The indices mirror the windows.
Mirrored(l) ==
    /\ l.recency = {<<Last(l.win[a]), a>> : a \in DOMAIN l.win}
    /\ \A a \in DOMAIN l.win : <<Last(l.win[a]), a>> \in l.evictable <=> Len(l.win[a]) < l.limit
    /\ l.evictable \subseteq l.recency
=============================================================================
