----------------------------- MODULE QueryScan -----------------------------
(***************************************************************************)
(* The query engine (db/scan.rs, filter.rs): a scan picks one index per      *)
(* filter, merges its ranges newest first, and collects what matches under    *)
(* limits, budgets and caps.  It runs in one read transaction beside the        *)
(* writer of IndexRebuild, so it sees that module's tables as they were when     *)
(* it began.                                                                      *)
(***************************************************************************)
EXTENDS IndexRebuild

CONSTANTS
    DfSample,   \* DF_SAMPLE: a term in this many events is too common to walk
    ByteCap,    \* COLLECT_BYTE_CAP
    SearchMult  \* SEARCH_BUDGET_MULTIPLIER, with SEARCH_BUDGET_MAX out of reach

VARIABLES
    scan,    \* the scan in hand
    dfcache, \* df_cache: terms to document frequencies, as old as the cache lets them be
    asked    \* scans begun

qvars == <<ivars, scan, dfcache, asked>>

-----------------------------------------------------------------------------
(* Filters *)

Or(x, y) == IF x = Nobody THEN y ELSE x
HasSearch(f) == f.search # {}

\* TagMatchPlan::new: f.tags holds [all, name, values].  A value asked for with & is left out of #; an empty list matches
\* nothing.
Impossible(f) == \E t \in f.tags : t.values = {}
TagPlan(f) ==
    LET wanted(n) == UNION {t.values : t \in {u \in f.tags : u.all /\ u.name = n}}
        any == {<<t.name, t.values \ wanted(t.name)>> : t \in {u \in f.tags : ~u.all}}
    IN  {c \in any : c[2] # {}} \union UNION {{<<t.name, {v}>> : v \in t.values} : t \in {u \in f.tags : u.all}}
\* TagMatchPlan::matches.
TagsMatch(f, id) == ~Impossible(f) /\ \A c \in TagPlan(f) : \E t \in Ev(id).tags : t[1] = c[1] /\ t[2] \in c[2]

\* nip50::matches_terms: one of the words is one of the terms.
TermsMatch(f, id) == f.search = {} \/ f.search \intersect ToSet(Ev(id).words) # {}
\* Filter::matches_with.  An event counts for its delegator too.
Matches(f, id) ==
    /\ f.ids # <<>> => \E i \in 1..Len(f.ids) : id \in f.ids[i].of
    /\ f.authors # {} => {Ev(id).author, Ev(id).delegator} \intersect f.authors # {}
    /\ f.kinds # {} => Ev(id).kind \in f.kinds
    /\ Ev(id).created >= f.since /\ Ev(id).created <= f.until
    /\ TermsMatch(f, id) /\ TagsMatch(f, id)
\* is_deliverable: a deletion marker, a ban and an expiration hide an event that is stored.
Deliverable(id) == Ev(id).hidden = "no"

-----------------------------------------------------------------------------
(* Collecting *)

\* filter_collect_cap: the limit of the filter, over-fetched for what a connection will not show.
FilterCollectCap(f, q) == Min({Min({Or(f.limit, q.max), q.max}) * (q.slack + 1), q.max})
Searching(q) == \E i \in 1..Len(q.filters) : HasSearch(q.filters[i])
OnlySearch(q) == q.kind = "query" /\ \A i \in 1..Len(q.filters) : HasSearch(q.filters[i])
\* scan_neg and scan: the cap of the whole collection.
NegCap(q) == IF Searching(q) THEN q.max * SearchMult ELSE q.max
CollectCap(q) ==
    CASE q.kind = "count" -> q.max
      [] q.kind = "neg" -> NegCap(q)
      [] q.kind = "query" /\ Searching(q) -> q.max * SearchMult
      [] OTHER -> LET sum == FoldSet(LAMBDA i, n : n + FilterCollectCap(q.filters[i], q), 0, 1..Len(q.filters))
                  IN  IF Len(q.filters) = 1 THEN sum ELSE Min({sum, q.max * SearchMult})

\* EventCollector::full and ItemCollector::full.
CollectorFull(s) ==
    LET cap == CollectCap(s.q)
    IN  \/ s.bytes >= ByteCap
        \/ Len(s.out) >= CASE s.q.kind = "count" -> cap
                           [] s.q.kind = "query" /\ s.q.slack > 0 -> 4 * cap
                           [] OTHER -> 2 * cap

Keep(s, id) == [s EXCEPT !.out = Append(@, <<id, s.f>>), !.count = @ + 1, !.bytes = @ + Ev(id).size, !.seen = @ \union {id}]
RefusedMutant(s) == [s EXCEPT !.stop = TRUE]   \* mutant: a cut is not reported
Refused(s) == [s EXCEPT !.stop = TRUE, !.more = TRUE]
Kept(s, id) == [Keep(s, id) EXCEPT !.boundary = IF s.count + 1 = s.limit THEN Ev(id).created ELSE @]
\* ItemCollector::push and push_light: past the limit only the events of the boundary second are taken.
PushItem(s, id) == IF s.count < s.limit \/ Ev(id).created = s.boundary THEN Kept(s, id) ELSE Refused(s)
\* EventCollector::push: the same up to twice the cap, and for a connection a reserve of older events; a count is cut at once.
PushEvent(s, id) ==
    LET created == Ev(id).created
    IN  IF s.count < s.limit THEN Kept(s, id)
        ELSE IF s.q.kind = "count" \/ created > s.boundary THEN Refused(s)
        ELSE IF created = s.boundary
        THEN IF Len(s.out) >= 2 * CollectCap(s.q) THEN [s EXCEPT !.skipped = TRUE] ELSE Keep(s, id)
        ELSE IF s.q.slack = 0 \/ (s.reserves >= s.limit /\ s.oldest # created) THEN Refused(s)
        ELSE [Keep(s, id) EXCEPT !.reserves = @ + 1, !.oldest = IF s.reserves + 1 = s.limit THEN created ELSE @]
Push(s, id) == IF s.q.kind = "neg" THEN PushItem(s, id) ELSE PushEvent(s, id)

\* consider_event.
Consider(s, id) ==
    IF CollectorFull(s) \/ s.examined + 1 > s.q.budget THEN [Refused(s) EXCEPT !.examined = @ + 1]
    ELSE LET t == [s EXCEPT !.examined = @ + 1]
             f == s.q.filters[s.f]
         IN  IF id \in s.seen \/ id \notin s.db.stored \/ ~Deliverable(id) \/ ~Matches(f, id) THEN t ELSE Push(t, id)

-----------------------------------------------------------------------------
(* Indexes *)

\* The order of a walk: keys end in the time and the id.  The list of ids is sorted the other way among equals.
Before(q, a, b) ==
    LET x == Ev(a).created
        y == Ev(b).created
    IN  IF q.asc THEN x < y \/ (x = y /\ a < b) ELSE x > y \/ (x = y /\ a > b)
InTime(f, id) == Ev(id).created >= f.since /\ Ev(id).created <= f.until
IndexRange(s, ids) == SetToSortSeq({id \in ids : InTime(s.q.filters[s.f], id)}, LAMBDA a, b : Before(s.q, a, b))

\* term_dfs: cached values first, the others counted in the index.
TermDf(db, t) ==
    IF t \in DOMAIN dfcache THEN dfcache[t]
    ELSE IF ~db.search THEN 0 ELSE Cardinality({k \in db.entries["word"] : k[1] = t})
Rare(s, t) == s.dfs[t] < DfSample /\ t # "long"

\* The ranges of the word index, the overflow range last; none when every term is too common.
WordRanges(s, f) ==
    LET kept == {t \in f.search : Rare(s, t)}
        range(t) == IndexRange(s, {k[2] : k \in {x \in s.db.entries["word"] : x[1] = t}})
    IN  IF kept = {} THEN <<>> ELSE SetToSeq({range(t) : t \in kept}) \o <<range("overflow")>>
ByWord(s, f) == HasSearch(f) /\ s.db.search /\ s.db.ready /\ WordRanges(s, f) # <<>>

\* scan_constraint: the smallest one; a long value and a name of several letters are in no index.
ScanConstraint(f) == CHOOSE c \in TagPlan(f) : \A d \in TagPlan(f) : Cardinality(c[2]) <= Cardinality(d[2])
ByTag(f) == TagPlan(f) # {} /\ ScanConstraint(f)[1] # "name" /\ "long" \notin ScanConstraint(f)[2]
ByKind(s, k) == {id \in s.db.stored : Ev(id).kind = k}
CreatedRange(s) == IndexRange(s, s.db.stored)
ByAuthor(s, a) == {id \in s.db.stored : Ev(id).author = a \/ <<a, id>> \in s.db.entries["delegation"]}
Tagged(s, name, v) == {id \in s.db.stored : <<name, v>> \in Ev(id).tags}

\* scan_filter: which ranges are walked.
WalkRanges(s, f) ==
    CASE Impossible(f) -> <<>>
      [] ByWord(s, f) -> WordRanges(s, f)
      [] f.authors # {} -> SetToSeq({IndexRange(s, ByAuthor(s, a)) : a \in f.authors})
      [] ByTag(f) -> SetToSeq({IndexRange(s, Tagged(s, ScanConstraint(f)[1], v)) : v \in ScanConstraint(f)[2]})
      [] f.kinds # {} -> SetToSeq({IndexRange(s, ByKind(s, k)) : k \in f.kinds})
      [] OTHER -> <<CreatedRange(s)>>

\* The list of ids: full ids up to the budget, prefixes by a walk that counts against it, then all of them in order.
GatherIds(s, f) ==
    LET take(g, e) ==
            IF g.done THEN g
            ELSE IF e.full THEN IF Len(g.found) >= s.q.budget THEN [g EXCEPT !.done = TRUE]
                 ELSE [g EXCEPT !.found = @ \o SetToSeq(e.of \intersect s.db.stored)]
            ELSE FoldLeft(LAMBDA h, id : IF h.done THEN h
                                         ELSE IF h.examined + 1 > s.q.budget THEN [h EXCEPT !.done = TRUE, !.examined = @ + 1]
                                         ELSE [h EXCEPT !.found = Append(@, id), !.examined = @ + 1],
                          g, SetToSortSeq(e.of \intersect s.db.stored, <))
    IN  FoldLeft(take, [found |-> <<>>, examined |-> s.examined, done |-> FALSE], f.ids)
IdOrder(q, a, b) ==
    IF Ev(a).created = Ev(b).created THEN a < b ELSE (Ev(a).created < Ev(b).created) = q.asc

-----------------------------------------------------------------------------
(* The scan *)

Snapshot == [stored |-> stored, entries |-> entries, ready |-> "word" \in imeta.ready, search |-> Conf.search,
             gone |-> vanish.pending \union vanish.done]
Terms(q) == UNION {q.filters[i].search : i \in 1..Len(q.filters)}
\* handle_read_msg takes a scan; a limit of 0 finds nothing.
ScanBegin ==
    /\ scan.at = "idle" /\ asked < Len(imenu.queries) /\ writer.at # "down"
    /\ LET q == imenu.queries[asked + 1]
           dfs == [t \in Terms(q) |-> TermDf(Snapshot, t)]
       IN  /\ scan' = [at |-> IF q.max = 0 THEN "done" ELSE "filter", q |-> q, db |-> Snapshot, dfs |-> dfs, f |-> 0,
                       heads |-> <<>>, list |-> FALSE, last |-> 0, seen |-> {}, out |-> <<>>, count |-> 0, reserves |-> 0,
                       boundary |-> 0, oldest |-> 0, skipped |-> FALSE, bytes |-> 0, examined |-> 0, stop |-> FALSE,
                       more |-> FALSE, limit |-> 0]
           /\ dfcache' = IF Conf.search THEN [t \in DOMAIN dfcache \union Terms(q) |-> TermDf(Snapshot, t)] ELSE dfcache
    /\ asked' = asked + 1 /\ UNCHANGED ivars

CanContribute(q, from) == \E i \in from..Len(q.filters) : q.kind = "count" \/ q.filters[i].limit # 0
\* scan_collect: the next filter.  One that asks for nothing is passed over; a full collection ends the scan.
NextFilter ==
    /\ scan.at = "filter" /\ scan.f < Len(scan.q.filters)
    /\ LET i == scan.f + 1
           f == scan.q.filters[i]
           s == [scan EXCEPT !.f = i, !.boundary = 0, !.oldest = 0, !.count = 0, !.reserves = 0, !.last = 0, !.stop = FALSE,
                             !.limit = IF scan.q.kind = "count" THEN scan.q.max
                                       ELSE IF HasSearch(f) /\ OnlySearch(scan.q) THEN CollectCap(scan.q)
                                       ELSE FilterCollectCap(f, scan.q)]
           g == GatherIds(s, f)
       IN  scan' = IF scan.q.kind # "count" /\ f.limit = 0 THEN [scan EXCEPT !.f = i]
                   ELSE IF CollectorFull(s) THEN [s EXCEPT !.at = "sort", !.more = @ \/ CanContribute(s.q, i)]
                   ELSE IF f.ids # <<>> /\ ~Impossible(f)
                   THEN [s EXCEPT !.at = "walk", !.list = TRUE, !.examined = g.examined, !.more = @ \/ g.done,
                                  !.heads = <<SortSeq(g.found, LAMBDA a, b : IdOrder(s.q, a, b))>>]
                   ELSE [s EXCEPT !.at = "walk", !.list = FALSE, !.heads = WalkRanges(s, f),
                                  !.more = @ \/ (ByWord(s, f) /\ ~Impossible(f) /\ \E t \in f.search : s.dfs[t] >= DfSample)]
    /\ UNCHANGED <<ivars, dfcache, asked>>

Top(s) ==
    CHOOSE i \in 1..Len(s.heads) :
        s.heads[i] # <<>> /\ \A j \in 1..Len(s.heads) : s.heads[j] = <<>> \/ ~Before(s.q, Head(s.heads[j]), Head(s.heads[i]))
WalkStep ==
    /\ scan.at = "walk" /\ ~scan.stop /\ \E i \in 1..Len(scan.heads) : scan.heads[i] # <<>>
    /\ LET i == Top(scan)
           id == Head(scan.heads[i])
           s == [scan EXCEPT !.heads[i] = Tail(@), !.last = id]
       IN  scan' = IF id = scan.last /\ ~scan.list THEN s ELSE Consider(s, id)
    /\ UNCHANGED <<ivars, dfcache, asked>>
EndFilter ==
    /\ scan.at = "walk" /\ (scan.stop \/ \A i \in 1..Len(scan.heads) : scan.heads[i] = <<>>)
    /\ scan' = IF CollectorFull(scan) THEN [scan EXCEPT !.at = "sort", !.more = @ \/ CanContribute(scan.q, scan.f + 1)]
               ELSE [scan EXCEPT !.at = "filter"]
    /\ UNCHANGED <<ivars, dfcache, asked>>

\* apply_search_limits: each event goes to the first filter with room that matches it.
ApplySearchLimits(s) ==
    LET place(acc, o) ==
            LET fit == {i \in 1..Len(s.q.filters) : acc.takes[i] > 0 /\ Matches(s.q.filters[i], o[1])}
            IN  IF fit = {} THEN [acc EXCEPT !.dropped = TRUE]
                ELSE [acc EXCEPT !.kept = Append(@, o), !.takes[Min(fit)] = @ - 1]
        caps == [i \in 1..Len(s.q.filters) |-> FilterCollectCap(s.q.filters[i], s.q)]
        r == FoldLeft(place, [kept |-> <<>>, takes |-> caps, dropped |-> FALSE], s.out)
    IN  [s EXCEPT !.out = r.kept, !.more = @ \/ r.dropped]
\* score and sort_relevance: the weights fall with the frequency of a term.
Score(s, id) == FoldSet(LAMBDA t, n : n + DfSample + 1 - Min({s.dfs[t], DfSample}), 0, Terms(s.q) \intersect ToSet(Ev(id).words))
ByRelevance(s, a, b) == Score(s, a) > Score(s, b) \/ (Score(s, a) = Score(s, b) /\ IdOrder([s.q EXCEPT !.asc = FALSE], a, b))
\* sort_key, sort_asc or the relevance; then the answer.
ScanEnd ==
    /\ scan.at = "sort" \/ (scan.at = "filter" /\ scan.f = Len(scan.q.filters))
    /\ LET s == [scan EXCEPT !.at = "done", !.more = @ \/ scan.skipped]
           ranked == [s EXCEPT !.out = SortSeq(@, LAMBDA a, b : ByRelevance(s, a[1], b[1]))]
       IN  scan' = IF scan.q.kind = "count" THEN s
                   ELSE IF OnlySearch(scan.q) THEN ApplySearchLimits(ranked)
                   ELSE [s EXCEPT !.out = SortSeq(@, LAMBDA a, b : IdOrder(s.q, a[1], b[1]))]
    /\ UNCHANGED <<ivars, dfcache, asked>>

\* The reply takes the answer away.
ScanReply == scan.at = "done" /\ scan' = [at |-> "idle"] /\ UNCHANGED <<ivars, dfcache, asked>>
\* A cached frequency expires or the rebuild of the index clears the cache.
DfForget == dfcache # <<>> /\ dfcache' = <<>> /\ UNCHANGED <<ivars, scan, asked>>

QueryInit == IndexInit /\ scan = [at |-> "idle"] /\ dfcache = <<>> /\ asked = 0
QueryNext ==
    \/ IndexNext /\ UNCHANGED <<scan, dfcache, asked>>
    \/ ScanBegin \/ NextFilter \/ WalkStep \/ EndFilter \/ ScanEnd \/ ScanReply \/ DfForget

-----------------------------------------------------------------------------
(* Properties *)

Returned(s) == {s.out[i][1] : i \in 1..Len(s.out)}
\* An event is in its delegator's feed when the delegation verifies and the delegator is there.
InFeed(s, f, id) == f.authors = {} \/ Ev(id).author \in f.authors \/ (~Ev(id).forged /\ Ev(id).delegator \notin s.db.gone)
Wanted(s, f) == {id \in s.db.stored : Deliverable(id) /\ Matches(f, id) /\ InFeed(s, f, id)}

\* An answer that does not say there is more has every event each filter asks for, whichever index was walked, whatever the
\* limits, budgets and caps cut; and no event twice.
ScanComplete ==
    scan.at = "done" =>
      /\ Cardinality(Returned(scan)) = Len(scan.out)
      /\ ~scan.more /\ scan.q.max > 0 =>
           \A i \in 1..Len(scan.q.filters) :
              scan.q.kind = "count" \/ scan.q.filters[i].limit # 0 => Wanted(scan, scan.q.filters[i]) \subseteq Returned(scan)

\* A page is the newest part of what its filter asks for: an event is returned only with every newer one, so a client that
\* asks again below the oldest it got misses nothing.  A search and a list of ids rank or cut otherwise, and a second with
\* more events than twice the cap is skipped.
PageNewest ==
    scan.at = "done" /\ scan.q.kind # "count" /\ ~scan.q.asc /\ ~scan.skipped =>
      \A i \in 1..Len(scan.out) :
         LET f == scan.q.filters[scan.out[i][2]]
         IN  HasSearch(f) \/ f.ids # <<>>
             \/ \A id \in Wanted(scan, f) : Ev(id).created > Ev(scan.out[i][1]).created => id \in Returned(scan)

\* What a client concludes from an answer is true: from "no more" that it has all, from its oldest event that it has every newer one.
ScanExact == ScanComplete /\ PageNewest
=============================================================================
