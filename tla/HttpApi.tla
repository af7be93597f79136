------------------------------- MODULE HttpApi -------------------------------
(***************************************************************************)
(* The REST API (server/api.rs): pages of events, counts over one filter or  *)
(* over the months, days and hours of a range, statistics of an author, and   *)
(* samples of the whole relay.  Every query takes a permit of the API limit    *)
(* for its own duration; what it returns is filtered after the permit is gone,  *)
(* under the groups lock, so a request of several queries sees several states.   *)
(***************************************************************************)
EXTENDS HttpReads

CONSTANTS
    ApiPermits,   \* max_api_concurrent
    MaxApiLimit, MaxApiOffset, MaxApiFetch, ResponseBytes, MaxCount,  \* the limits of the configuration
    DefaultLimit, \* 100
    Rounds,       \* rounds of a growing fetch
    ProbeFetch, ProbeMax,  \* 64 and 1024
    Sample,       \* AGGREGATE_SAMPLE
    MaxMonths,    \* MAX_MONTHS
    HourSecs      \* 3600: seconds of an hour

VARIABLES
    api,     \* per request: [at, then, ask, rows, more, first, fetch, round, todo, from, to, out]
    permits  \* permits of api_limit in use

DaySecs == 24 * HourSecs
Requests == DOMAIN hmenu.calls
Req(c) == hmenu.calls[c]
OnStep(c, s) == api[c].at = s
Answer(c, out) == api' = [api EXCEPT ![c].at = "done", ![c].out = out, ![c].to = Moment]
Refuse(c, why) == Answer(c, [status |-> why])
ApiOther == UNCHANGED <<hvars, permits>>

-----------------------------------------------------------------------------
(* Days and months *)

\* days_from_civil and civil_from_days, from 1970 on.
DaysFromCivil(y, m, d) ==
    LET yy == IF m <= 2 THEN y - 1 ELSE y
        era == yy \div 400
        yoe == yy - era * 400
        doy == (153 * (IF m > 2 THEN m - 3 ELSE m + 9) + 2) \div 5 + d - 1
    IN  era * 146097 + yoe * 365 + yoe \div 4 - yoe \div 100 + doy - 719468
CivilFromDays(days) ==
    LET z == days + 719468
        era == z \div 146097
        doe == z - era * 146097
        yoe == (doe - doe \div 1460 + doe \div 36524 - doe \div 146096) \div 365
        doy == doe - (365 * yoe + yoe \div 4 - yoe \div 100)
        mp == (5 * doy + 2) \div 153
        m == IF mp < 10 THEN mp + 3 ELSE mp - 9
    IN  <<IF m <= 2 THEN yoe + era * 400 + 1 ELSE yoe + era * 400, m, doy - (153 * mp + 2) \div 5 + 1>>
\* Months are numbered y * 12 + m - 1.
MonthOf(ts) == LET c == CivilFromDays(ts \div DaySecs) IN c[1] * 12 + c[2] - 1
MonthStart(n) == DaysFromCivil(n \div 12, (n % 12) + 1, 1) * DaySecs
\* month_range: one month more than allowed shows that the range is too long.
MonthRange(since, until) ==
    LET last == Least(MonthOf(until), MonthOf(since) + MaxMonths)
    IN  IF until < since THEN <<>> ELSE [i \in 1..(last - MonthOf(since) + 1) |-> MonthOf(since) + i - 1]

-----------------------------------------------------------------------------
(* Parameters and filters *)

\* api_auth_middleware: with require_auth, a read with a signature of this URL that is fresh and was not used before, by a
\* pubkey that is not banned.
AuthPasses(r) == hmenu.auth => r.method \in {"GET", "HEAD"} /\ r.token = "valid" /\ ~r.banned
Samples == {"relay/kinds", "relay/top-authors"}
\* parse_author_identifier, parse_nip19 and the check of a hex id: what the path names can be read.
Identified(r) ==
    /\ r.ep \notin {"query", "count", "id", "related"} \union Samples => r.key # Anyone
    /\ r.ep \in {"id", "related"} => r.id # Anyone
\* bound_filter_members and bound_params.
MembersFit(r) ==
    \/ r.ep \in Samples
    \/ ~r.longSearch /\ \A list \in {r.authors, r.kinds} \ {Anyone} : Cardinality(list) <= MaxMembers
OffsetFits(r) == MaxApiOffset > 0 => Param(r.offset, 0) <= MaxApiOffset
Limit(r, default) == IF r.limit # Anyone /\ MaxApiLimit > 0 THEN Least(r.limit, MaxApiLimit) ELSE Param(r.limit, default)
\* apply_params: the request adds what the route left open.
ApplyParams(f, r) ==
    [f EXCEPT !.authors = Param(@, r.authors), !.kinds = Param(@, r.kinds),
              !.since = Param(r.since, @), !.until = Param(r.until, @), !.refs = IF r.e = Anyone THEN @ ELSE {r.e}, !.d = Param(r.d, @)]

\* The filters, the limit and the tag value of each page: api_handler for an entity, api_kind_handler, api_query_handler,
\* api_id_handler, api_related_handler, api_follows_handler, api_relays_handler.
EntityPage(r) ==
    CASE r.entity = "pubkey" -> [fs |-> {ApplyParams([AnyEvent EXCEPT !.authors = {r.key}, !.kinds = {0}], r)}, limit |-> 1, d |-> Anyone]
      [] r.entity \in {"note", "event"} -> [fs |-> {ApplyParams([AnyEvent EXCEPT !.ids = {r.id}], r)}, limit |-> 1, d |-> Anyone]
      [] OTHER ->   \* an address: without a value the filter asks for every one and the match is made afterwards
           LET d == Param(r.d, r.dtag)
           IN  [fs |-> {[ApplyParams([AnyEvent EXCEPT !.authors = {r.key}, !.kinds = {r.kind}], r) EXCEPT !.d = IF d = "" THEN Anyone ELSE d]},
                limit |-> Limit(r, DefaultLimit), d |-> d]
KindPage(r) == [fs |-> {ApplyParams([AnyEvent EXCEPT !.authors = {r.key}, !.kinds = {r.kind}], r)}, limit |-> Limit(r, DefaultLimit), d |-> Anyone]
QueryPage(r) == [fs |-> {ApplyParams(AnyEvent, r)}, limit |-> Limit(r, DefaultLimit), d |-> Anyone]
IdPage(r) ==
    [fs |-> {ApplyParams([AnyEvent EXCEPT !.ids = {r.id}], r)},
     limit |-> Least(Limit(r, 1), DefaultLimit), d |-> Anyone]
RelatedPage(r) ==
    LET replies == ApplyParams([AnyEvent EXCEPT !.refs = {r.id}], r)
        quotes == ApplyParams([AnyEvent EXCEPT !.quotes = {r.id}], r)
    IN  [fs |-> {[replies EXCEPT !.refs = {r.id} \union (IF r.e = Anyone THEN {} ELSE {r.e})], [quotes EXCEPT !.refs = {}]},
         limit |-> Limit(r, DefaultLimit), d |-> Anyone]
FollowsPage(r) == [fs |-> {ApplyParams([AnyEvent EXCEPT !.authors = {r.key}, !.kinds = {3}], r)}, limit |-> 1, d |-> Anyone]
RelaysPage(r) == [fs |-> {ApplyParams([AnyEvent EXCEPT !.authors = {r.key}, !.kinds = {10002}], r)}, limit |-> 1, d |-> Anyone]
Page(r) ==
    CASE r.ep = "entity" -> EntityPage(r) [] r.ep = "kind" -> KindPage(r) [] r.ep = "query" -> QueryPage(r) [] r.ep = "id" -> IdPage(r)
      [] r.ep = "related" -> RelatedPage(r) [] r.ep = "follows" -> FollowsPage(r) [] OTHER -> RelaysPage(r)
Pages == {"entity", "kind", "query", "id", "related", "follows", "relays"}
OffsetOf(r) == Param(r.offset, 0)
WantVisible(r) == OffsetOf(r) + Page(r).limit + 1
HardCap(r) ==
    LET wide == IF WantVisible(r) * 8 < 128 THEN 128 ELSE Least(WantVisible(r) * 8, 10000)
        cap == IF MaxApiOffset > 0 THEN MaxApiOffset + Page(r).limit + 1 ELSE wide
    IN  IF MaxApiFetch > 0 THEN Least(MaxApiFetch, cap) ELSE cap

\* The ranges whose events are counted one by one: a month within the range asked, a day of a month, an hour of a day.
BucketsOf(since, until, months) ==
    [i \in DOMAIN months |-> LET s == MonthStart(months[i])
                                 u == MonthStart(months[i] + 1) - 1
                             IN  <<IF s > since THEN s ELSE since, Least(u, until)>>]
AskedMonth(r) == Param(r.year, MonthOf(hmenu.now) \div 12) * 12 + Param(r.month, (MonthOf(hmenu.now) % 12) + 1) - 1
DaysIn(n) == (MonthStart(n + 1) - MonthStart(n)) \div DaySecs
Slices(start, len, n) == [i \in 1..n |-> <<start + (i - 1) * len, start + i * len - 1>>]
AskedDay(r) ==
    LET today == CivilFromDays(hmenu.now \div DaySecs)
    IN  IF r.day # Anyone THEN r.day ELSE IF AskedMonth(r) = MonthOf(hmenu.now) THEN today[3] ELSE 1
Daily(r) == Slices(MonthStart(AskedMonth(r)), DaySecs, DaysIn(AskedMonth(r)))
Hourly(r) == Slices(MonthStart(AskedMonth(r)) + (AskedDay(r) - 1) * DaySecs, HourSecs, 24)
\* What a count counts: api_count_handler, the author's events, one kind of them.
CountFilter(r, b) ==
    LET f == CASE r.ep = "count" -> AnyEvent [] r.ep \in {"kinds", "stats"} -> [AnyEvent EXCEPT !.authors = {r.key}]
               [] OTHER -> [AnyEvent EXCEPT !.authors = {r.key}, !.kinds = {r.kind}, !.since = b[1], !.until = b[2]]
    IN  IF r.ep = "monthly" THEN f ELSE ApplyParams(f, r)
DateRefused(r) ==
    \/ r.since # Anyone \/ r.until # Anyone
    \/ Param(r.month, 1) \notin 1..12 \/ Param(r.year, 1970) \notin 1970..2999
    \/ r.ep = "hourly" /\ AskedDay(r) \notin 1..DaysIn(AskedMonth(r))

-----------------------------------------------------------------------------
(* A request *)

\* What a query asks, and where the request goes on with its rows.
Ask(c, then, ask) == [api[c] EXCEPT !.at = "permit", !.then = then, !.ask = ask]
Events(fs, cap, asc) == [fs |-> fs, cap |-> cap, asc |-> asc, count |-> FALSE]
Count(fs) == [fs |-> fs, cap |-> MaxCount, asc |-> FALSE, count |-> TRUE]
Counting(c, todo) ==
    [Ask(c, "tally", Count({CountFilter(Req(c), todo[1])})) EXCEPT !.todo = todo]
OpenCall(c, next) == api' = [api EXCEPT ![c] = [next EXCEPT !.from = Moment]]

TurnAway(c) ==
    /\ OnStep(c, "idle") /\ ApiOther
    /\ LET r == Req(c) IN ~AuthPasses(r) \/ ~Identified(r) \/ ~MembersFit(r)
    /\ Refuse(c, IF AuthPasses(Req(c)) THEN "refused" ELSE "unauthorized")
Welcome(c) == OnStep(c, "idle") /\ LET r == Req(c) IN AuthPasses(r) /\ Identified(r) /\ MembersFit(r)

\* query_and_respond: as many rows as make the page and one more, fetched in growing rounds.
PageStart(c) ==
    /\ Welcome(c) /\ Req(c).ep \in Pages /\ ApiOther
    /\ LET r == Req(c)
       IN  IF ~OffsetFits(r) \/ (r.ep = "entity" /\ r.entity = "addr" /\ ~r.addressable) THEN Refuse(c, "refused")
           ELSE IF Page(r).limit = 0 THEN Answer(c, [status |-> "page", rows |-> <<>>, more |-> FALSE])
           ELSE IF WantVisible(r) > HardCap(r) THEN Refuse(c, "refused")
           ELSE OpenCall(c, [Ask(c, "look", Events(Page(r).fs, WantVisible(r), r.asc)) EXCEPT !.fetch = WantVisible(r), !.round = 1])
CountStart(c) ==
    /\ Welcome(c) /\ Req(c).ep \in {"count", "kinds", "stats"} /\ ApiOther
    /\ IF Req(c).ep = "count" /\ ~OffsetFits(Req(c)) THEN Refuse(c, "refused") ELSE OpenCall(c, Counting(c, <<<<0, EndOfTime>>>>))
DateStart(c) ==
    /\ Welcome(c) /\ Req(c).ep \in {"daily", "hourly"} /\ ApiOther
    /\ IF DateRefused(Req(c)) THEN Refuse(c, "refused") ELSE OpenCall(c, Counting(c, IF Req(c).ep = "daily" THEN Daily(Req(c)) ELSE Hourly(Req(c))))
Until(r) == Param(r.until, hmenu.now)
\* The months of a range, which without a start begins at the oldest event that is visible.
Months(c, since) ==
    LET months == MonthRange(since, Until(Req(c)))
    IN  IF months = <<>> \/ Len(months) > MaxMonths THEN [api[c] EXCEPT !.at = "done", !.out = [status |-> "refused"], !.to = Moment]
        ELSE Counting(c, BucketsOf(since, Until(Req(c)), months))
ProbeFilter(r) == [AnyEvent EXCEPT !.authors = {r.key}, !.kinds = {r.kind}]
MonthlyStart(c) ==
    /\ Welcome(c) /\ Req(c).ep = "monthly" /\ ApiOther
    /\ IF Req(c).since # Anyone THEN OpenCall(c, Months(c, Req(c).since))
       ELSE OpenCall(c, [Ask(c, "probe", Events({ProbeFilter(Req(c))}, ProbeFetch, TRUE)) EXCEPT !.fetch = ProbeFetch, !.round = 1])
SampleStart(c) ==
    /\ Welcome(c) /\ Req(c).ep \in Samples /\ ApiOther
    /\ OpenCall(c, Ask(c, "sample", [Count({AnyEvent}) EXCEPT !.cap = Sample]))

\* api_limit.try_acquire, and the query, which may time out; the permit goes either way.
Acquire(c) ==
    /\ OnStep(c, "permit")
    /\ IF permits < ApiPermits THEN api' = [api EXCEPT ![c].at = "query"] /\ permits' = permits + 1
       ELSE Refuse(c, "busy") /\ UNCHANGED permits
    /\ UNCHANGED hvars
RowsBack(c) ==
    /\ OnStep(c, "query") /\ permits' = permits - 1 /\ UNCHANGED hvars
    /\ LET q == api[c].ask
           got == IF q.count THEN CountQuery(q.fs, q.cap) ELSE Query(q.fs, q.cap, q.asc)
       IN  api' = [api EXCEPT ![c].at = api[c].then, ![c].rows = got.rows, ![c].more = got.more]
TimedOut(c) == OnStep(c, "query") /\ hmenu.slow /\ permits' = permits - 1 /\ Refuse(c, "unavailable") /\ UNCHANGED hvars

\* The rows the groups let through now.
Shown(c, rows) ==
    SelectSeq(rows, LAMBDA e : ApiVisible(e, closed, Req(c).no, api[c].ask.fs)
                               /\ (Req(c).ep \in Pages /\ Page(Req(c)).d # Anyone => Row(e).d = Page(Req(c)).d))
Look(c) ==
    /\ OnStep(c, "look") /\ ApiOther
    /\ LET cap == HardCap(Req(c))
           next == Least(api[c].fetch * 4, cap)
           enough == Len(Shown(c, api[c].rows)) >= WantVisible(Req(c)) \/ ~api[c].more \/ api[c].fetch >= cap
       IN  api' = [api EXCEPT ![c] = IF enough \/ next <= Len(api[c].rows) \/ api[c].round = Rounds THEN [@ EXCEPT !.at = "answer"]
                                     ELSE [Ask(c, "look", [@.ask EXCEPT !.cap = next]) EXCEPT !.fetch = next, !.round = @ + 1]]
\* How many of the rows fit the response: the first always does.
Fitting(rows) ==
    LET bytes(n) == FoldLeft(LAMBDA sum, e : sum + Row(e).size, 0, SubSeq(rows, 1, n))
    IN  IF ResponseBytes = 0 \/ rows = <<>> THEN Len(rows)
        ELSE CHOOSE n \in 1..Len(rows) : (n = 1 \/ bytes(n) <= ResponseBytes) /\ (n < Len(rows) => bytes(n + 1) > ResponseBytes)
HasMoreMutant(c, visible, page) == Len(visible) > OffsetOf(Req(c)) + Page(Req(c)).limit \/ api[c].more   \* mutant: a page cut at the byte budget claims to be the last
HasMore(c, visible, page) == Len(visible) > OffsetOf(Req(c)) + Page(Req(c)).limit \/ api[c].more \/ Fitting(page) < Len(page)
PageAnswer(c) ==
    /\ OnStep(c, "answer") /\ ApiOther
    /\ LET visible == Shown(c, api[c].rows)
           page == Part(visible, OffsetOf(Req(c)) + 1, OffsetOf(Req(c)) + Page(Req(c)).limit)
       IN  Answer(c, [status |-> "page", rows |-> SubSeq(page, 1, Fitting(page)), more |-> HasMore(c, visible, page)])

\* visible_approximate: a cut that only hidden rows caused is not told.
Approximate(more, visible, limit) == more /\ limit > 0 /\ visible >= limit
NoCounts == [status |-> "counts", total |-> 0, counts |-> <<>>, approximate |-> FALSE, cut |-> FALSE, first |-> Anyone, last |-> Anyone]
\* One count: its visible rows are added up, then the next range is asked for.
Tally(c) ==
    /\ OnStep(c, "tally") /\ ApiOther
    /\ LET n == Len(Shown(c, api[c].rows))
           was == api[c].out
           sum == [was EXCEPT !.total = @ + n, !.counts = Append(@, n), !.approximate = @ \/ Approximate(api[c].more, n, MaxCount), !.cut = @ \/ api[c].more]
           rest == Tail(api[c].todo)
       IN  IF rest # <<>> THEN api' = [api EXCEPT ![c] = [Counting(c, rest) EXCEPT !.out = sum]]
           ELSE IF Req(c).ep = "stats"
                THEN api' = [api EXCEPT ![c] = [Ask(c, "earliest", Events({CountFilter(Req(c), <<>>)}, ProbeFetch, TRUE))
                                                  EXCEPT !.out = sum, !.fetch = ProbeFetch, !.round = 1]]
                ELSE Answer(c, sum)
NextFetch(c) == Least(api[c].fetch * 4, ProbeMax)
LastProbe(c) == api[c].fetch >= ProbeMax \/ api[c].round = Rounds
\* api_monthly_handler looks for the oldest visible event; a history of hidden ones needs a start from the caller.
Probe(c) ==
    /\ OnStep(c, "probe") /\ ApiOther
    /\ LET shown == Shown(c, api[c].rows)
       IN  CASE shown # <<>> -> api' = [api EXCEPT ![c] = Months(c, Row(shown[1]).at)]
             [] shown = <<>> /\ ~LastProbe(c) ->
                  api' = [api EXCEPT ![c] = [Ask(c, "probe", [@.ask EXCEPT !.cap = NextFetch(c)]) EXCEPT !.fetch = NextFetch(c), !.round = @ + 1]]
             [] OTHER -> IF api[c].more THEN Refuse(c, "refused") ELSE Answer(c, NoCounts)
\* api_stats_handler: the oldest rows, then the newest, then both are looked at.
Earliest(c) ==
    /\ OnStep(c, "earliest") /\ ApiOther
    /\ api' = [api EXCEPT ![c] = [Ask(c, "latest", [@.ask EXCEPT !.asc = FALSE]) EXCEPT !.first = api[c].rows]]
Latest(c) ==
    /\ OnStep(c, "latest") /\ ApiOther
    /\ LET at(rows, was) == IF was # Anyone \/ Shown(c, rows) = <<>> THEN was ELSE Row(Shown(c, rows)[1]).at
           out == [api[c].out EXCEPT !.first = at(api[c].first, @), !.last = at(api[c].rows, @)]
       IN  IF (out.first # Anyone /\ out.last # Anyone) \/ LastProbe(c) THEN Answer(c, out)
           ELSE api' = [api EXCEPT ![c] = [Ask(c, "earliest", [@.ask EXCEPT !.asc = TRUE, !.cap = NextFetch(c)])
                                             EXCEPT !.out = out, !.fetch = NextFetch(c), !.round = @ + 1]]
\* aggregate_visible: like a page without a filter, on records without content.
AggregateVisible(e) == ApiVisible(e, closed, {}, {}) /\ Row(e).group \notin hmenu.system
SampleAnswer(c) ==
    /\ OnStep(c, "sample") /\ ApiOther
    /\ LET n == Len(SelectSeq(api[c].rows, AggregateVisible))
       IN  Answer(c, [NoCounts EXCEPT !.total = n, !.approximate = Approximate(api[c].more, n, Sample), !.cut = api[c].more])

FreshCall == [at |-> "idle", then |-> "idle", ask |-> Count({}), rows |-> <<>>, more |-> FALSE, first |-> <<>>, fetch |-> 0, round |-> 0, todo |-> <<>>,
              from |-> Moment, to |-> Moment, out |-> NoCounts]
ApiInit == api = [c \in Requests |-> FreshCall] /\ permits = 0
ApiNext ==
    \E c \in Requests :
       \/ TurnAway(c) \/ PageStart(c) \/ CountStart(c) \/ DateStart(c) \/ MonthlyStart(c) \/ SampleStart(c)
       \/ Acquire(c) \/ RowsBack(c) \/ TimedOut(c) \/ Look(c) \/ PageAnswer(c) \/ Tally(c) \/ Probe(c) \/ Earliest(c) \/ Latest(c) \/ SampleAnswer(c)

-----------------------------------------------------------------------------
(* Properties *)

\* The events a request asked for that were stored and visible from its first query to its answer, and those that ever were.
Steady(c, fs) == {e \in Ids : e \in api[c].from.arrived \ api[c].to.gone /\ (\E f \in fs : Fits(f, e)) /\ ApiVisible(e, api[c].to.closed, Req(c).no, fs)}
Ever(c, fs) == {e \in Ids : e \in api[c].to.arrived \ api[c].from.gone /\ (\E f \in fs : Fits(f, e)) /\ ApiVisible(e, api[c].from.closed, Req(c).no, fs)}

\* A page says it is the last one (more = false) only if nothing is missing: all that was there to see all along is on it
\* or was skipped by the offset.  And it shows nothing that was hidden all along (query_and_respond_dtag: growing fetches,
\* the byte budget, groups that close and events that come and go between the queries).
PageHonest ==
    \A c \in Requests : OnStep(c, "done") /\ api[c].out.status = "page" =>
       LET p == Page(Req(c))
           mine(set) == {e \in set : p.d # Anyone => Row(e).d = p.d}
       IN  /\ ToSet(api[c].out.rows) \subseteq mine(Ever(c, p.fs))
           /\ ~api[c].out.more /\ p.limit > 0 => Cardinality(mine(Steady(c, p.fs)) \ ToSet(api[c].out.rows)) <= OffsetOf(Req(c))

\* Counts over months, days and hours count every event of the range once: unless a query was cut, no event that was
\* there all along is missed, and none is counted twice or without having been visible (month_range, the bounds of the
\* ranges, the start found by the probe).
CountedRange(c) ==
    LET r == Req(c)
        f == [AnyEvent EXCEPT !.authors = {r.key}, !.kinds = {r.kind}]
        m == MonthStart(AskedMonth(r))
        d == m + (AskedDay(r) - 1) * DaySecs
    IN  CASE r.ep = "monthly" -> [f EXCEPT !.since = Param(r.since, 0), !.until = Until(r)]
          [] r.ep = "daily" -> [f EXCEPT !.since = m, !.until = MonthStart(AskedMonth(r) + 1) - 1]
          [] r.ep = "hourly" -> [f EXCEPT !.since = d, !.until = d + DaySecs - 1]
          [] OTHER -> CountFilter(r, <<>>)
CountsExact ==
    \A c \in Requests : OnStep(c, "done") /\ api[c].out.status = "counts" /\ Req(c).ep \notin Samples =>
       /\ api[c].out.total <= Cardinality(Ever(c, {CountedRange(c)}))
       /\ ~api[c].out.cut => api[c].out.total >= Cardinality(Steady(c, {CountedRange(c)}))
       /\ api[c].out.first # Anyone => \A e \in Steady(c, {CountedRange(c)}) : Row(e).at >= api[c].out.first

\* An answer of the API is what its caller may take it for: the pages and the counts.
ApiHonest == PageHonest /\ CountsExact
=============================================================================
