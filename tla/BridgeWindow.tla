----------------------------- MODULE BridgeWindow -----------------------------
(***************************************************************************)
(* The HTTP bridge (server/bridge.rs, server/bridge_window.rs): signed        *)
(* requests that publish, query and count, and the windows of a channel or of  *)
(* a thread, read in several queries.  A window pages by a cursor of time and    *)
(* id; a thread window keeps the groups lock across its walk, the others take     *)
(* it after each query.  Overlays are signed and sent, never stored.               *)
(***************************************************************************)
EXTENDS HttpReads, FiniteSetsExt

CONSTANTS
    MaxBridgeFilters,                    \* MAX_BRIDGE_FILTERS
    BridgeDefault, BridgeMax,            \* DEFAULT_FILTER_LIMIT, limits.max_limit
    BridgePer, BridgePad, BridgeFetch,   \* 4, 16, MAX_BRIDGE_FETCH: how far a filter is widened
    BridgeCount, BridgeBytes,            \* limits.max_count, limits.max_req_response_bytes
    WindowDefault, WindowMax,            \* WINDOW_DEFAULT_LIMIT, WINDOW_MAX_LIMIT
    WindowPer, WindowPad, WindowFetchMin, WindowFetchMax,  \* 8, 64, WINDOW_FETCH_MIN, WINDOW_FETCH_MAX
    WindowRounds,                        \* 4: queries of a channel window
    MaxWindowEvents,                     \* MAX_WINDOW_EVENTS
    AuxLimit,                            \* AUX_LIMIT
    ThreadDepthMax, SummaryTreeMax,      \* THREAD_DEPTH_MAX, SUMMARY_TREE_MAX
    MaxReplies,                          \* 8,192: replies a thread window may keep
    TreeDefault, TreeMax, TreeDepth, TreeReplies,  \* THREAD_DEFAULT_LIMIT, THREAD_MAX_LIMIT, THREAD_DEPTH_DEFAULT, THREAD_MAX_LIMIT * 4
    MaxPeople                            \* 10: participants of a summary

VARIABLE win  \* per request: [at, then, ask, rows, more, left, plain, sent, bytes, pages, raw, page, walk, status]

Windows == DOMAIN hmenu.windows
Call(c) == hmenu.windows[c]
Who(c) == Call(c).who
InStep(c, s) == win[c].at = s
Set(c, w) == win' = [win EXCEPT ![c] = w]
Fail(c, why) == Set(c, [win[c] EXCEPT !.at = "done", !.status = why])
Unlock(c) == readers' = readers \ {c}
HeldStill == UNCHANGED <<arrived, gone, closed, hmenu>>
Raw(c) == win[c].raw
Sees(c, e) == BridgeVisible(e, Who(c), closed)
ReadsChannel(c) == Raw(c).channel \notin closed \/ Who(c) \in hmenu.members
AskRows(w, then, f, cap) == [w EXCEPT !.at = "query", !.then = then, !.ask = [fs |-> {f}, cap |-> cap, count |-> FALSE]]

-----------------------------------------------------------------------------
(* Threads and cursors *)

\* reply_parent, reply_root, is_top_level: the marked tags, and a reply that is broadcast.
TopLevel(e) == Row(e).parent = Anyone \/ Row(e).broadcast
\* cursor_after.
CursorAfter(e, cursor) == cursor # Anyone => Row(e).at < cursor[1] \/ (Row(e).at = cursor[1] /\ e > cursor[2])
CursorOf(e) == <<Row(e).at, e>>
\* parse_cursor: until and before_id come together; raw_limit: a limit of zero stays zero.
CursorSound(raw) == (raw.until = Anyone) = (raw.before = Anyone)
WindowCursor(raw) == IF raw.until = Anyone THEN Anyone ELSE <<raw.until, raw.before>>
RawLimit(raw, default, max) == Least(Param(raw.limit, default), max)
WindowLimit(raw) == RawLimit(raw, WindowDefault, WindowMax)
Clamp(x, lo, hi) == Least(IF x < lo THEN lo ELSE x, hi)
WindowFetch(raw) == Clamp(WindowLimit(raw) * WindowPer + WindowPad, WindowFetchMin, WindowFetchMax)
WindowFilter(raw) == [AnyEvent EXCEPT !.groups = {raw.channel}, !.kinds = raw.kinds, !.until = Param(raw.until, EndOfTime)]

-----------------------------------------------------------------------------
(* A request *)

FreshPage == [rows |-> <<>>, cursor |-> Anyone, scanned |-> {}, last |-> Anyone, shown |-> Anyone, rounds |-> 0, from |-> Moment, to |-> Moment,
              more |-> FALSE, next |-> Anyone]
FreshWalk == [front |-> <<>>, whole |-> {}, next |-> <<>>, hop |-> 0, seen |-> {}, kept |-> {}, sums |-> <<>>, root |-> <<>>]
FreshWin == [at |-> "idle", then |-> "idle", ask |-> [fs |-> {}, cap |-> 0, count |-> FALSE], rows |-> <<>>, more |-> FALSE, left |-> <<>>, plain |-> <<>>,
             sent |-> 0, bytes |-> 0, pages |-> <<>>, raw |-> Anyone, page |-> FreshPage, walk |-> FreshWalk, status |-> "open"]

\* authenticate: a signature of this path and body, once, of a pubkey that is not banned; the author of an event signs it.
\* Then the number of filters, and the bounds of each.
BridgeAuth(c) == Call(c).token = "valid" /\ (Call(c).path = "events" => Row(Call(c).event).author = Who(c))
FiltersFit(c) ==
    Call(c).path # "events" =>
       /\ Len(Call(c).parts) \in 1..MaxBridgeFilters
       /\ \A i \in DOMAIN Call(c).parts : Call(c).parts[i].sound
Reject(c) ==
    /\ InStep(c, "idle") /\ UNCHANGED hvars
    /\ ~BridgeAuth(c) \/ ~FiltersFit(c)
    /\ Fail(c, IF BridgeAuth(c) THEN "bad_request" ELSE "unauthorized")
\* events: what accept_events_batch makes of the event.
Publish(c) ==
    /\ InStep(c, "idle") /\ BridgeAuth(c) /\ Call(c).path = "events"
    /\ LET e == Call(c).event
       IN  \/ e \notin arrived /\ arrived' = arrived \union {e} /\ Fail(c, "ok")
           \/ e \in arrived \ gone /\ UNCHANGED arrived /\ Fail(c, "ok")
           \/ (e \in gone \/ hmenu.slow) /\ UNCHANGED arrived /\ Fail(c, IF e \in gone THEN "bad_request" ELSE "unavailable")
    /\ UNCHANGED <<gone, closed, readers, hmenu>>
BridgeStart(c) ==
    /\ InStep(c, "idle") /\ BridgeAuth(c) /\ FiltersFit(c) /\ Call(c).path = "query" /\ UNCHANGED hvars
    /\ Set(c, [win[c] EXCEPT !.at = "next", !.left = Call(c).parts])

\* One query of the API queue, or none in time; an answer without rows drops the groups lock of a thread walk.
GotRows(c) ==
    /\ InStep(c, "query") /\ UNCHANGED hvars
    /\ LET q == win[c].ask
           got == IF q.count THEN CountQuery(q.fs, q.cap) ELSE Query(q.fs, q.cap, FALSE)
       IN  Set(c, [win[c] EXCEPT !.at = win[c].then, !.rows = got.rows, !.more = got.more])
NoRows(c) == InStep(c, "query") /\ hmenu.slow /\ Fail(c, "unavailable") /\ Unlock(c) /\ HeldStill

\* query_all: the windows in the order of the request, then the ordinary filters together.  encode_events at the end.
Sized(rows) == FoldLeft(LAMBDA sum, e : sum + Row(e).size, 0, rows)
Served(w, rows, overlays) == [w EXCEPT !.sent = @ + Len(rows) + overlays, !.bytes = @ + Sized(rows) + overlays]
Dispatch(c) ==
    /\ InStep(c, "next") /\ UNCHANGED hvars
    /\ LET w == win[c]
           raw == w.left[1]
           on(s) == [w EXCEPT !.at = s, !.left = Tail(@), !.raw = raw, !.page = [FreshPage EXCEPT !.from = Moment], !.walk = FreshWalk]
       IN  CASE w.sent > MaxWindowEvents -> Fail(c, "too_large")
             [] w.left = <<>> /\ w.plain # <<>> -> Set(c, [w EXCEPT !.at = "plain"])
             [] w.left = <<>> /\ w.plain = <<>> -> Fail(c, IF w.bytes > BridgeBytes /\ w.sent > 1 THEN "too_large" ELSE "ok")
             [] OTHER -> CASE raw.mode = "both" -> Fail(c, "bad_request")
                           [] raw.mode = "plain" -> Set(c, [w EXCEPT !.left = Tail(@), !.plain = Append(@, raw)])
                           [] OTHER -> Set(c, on(raw.mode))

-----------------------------------------------------------------------------
(* channel_window *)

Empty(c) == [win[c] EXCEPT !.at = "next"]
ChannelStart(c) ==
    /\ InStep(c, "channel") /\ UNCHANGED hvars
    /\ LET raw == Raw(c)
       IN  IF ~CursorSound(raw) THEN Fail(c, "bad_request")
           ELSE IF WindowLimit(raw) = 0 \/ raw.channel = Anyone \/ ~ReadsChannel(c) THEN Set(c, Empty(c))
           ELSE IF raw.kinds # Anyone /\ Cardinality(raw.kinds) > MaxMembers THEN Fail(c, "bad_request")
           ELSE Set(c, [win[c] EXCEPT !.at = "round", !.page.cursor = WindowCursor(raw)])
RoundStart(c) ==
    /\ InStep(c, "round") /\ UNCHANGED hvars
    /\ LET p == win[c].page
           f == [WindowFilter(Raw(c)) EXCEPT !.until = IF p.cursor = Anyone THEN @ ELSE p.cursor[1], !.limit = WindowFetch(Raw(c))]
       IN  Set(c, [AskRows(win[c], "scan", f, WindowFetch(Raw(c))) EXCEPT !.page.rounds = @ + 1])
\* The candidates after the cursor that were not scanned before; the visible ones; the top-level ones among these.
Unscanned(p, rows) == SelectSeq(rows, LAMBDA e : CursorAfter(e, p.cursor) /\ e \notin p.scanned)
LastOr(s, x) == IF s = <<>> THEN x ELSE CursorOf(Last(s))
ScanRows(c, p, fresh) ==
    LET shown == SelectSeq(fresh, LAMBDA e : Sees(c, e))
        tops == SelectSeq(shown, TopLevel)
    IN  [p EXCEPT !.scanned = @ \union ToSet(fresh), !.last = LastOr(fresh, @), !.shown = LastOr(shown, @),
                  !.rows = Part(@ \o tops, 1, WindowLimit(Raw(c)))]
Eligible(c, fresh) == Len(SelectSeq(fresh, LAMBDA e : Sees(c, e) /\ TopLevel(e)))
EndRounds(c, p, more) == Set(c, [win[c] EXCEPT !.at = "bounds", !.page = [p EXCEPT !.more = more]])
NextCursorMutant(p) == IF p.more THEN p.shown ELSE Anyone   \* mutant: the next page goes on after the last event scanned
NextCursor(p) == IF p.more THEN LastOr(p.rows, p.shown) ELSE Anyone
WindowScan(c) ==
    /\ InStep(c, "scan") /\ UNCHANGED hvars
    /\ LET limit == WindowLimit(Raw(c))
           more == win[c].more
           fresh == Unscanned(win[c].page, win[c].rows)
           p == ScanRows(c, win[c].page, fresh)
           full == Len(p.rows) = limit
       IN  CASE Eligible(c, fresh) > limit \/ (full /\ more) -> EndRounds(c, p, TRUE)
             [] full /\ ~more /\ Eligible(c, fresh) <= limit -> EndRounds(c, p, FALSE)
             [] ~full /\ fresh = <<>> /\ more /\ p.last # Anyone ->   \* a dense second hides what is older
                  LET f == [WindowFilter(Raw(c)) EXCEPT !.since = p.last[1], !.until = p.last[1], !.limit = WindowFetchMax]
                  IN  Set(c, [AskRows(win[c], "second", f, WindowFetchMax) EXCEPT !.page = p])
             [] ~full /\ (~more \/ (fresh = <<>> /\ p.last = Anyone)) -> EndRounds(c, p, FALSE)
             [] OTHER -> IF p.rounds < WindowRounds THEN Set(c, [win[c] EXCEPT !.at = "round", !.page = [p EXCEPT !.cursor = p.last]])
                         ELSE IF more /\ p.shown = Anyone THEN Fail(c, "too_large")
                         ELSE EndRounds(c, p, p.shown # Anyone)
\* The whole of that second: a page that would have to split it is refused.
SecondScan(c) ==
    /\ InStep(c, "second") /\ UNCHANGED hvars
    /\ LET was == win[c].page
           limit == WindowLimit(Raw(c))
           fresh == SelectSeq(win[c].rows, LAMBDA e : e \notin was.scanned)
           p == ScanRows(c, was, fresh)
           boundary == was.last[1]
       IN  IF win[c].more \/ Len(was.rows) + Eligible(c, fresh) > limit THEN Fail(c, "too_large")
           ELSE IF boundary = 0 THEN EndRounds(c, p, FALSE)
           ELSE IF Len(p.rows) = limit THEN Fail(c, "too_large")
           ELSE Set(c, [win[c] EXCEPT !.at = "round", !.page = [p EXCEPT !.cursor = <<boundary - 1, 0>>]])
\* The bounds of the page are those of its rows; then what belongs to the rows.
Bounds(c) ==
    /\ InStep(c, "bounds") /\ UNCHANGED hvars
    /\ LET p == [win[c].page EXCEPT !.next = NextCursor(win[c].page), !.more = NextCursor(win[c].page) # Anyone]
           w == Served([win[c] EXCEPT !.page = p], p.rows, IF hmenu.key THEN 1 ELSE 0)
       IN  Set(c, [w EXCEPT !.at = IF p.rows # <<>> /\ Raw(c).aux THEN "aux" ELSE "summary", !.walk = [FreshWalk EXCEPT !.front = p.rows]])
Release(c) ==
    /\ InStep(c, "release") /\ UNCHANGED hvars
    /\ IF ReadsChannel(c) THEN Set(c, [win[c] EXCEPT !.at = "next", !.pages = Append(@, [raw |-> Raw(c), page |-> [win[c].page EXCEPT !.to = Moment]])])
       ELSE Fail(c, "unavailable")

-----------------------------------------------------------------------------
(* Walks *)

\* One query for the next part of the frontier, at most MAX_FILTER_MEMBERS at a time.
Chunked(front) == Part(front, 1, MaxMembers)
RefFilter(front, kinds, groups) == [AnyEvent EXCEPT !.refs = ToSet(Chunked(front)), !.kinds = kinds, !.groups = groups]
\* The frontier after a part of it: what is left, or what the whole hop found.
Onward(walk, found, hops) ==
    LET rest == SubSeq(walk.front, MaxMembers + 1, Len(walk.front))
        next == walk.next \o found
    IN  IF rest # <<>> THEN [walk EXCEPT !.front = rest, !.next = next]
        ELSE [walk EXCEPT !.front = IF walk.hop + 1 < hops THEN next ELSE <<>>, !.whole = ToSet(next), !.next = <<>>, !.hop = @ + 1]

\* fetch_aux: reactions, edits and deletions of the rows, then the deletions of these.
AuxKinds == {5, 7, 9005, 40003}
AuxDeletes == {5, 9005}
AfterAux(c) == IF Raw(c).mode = "channel" THEN "summary" ELSE IF Raw(c).mode = "thread" THEN "release" ELSE "next"
AuxHop(c) ==
    /\ InStep(c, "aux") /\ UNCHANGED hvars
    /\ LET w == win[c].walk
           f == RefFilter(w.front, IF w.hop = 0 THEN AuxKinds ELSE AuxDeletes, {})
       IN  IF w.front = <<>> THEN Set(c, [win[c] EXCEPT !.at = AfterAux(c), !.walk = [FreshWalk EXCEPT !.front = win[c].page.rows]])
           ELSE Set(c, AskRows(win[c], "aux_rows", [f EXCEPT !.limit = AuxLimit], AuxLimit))
AuxRows(c) ==
    /\ InStep(c, "aux_rows") /\ UNCHANGED hvars
    /\ LET w == win[c].walk
           f == [AnyEvent EXCEPT !.groups = IF Raw(c).channel = Anyone THEN {} ELSE {Raw(c).channel}]
           found == SelectSeq(win[c].rows, LAMBDA e : e \notin w.seen /\ Sees(c, e) /\ NamesChannel(f, e))
       IN  Set(c, [Served(win[c], found, 0) EXCEPT !.at = "aux", !.walk = [Onward(w, found, 2) EXCEPT !.seen = @ \union ToSet(win[c].rows)]])

\* thread_summaries, which holds the groups lock from its first answer on.  A summary is [direct, below, last, people].
ThreadContent == {9, 40002, 45001, 45003}
\* record_summary_participant.
Participants(people, at, who) ==
    LET was == {p[1] : p \in {q \in people : q[2] = who}}
        all == {q \in people : q[2] # who} \union {<<Max(was \union {at}), who>>}
    IN  IF Cardinality(all) > MaxPeople THEN all \ {CHOOSE p \in all : \A q \in all : q[1] >= p[1]} ELSE all
Noted(sum, e, direct) ==
    [direct |-> sum.direct + (IF direct THEN 1 ELSE 0), below |-> sum.below + (IF direct THEN 0 ELSE 1),
     last |-> Max({sum.last, Row(e).at}), people |-> Participants(sum.people, Row(e).at, Row(e).author)]
NoSummary == [direct |-> 0, below |-> 0, last |-> 0, people |-> {}]
\* The row an event counts for: its parent's, or the one its root tag names.
RootOf(walk, rows, e, first) ==
    CASE Row(e).parent = Anyone -> Anyone
      [] first /\ Row(e).parent \in rows -> Row(e).parent
      [] ~first /\ Row(e).parent \in DOMAIN walk.root -> walk.root[Row(e).parent]
      [] OTHER -> IF Row(e).root \in rows THEN Row(e).root ELSE Anyone
Summed(c, walk, e) ==
    LET rows == ToSet(win[c].page.rows)
        first == walk.hop = 0
        root == RootOf(walk, rows, e, first)
        counts == Sees(c, e) /\ (first \/ root \in DOMAIN walk.sums)
        was == IF root \in DOMAIN walk.sums THEN walk.sums[root] ELSE NoSummary
    IN  IF root = Anyone \/ e \in walk.seen \/ (~first /\ Cardinality(walk.seen) >= SummaryTreeMax) THEN walk
        ELSE [walk EXCEPT !.root = (e :> root) @@ @, !.seen = @ \union {e}, !.kept = @ \union {e},
                          !.sums = IF counts THEN (root :> Noted(was, e, first /\ Row(e).parent \in rows)) @@ @ ELSE @]
SummaryHop(c) ==
    /\ InStep(c, "summary") /\ HeldStill
    /\ LET w == win[c].walk
           done == w.front = <<>> \/ (w.hop > 0 /\ w.next = <<>> /\ Cardinality(w.seen) >= SummaryTreeMax)
           f == [RefFilter(w.front, ThreadContent, {Raw(c).channel}) EXCEPT !.refs = IF w.hop = 0 THEN ToSet(win[c].page.rows) ELSE @, !.limit = SummaryTreeMax]
       IN  IF ~Raw(c).sums \/ done
           THEN /\ Set(c, [Served(win[c], <<>>, IF hmenu.key THEN Cardinality(DOMAIN w.sums) ELSE 0) EXCEPT !.at = "release"])
                /\ Unlock(c)
           ELSE UNCHANGED readers /\ Set(c, AskRows(win[c], "summary_rows", f, SummaryTreeMax))
SummaryRows(c) ==
    /\ InStep(c, "summary_rows") /\ HeldStill /\ readers' = readers \union {c}
    /\ LET was == win[c].walk
           walk == FoldLeft(LAMBDA w, e : Summed(c, w, e), [was EXCEPT !.kept = {}], win[c].rows)
           found == SelectSeq(win[c].rows, LAMBDA e : e \in walk.kept)
           all == IF was.hop = 0 THEN [walk EXCEPT !.front = <<>>] ELSE walk
       IN  Set(c, [win[c] EXCEPT !.at = "summary", !.walk = [Onward(all, found, ThreadDepthMax) EXCEPT !.kept = {}]])

-----------------------------------------------------------------------------
(* thread_mode_window *)

ThreadLimit(raw) == RawLimit(raw, WindowDefault, WindowMax)
ThreadDepth(raw) == Param(raw.depth, ThreadDepthMax)
ThreadSound(raw) ==
    /\ raw.channel # Anyone /\ raw.root # Anyone /\ raw.kinds \notin {Anyone, {}} /\ raw.kinds \subseteq ThreadContent
    /\ ThreadLimit(raw) > 0 /\ ThreadDepth(raw) \in 1..ThreadDepthMax /\ CursorSound(raw)
ThreadStart(c) ==
    /\ InStep(c, "thread") /\ HeldStill
    /\ LET f == [AnyEvent EXCEPT !.ids = {Raw(c).root}, !.limit = 1]
       IN  IF ~ThreadSound(Raw(c)) THEN Fail(c, "bad_request") /\ UNCHANGED readers
           ELSE IF ~ReadsChannel(c) THEN Set(c, Empty(c)) /\ UNCHANGED readers
           ELSE Set(c, AskRows(win[c], "root", f, 1)) /\ readers' = readers \union {c}
\* A root that is gone has left its kind and its channel behind.
RootFound(c) ==
    /\ InStep(c, "root") /\ HeldStill
    /\ LET raw == Raw(c)
           mine == raw.root \in gone \union ToSet(win[c].rows) /\ Row(raw.root).kind \in ThreadContent /\ Row(raw.root).group = raw.channel
           seen == win[c].rows # <<>> => Sees(c, raw.root)
       IN  IF ~mine \/ ~seen THEN Set(c, Empty(c)) /\ Unlock(c)
           ELSE UNCHANGED readers /\ Set(c, [win[c] EXCEPT !.at = "hop", !.walk = [FreshWalk EXCEPT !.front = <<raw.root>>, !.whole = {raw.root}, !.seen = {raw.root}]])
ThreadHop(c) ==
    /\ InStep(c, "hop") /\ HeldStill
    /\ IF win[c].walk.front = <<>> THEN Set(c, [win[c] EXCEPT !.at = "page"]) /\ Unlock(c)
       ELSE UNCHANGED readers /\ Set(c, AskRows(win[c], "hop_rows", [RefFilter(win[c].walk.front, Raw(c).kinds, {Raw(c).channel}) EXCEPT !.limit = AuxLimit], AuxLimit))
ThreadRows(c) ==
    /\ InStep(c, "hop_rows") /\ HeldStill
    /\ LET w == win[c].walk
           found == SelectSeq(win[c].rows, LAMBDA e : e \notin w.seen /\ Sees(c, e) /\ Row(e).parent \in w.whole)
           whole == [Onward(w, found, ThreadDepth(Raw(c))) EXCEPT !.seen = @ \union ToSet(win[c].rows), !.kept = @ \union ToSet(found)]
       IN  IF win[c].more \/ Cardinality(whole.kept) > MaxReplies THEN Fail(c, "too_large") /\ Unlock(c)
           ELSE UNCHANGED readers /\ Set(c, [win[c] EXCEPT !.at = "hop", !.walk = whole])
ThreadPage(c) ==
    /\ InStep(c, "page") /\ UNCHANGED hvars
    /\ LET all == Sorted({e \in win[c].walk.kept : CursorAfter(e, WindowCursor(Raw(c)))}, NewestFirst)
           rows == Part(all, 1, ThreadLimit(Raw(c)))
           more == Len(all) > Len(rows)
           p == [win[c].page EXCEPT !.rows = rows, !.more = more, !.next = IF more THEN CursorOf(Last(rows)) ELSE Anyone]
       IN  Set(c, [Served(win[c], rows, IF hmenu.key THEN 1 ELSE 0) EXCEPT
                     !.at = IF Raw(c).aux /\ rows # <<>> THEN "aux" ELSE "release", !.page = p, !.walk = [FreshWalk EXCEPT !.front = <<Raw(c).root>> \o rows]])

-----------------------------------------------------------------------------
(* thread_window: the older form, oldest first *)

TreeLimit(raw) == RawLimit(raw, TreeDefault, TreeMax)
TreeHops(raw) == Least(Param(raw.depth, TreeDepth), ThreadDepthMax)
\* thread_cursor: half a cursor is none.
TreeAfter(raw, e) == raw.until # Anyone /\ raw.before # Anyone => Row(e).at > raw.until \/ (Row(e).at = raw.until /\ e > raw.before)
TreeStart(c) ==
    /\ InStep(c, "tree") /\ UNCHANGED hvars
    /\ LET raw == Raw(c)
       IN  IF raw.root = Anyone THEN Fail(c, "bad_request")
           ELSE IF (raw.channel # Anyone /\ ~ReadsChannel(c)) \/ TreeLimit(raw) = 0 THEN Set(c, Empty(c))
           ELSE Set(c, [win[c] EXCEPT !.at = "branch", !.walk = [FreshWalk EXCEPT !.front = <<raw.root>>, !.seen = {raw.root}]])
TreeFilter(raw) == [AnyEvent EXCEPT !.groups = IF raw.channel = Anyone THEN {} ELSE {raw.channel}]
TreeHop(c) ==
    /\ InStep(c, "branch") /\ UNCHANGED hvars
    /\ LET w == win[c].walk
           raw == Raw(c)
           kept == Sorted({e \in w.kept : TreeAfter(raw, e)}, OldestFirst)
           rows == Part(kept, 1, TreeLimit(raw))
           done == w.front = <<>> \/ (w.next = <<>> /\ Cardinality(w.kept) > TreeReplies) \/ w.hop >= TreeHops(raw)
       IN  IF done THEN Set(c, [Served(win[c], rows, 0) EXCEPT !.at = IF raw.aux /\ rows # <<>> THEN "aux" ELSE "next", !.page.rows = rows,
                                                               !.walk = [FreshWalk EXCEPT !.front = rows]])
           ELSE Set(c, AskRows(win[c], "branch_rows", [RefFilter(w.front, raw.kinds, TreeFilter(raw).groups) EXCEPT !.limit = AuxLimit], AuxLimit))
TreeRows(c) ==
    /\ InStep(c, "branch_rows") /\ UNCHANGED hvars
    /\ LET w == win[c].walk
           found == SelectSeq(win[c].rows, LAMBDA e : e \notin w.seen /\ Sees(c, e) /\ NamesChannel(TreeFilter(Raw(c)), e))
       IN  IF win[c].more THEN Fail(c, "too_large")
           ELSE Set(c, [win[c] EXCEPT !.at = "branch",
                          !.walk = [Onward(w, found, ThreadDepthMax) EXCEPT !.seen = @ \union ToSet(win[c].rows), !.kept = @ \union ToSet(found)]])

-----------------------------------------------------------------------------
(* Ordinary filters and counts *)

PlainFilter(raw) == [AnyEvent EXCEPT !.groups = IF raw.channel = Anyone THEN {} ELSE {raw.channel}, !.kinds = raw.kinds, !.until = Param(raw.until, EndOfTime)]
PlainLimit(raw) == RawLimit(raw, BridgeDefault, BridgeMax)
Widened(raw) == IF PlainLimit(raw) = 0 THEN 0 ELSE Least(PlainLimit(raw) * BridgePer + BridgePad, BridgeFetch)
\* execute_filters: one query, widened for what will be hidden or before a cursor.
PlainStart(c) ==
    /\ InStep(c, "plain") /\ UNCHANGED hvars
    /\ LET plain == win[c].plain
           fetch == Clamp(FoldLeft(LAMBDA sum, raw : sum + Widened(raw), 0, plain), 1, BridgeFetch)
           fs == {[PlainFilter(plain[i]) EXCEPT !.limit = Widened(plain[i])] : i \in DOMAIN plain}
       IN  IF \E i \in DOMAIN plain : plain[i].before # Anyone /\ plain[i].until = Anyone THEN Fail(c, "bad_request")
           ELSE IF \A i \in DOMAIN plain : PlainLimit(plain[i]) = 0 THEN Set(c, [win[c] EXCEPT !.at = "next", !.plain = <<>>])
           ELSE Set(c, [win[c] EXCEPT !.at = "query", !.then = "plain_rows", !.ask = [fs |-> fs, cap |-> fetch, count |-> FALSE]])
\* Each event goes to the first filter that has room for it.
Assigned(c, acc, e) ==
    LET plain == win[c].plain
        takes == {i \in DOMAIN plain :
                    /\ acc.counts[i] < PlainLimit(plain[i]) /\ Fits(PlainFilter(plain[i]), e) /\ NamesChannel(PlainFilter(plain[i]), e)
                    /\ plain[i].before # Anyone => CursorAfter(e, <<plain[i].until, plain[i].before>>)}
    IN  IF ~Sees(c, e) \/ takes = {} THEN acc ELSE [rows |-> Append(acc.rows, e), counts |-> [acc.counts EXCEPT ![Min(takes)] = @ + 1]]
PlainRows(c) ==
    /\ InStep(c, "plain_rows") /\ UNCHANGED hvars
    /\ LET out == FoldLeft(LAMBDA acc, e : Assigned(c, acc, e), [rows |-> <<>>, counts |-> [i \in DOMAIN win[c].plain |-> 0]], win[c].rows)
       IN  Set(c, [Served(win[c], out.rows, 0) EXCEPT !.at = "next", !.plain = <<>>,
                     !.pages = Append(@, [raw |-> [mode |-> "plain"], page |-> [FreshPage EXCEPT !.rows = out.rows, !.to = Moment]])])
BridgeCountStart(c) ==
    /\ InStep(c, "idle") /\ BridgeAuth(c) /\ FiltersFit(c) /\ Call(c).path = "count" /\ UNCHANGED hvars
    /\ Set(c, [win[c] EXCEPT !.at = "query", !.then = "counted", !.ask = [fs |-> {PlainFilter(Call(c).parts[i]) : i \in DOMAIN Call(c).parts}, cap |-> BridgeCount, count |-> TRUE]])
BridgeCounted(c) ==
    /\ InStep(c, "counted") /\ UNCHANGED hvars
    /\ LET n == Len(SelectSeq(win[c].rows, LAMBDA e : Sees(c, e) /\ \E f \in win[c].ask.fs : Fits(f, e) /\ NamesChannel(f, e)))
       IN  Set(c, [win[c] EXCEPT !.at = "done", !.status = "ok", !.sent = n, !.more = @ /\ n >= BridgeCount])

WindowInit == win = [c \in Windows |-> FreshWin]
WindowNext ==
    \E c \in Windows :
       \/ Reject(c) \/ Publish(c) \/ BridgeStart(c) \/ GotRows(c) \/ NoRows(c) \/ Dispatch(c) \/ ChannelStart(c) \/ RoundStart(c) \/ WindowScan(c)
       \/ SecondScan(c) \/ Bounds(c) \/ Release(c) \/ AuxHop(c) \/ AuxRows(c) \/ SummaryHop(c) \/ SummaryRows(c) \/ ThreadStart(c) \/ RootFound(c)
       \/ ThreadHop(c) \/ ThreadRows(c) \/ ThreadPage(c) \/ TreeStart(c) \/ TreeHop(c) \/ TreeRows(c) \/ PlainStart(c) \/ PlainRows(c)
       \/ BridgeCountStart(c) \/ BridgeCounted(c)

-----------------------------------------------------------------------------
(* Properties *)

Released(mode) == UNION {{<<c, win[c].pages[i]>> : i \in {j \in DOMAIN win[c].pages : win[c].pages[j].raw.mode = mode}} : c \in {d \in Windows : win[d].status = "ok"}}
\* Top-level events of the channel that the reader could see from the first query of the window to its release.
SteadyTops(c, got) ==
    {e \in got.page.from.arrived \ got.page.to.gone :
       /\ Fits(WindowFilter(got.raw), e) /\ TopLevel(e) /\ CursorAfter(e, WindowCursor(got.raw)) /\ BridgeVisible(e, Who(c), got.page.to.closed)}
\* A second with more events than a query keeps together.
Crowded(raw) == \E t \in {Row(e).at : e \in Ids} : Cardinality({e \in Ids : Fits(WindowFilter(raw), e) /\ Row(e).at = t}) > 2 * WindowFetch(raw)

\* A client that pages a channel misses nothing: what a page with has_more leaves out comes after its cursor, as long as no
\* second is too crowded for one query.  The cursor names an event the reader may see, and no page is released to a reader
\* the channel shut out while it was read (channel_window).
WindowNoGap ==
    \A x \in Released("channel") :
       LET c == x[1]
           got == x[2].page
       IN  /\ got.more /\ ~Crowded(x[2].raw) => \A e \in SteadyTops(c, x[2]) : e \in ToSet(got.rows) \/ CursorAfter(e, got.next)
           /\ got.next # Anyone => BridgeVisible(got.next[2], Who(c), got.from.closed)
           /\ x[2].raw.channel \notin got.to.closed \/ Who(c) \in hmenu.members

\* What the code says of a page without has_more: no extra row exists.
WindowExhausted ==
    \A x \in Released("channel") : ~x[2].page.more /\ ~Crowded(x[2].raw) => SteadyTops(x[1], x[2]) \subseteq ToSet(x[2].page.rows)

\* The descendants of a thread's root that were there, and to be seen, all through the walk.
SteadyReplies(c, got) ==
    LET there == {e \in got.page.from.arrived \ got.page.to.gone :
                    Row(e).kind \in got.raw.kinds /\ Row(e).group = got.raw.channel /\ BridgeVisible(e, Who(c), got.page.to.closed)}
        below[n \in Nat] == IF n = 0 THEN {got.raw.root} ELSE below[n - 1] \union {e \in there : Row(e).parent \in below[n - 1]}
    IN  {e \in below[ThreadDepth(got.raw)] \ {got.raw.root} : CursorAfter(e, WindowCursor(got.raw))}

\* What the documentation says of a thread window: it returns the descendants, so the last page leaves none out.
ThreadComplete ==
    \A x \in Released("thread") : ~x[2].page.more => SteadyReplies(x[1], x[2]) \subseteq ToSet(x[2].page.rows)
=============================================================================
