------------------------------ MODULE HttpReads ------------------------------
(***************************************************************************)
(* What the REST API and the HTTP bridge read (server/api.rs,                *)
(* server/bridge.rs, server/bridge_window.rs): the stored events, seen        *)
(* through the API read queue one query at a time, and the groups, which        *)
(* decide who sees an event.  Both change between two reads of one request.      *)
(***************************************************************************)
EXTENDS Integers, Sequences, FiniteSets, SequencesExt

CONSTANTS
    HttpMenus,  \* bound: [ev, late, doomed, closing, system, members, nip78, now, auth, calls, windows]: the events, those that
                \* arrive, go, the groups that close, the system channels, who belongs to the groups, the requests
    Anyone,     \* no pubkey, no group, no parameter
    EndOfTime,  \* no upper bound of a time
    MaxMembers  \* MAX_FILTER_MEMBERS

VARIABLES
    arrived, gone,  \* events that have been stored; those that were removed since
    closed,         \* groups only their members may read
    readers,        \* requests that hold the groups lock across a query
    hmenu

hvars == <<arrived, gone, closed, readers, hmenu>>

Row(e) == hmenu.ev[e]
Ids == DOMAIN hmenu.ev
Moment == [arrived |-> arrived, gone |-> gone, closed |-> closed]
Param(x, y) == IF x = Anyone THEN y ELSE x
Least(x, y) == IF x < y THEN x ELSE y
Part(s, from, to) == SubSeq(s, from, Least(to, Len(s)))

-----------------------------------------------------------------------------
(* Queries *)

\* sort_desc_id_asc, sort_asc_id_asc.  An event id is a number of the model.
NewestFirst(a, b) == Row(a).at > Row(b).at \/ (Row(a).at = Row(b).at /\ a < b)
OldestFirst(a, b) == Row(a).at < Row(b).at \/ (Row(a).at = Row(b).at /\ a < b)
\* The elements of a set in a total order.
Sorted(set, before(_, _)) == [i \in 1..Cardinality(set) |-> CHOOSE e \in set : Cardinality({x \in set : before(x, e)}) = i - 1]
AnyEvent == [ids |-> {}, authors |-> Anyone, kinds |-> Anyone, refs |-> {}, quotes |-> {}, groups |-> {}, d |-> Anyone, since |-> 0,
             until |-> EndOfTime, limit |-> Anyone]
\* Filter::matches.  A list of authors or kinds that is given and empty matches nothing.
Fits(f, e) ==
    /\ f.ids # {} => e \in f.ids
    /\ f.authors # Anyone => Row(e).author \in f.authors
    /\ f.kinds # Anyone => Row(e).kind \in f.kinds
    /\ f.refs # {} => f.refs \intersect ({Row(e).parent, Row(e).root} \union Row(e).points) # {}
    /\ f.quotes # {} => Row(e).quote \in f.quotes
    /\ f.groups # {} => Row(e).group \in f.groups
    /\ f.d # Anyone => Row(e).d = f.d
    /\ Row(e).at >= f.since /\ Row(e).at <= f.until
Found(f) == {e \in arrived \ gone : Fits(f, e)}

\* The walk of an index: ties by id, in the direction of the walk.
Walk(set, asc) == Sorted(set, LAMBDA a, b : IF asc THEN OldestFirst(a, b) ELSE Row(a).at > Row(b).at \/ (Row(a).at = Row(b).at /\ a > b))
\* A collector takes up to the limit and the rest of the second it ends in, within twice the cap.
Collected(f, cap, asc) ==
    LET w == Walk(Found(f), asc)
        limit == Least(Param(f.limit, cap), cap)
    IN  IF limit = 0 THEN {} ELSE {w[i] : i \in {j \in DOMAIN w : j <= limit \/ (j <= 2 * cap /\ Row(w[j]).at = Row(w[limit]).at)}}
\* Db::api_query: the rows and whether any were left out.
Query(fs, cap, asc) ==
    LET rows == UNION {Collected(f, cap, asc) : f \in fs}
    IN  [rows |-> Sorted(rows, LAMBDA a, b : IF asc THEN OldestFirst(a, b) ELSE NewestFirst(a, b)),
         more |-> UNION {Found(f) : f \in fs} # rows]
\* Db::api_count: cut at the cap.
CountQuery(fs, cap) ==
    LET w == Walk(UNION {Found(f) : f \in fs}, FALSE) IN [rows |-> Part(w, 1, cap), more |-> Len(w) > cap]

-----------------------------------------------------------------------------
(* Who sees an event, with the groups of shut closed *)

MayRead(e, who, shut) == Row(e).group \notin shut \/ who \in hmenu.members
\* nip_cl_group_visible: a system channel is shown to filters that name it.
NamesChannel(f, e) == Row(e).group \in hmenu.system => Row(e).group \in f.groups
\* api_visible_filtered.  no: the tag names the request excludes.
ApiVisible(e, shut, no, fs) ==
    /\ Row(e).class \notin {"ttl", "protected", "wrap", "notice"} /\ ~(hmenu.nip78 /\ Row(e).class = "app")
    /\ Row(e).group \in hmenu.system => \E f \in fs : Fits(f, e) /\ NamesChannel(f, e)
    /\ MayRead(e, Anyone, shut)
    /\ Row(e).tags \intersect no = {}
\* bridge_visible.
BridgeVisible(e, who, shut) ==
    /\ Row(e).class # "ttl"
    /\ Row(e).class \in {"wrap", "notice"} => who \in Row(e).to
    /\ hmenu.nip78 /\ Row(e).class = "app" => Row(e).author = who
    /\ MayRead(e, who, shut)

-----------------------------------------------------------------------------
(* The rest of the relay *)

Arrive == \E e \in hmenu.late \ arrived : arrived' = arrived \union {e} /\ UNCHANGED <<gone, closed, readers, hmenu>>
Withdraw == \E e \in (hmenu.doomed \intersect arrived) \ gone : gone' = gone \union {e} /\ UNCHANGED <<arrived, closed, readers, hmenu>>
CloseGroup ==
    /\ readers = {}
    /\ \E g \in hmenu.closing \ closed : closed' = closed \union {g}
    /\ UNCHANGED <<arrived, gone, readers, hmenu>>
Elsewhere == Arrive \/ Withdraw \/ CloseGroup
HttpReadsInit ==
    /\ hmenu \in HttpMenus
    /\ arrived = DOMAIN hmenu.ev \ hmenu.late /\ gone = {} /\ closed = {} /\ readers = {}
=============================================================================
