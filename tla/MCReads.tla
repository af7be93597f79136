------------------------------- MODULE MCReads -------------------------------
(***************************************************************************)
(* How the relay is read and managed: negentropy syncs, the indexes and    *)
(* the scans over them, the REST API and the bridge, the access lists, the *)
(* replay guard of NIP-98.  A behaviour follows one                        *)
(* part, within one of its menus.                                          *)
(***************************************************************************)
EXTENDS NegSession, QueryScan, HttpApi, BridgeWindow, Access, ReplayGuard

CONSTANT Parts  \* the parts a run is about

VARIABLE part

-----------------------------------------------------------------------------
(* Negentropy: every pair of sets for one sync, then the budgets with two connections *)

MCConns == {"c1", "c2"}
MCNegIds == {"n1", "n2"}
MCFilters == {1..Points, {1, 2}}
MCProtected == {Points}
MCLongIds == {"n1"}
Upto(up) == SkipTo(up)
MCBadMsgs == {[version |-> FALSE, ranges |-> <<>>],
              [version |-> TRUE,  ranges |-> <<Upto(3), Upto(2)>>],
              [version |-> TRUE,  ranges |-> <<Upto(Infinity), Upto(Infinity)>>],
              [version |-> TRUE,  ranges |-> <<Upto(2), IdList(3, {})>>],
              [version |-> TRUE,  ranges |-> [k \in 1..(MaxRangesIn + 1) |-> Upto(2)]]}
Syncs(cs, is, as, r, st, ow) ==
    [conns |-> cs, ids |-> is, acts |-> as, reqs |-> r, stores |-> st, owns |-> ow]
OneStore == {{1, 2, 3}}
MCNegMenus ==
    {Syncs({"c1"}, {"n1"}, {}, 0, SUBSET (1..Points), SUBSET (1..Points)),
     Syncs({"c1"}, {"n1"}, {"bad", "fail"}, 0, OneStore, {{2}}),
     Syncs({"c1"}, {"n1", "n2"}, {"close", "time"}, 0, OneStore, {{2}}),
     Syncs({"c1"}, {"n1", "n2"}, {}, 1, OneStore, {{}}),
     Syncs({"c1"}, {"n1"}, {"access"}, 0, {1..Points}, {{1, 4}}),
     Syncs({"c1"}, {"n1"}, {"reload", "time"}, 0, {{1, 2}}, {{}}),
     Syncs({"c1", "c2"}, {"n1"}, {"drop"}, 0, OneStore, {{2}})}

-----------------------------------------------------------------------------
(* The indexes and the scans *)

Note(author, created, words) ==
    [author |-> author, kind |-> "note", created |-> created, to |-> {}, delegator |-> Nobody, forged |-> FALSE, words |-> words, tags |-> {},
     size |-> 1, hidden |-> "no", blob |-> FALSE]
WithTags(ev, tags) == [ev EXCEPT !.tags = tags]
WrapFor(author, to) == [Note(author, 1, <<>>) EXCEPT !.kind = "wrap", !.to = to]
SearchOn(words) == [search |-> TRUE, words |-> words, meta |-> TRUE]
SearchOff == [search |-> FALSE, words |-> 1, meta |-> TRUE]
Puts(id) == [put |-> TRUE, id |-> id]
Drops(id) == [put |-> FALSE, id |-> id]
AnyEv == [ids |-> <<>>, authors |-> {}, kinds |-> {}, since |-> 0, until |-> 9, search |-> {}, tags |-> {}, limit |-> Nobody]
FindAll(words) == [AnyEv EXCEPT !.search = words]
Scan(kind, filters, max) == [kind |-> kind, filters |-> filters, max |-> max, asc |-> FALSE, budget |-> 20, slack |-> 0]
NoIndex == [ev |-> <<>>, old |-> {}, vanishing |-> {}, writes |-> <<>>, confs |-> <<SearchOn(1)>>, faults |-> {}, built |-> FALSE, queries |-> <<>>]

\* Seven notes: a second shared by three, two authors and a delegation, two kinds, tags, hidden and long ones.
Seven == <<WithTags(Note("a", 3, <<"u", "v">>), {<<"t", "x">>, <<"name", "z">>}),
           WithTags(Note("b", 3, <<"v">>), {<<"t", "y">>, <<"t", "x">>}),
           [WithTags(Note("a", 3, <<"u">>), {<<"t", "long">>}) EXCEPT !.kind = "wiki"],
           [Note("b", 2, <<"long">>) EXCEPT !.delegator = "a"],
           [Note("a", 5, <<"u">>) EXCEPT !.hidden = "banned"],
           WithTags(Note("b", 4, <<"u", "v", "w">>), {<<"t", "y">>}), Note("a", 5, <<"w">>)>>
Indexed == [NoIndex EXCEPT !.ev = Seven, !.old = 1..7, !.built = TRUE, !.confs = <<SearchOn(2)>>]
Or1(values) == [all |-> FALSE, name |-> "t", values |-> values]
And1(values) == [all |-> TRUE, name |-> "t", values |-> values]

Queries == {
    \* limits at a shared second, with and without the reserve of a connection
    Scan("query", <<[AnyEv EXCEPT !.limit = 2]>>, 5), [Scan("query", <<[AnyEv EXCEPT !.limit = 1]>>, 5) EXCEPT !.slack = 1],
    [Scan("query", <<[AnyEv EXCEPT !.limit = 2, !.until = 3]>>, 2) EXCEPT !.slack = 1],
    [Scan("query", <<[AnyEv EXCEPT !.limit = 1, !.until = 3], [AnyEv EXCEPT !.kinds = {"wiki"}]>>, 1) EXCEPT !.slack = 1],
    Scan("query", <<[AnyEv EXCEPT !.limit = 1, !.until = 3]>>, 5), Scan("count", <<AnyEv>>, 3), Scan("count", <<AnyEv>>, 9), Scan("query", <<AnyEv>>, 0),
    \* several ranges, budgets, order
    Scan("query", <<[AnyEv EXCEPT !.authors = {"a", "b"}, !.limit = 2]>>, 9), Scan("query", <<[AnyEv EXCEPT !.authors = {"a"}]>>, 9),
    Scan("query", <<[AnyEv EXCEPT !.kinds = {"note", "wiki"}, !.since = 3]>>, 3),
    [Scan("query", <<AnyEv>>, 9) EXCEPT !.budget = 3], [Scan("query", <<[AnyEv EXCEPT !.limit = 2]>>, 9) EXCEPT !.asc = TRUE],
    Scan("query", <<[AnyEv EXCEPT !.limit = 0], [AnyEv EXCEPT !.authors = {"b"}, !.limit = 1], [AnyEv EXCEPT !.kinds = {"note"}, !.limit = 2]>>, 4),
    \* tags
    Scan("query", <<[AnyEv EXCEPT !.tags = {Or1({"x", "y"})}]>>, 9), Scan("query", <<[AnyEv EXCEPT !.tags = {And1({"x", "y"}), Or1({"x"})}]>>, 9),
    Scan("query", <<[AnyEv EXCEPT !.tags = {Or1({"long", "x"})}]>>, 9), Scan("query", <<[AnyEv EXCEPT !.tags = {Or1({})}]>>, 9),
    Scan("query", <<[AnyEv EXCEPT !.tags = {[Or1({"z"}) EXCEPT !.name = "name"]}]>>, 9),
    \* ids
    Scan("query", <<[AnyEv EXCEPT !.ids = <<[full |-> TRUE, of |-> {2}], [full |-> FALSE, of |-> {1, 2, 6}], [full |-> TRUE, of |-> {2}]>>]>>, 9),
    [Scan("query", <<[AnyEv EXCEPT !.ids = <<[full |-> FALSE, of |-> {1, 2, 3}]>>]>>, 9) EXCEPT !.budget = 2],
    [Scan("query", <<[AnyEv EXCEPT !.ids = <<[full |-> TRUE, of |-> {1}], [full |-> TRUE, of |-> {2}]>>]>>, 9) EXCEPT !.budget = 1],
    \* searches and syncs
    Scan("query", <<FindAll({"v"})>>, 9), Scan("query", <<FindAll({"w", "long"})>>, 9), Scan("query", <<FindAll({"u", "w"})>>, 9),
    Scan("query", <<[FindAll({"v", "u"}) EXCEPT !.limit = 1], FindAll({"w"})>>, 9), Scan("query", <<FindAll({"v"}), [AnyEv EXCEPT !.limit = 1]>>, 9),
    Scan("neg", <<AnyEv>>, 2), Scan("neg", <<[AnyEv EXCEPT !.authors = {"b"}]>>, 9), Scan("neg", <<FindAll({"v"})>>, 1) }

MCIndexMenus ==
    {[Indexed EXCEPT !.queries = <<q>>] : q \in Queries}
    \union {
    \* searches while the index is rebuilt for another limit, switched off and on
    [NoIndex EXCEPT !.ev = <<Note("a", 1, <<"u", "v">>), Note("a", 2, <<"v">>), Note("b", 3, <<"long", "u">>)>>,
                 !.old = {2, 3}, !.writes = <<Puts(1), Drops(3)>>, !.confs = <<SearchOn(1), SearchOff, SearchOn(1)>>, !.faults = {"db"}],
    [NoIndex EXCEPT !.ev = <<Note("a", 1, <<"u", "v">>), Note("a", 2, <<"v", "u">>)>>,
                 !.old = {1, 2}, !.writes = <<Drops(1), Puts(1)>>, !.confs = <<SearchOn(1), SearchOn(2)>>,
                 !.faults = {"crash"}, !.queries = <<Scan("query", <<FindAll({"u"})>>, 9)>>],
    \* wraps and delegations of an older build, vanishes to resume
    [NoIndex EXCEPT !.ev = <<WrapFor("b", {"a"}), [Note("b", 3, <<"u">>) EXCEPT !.delegator = "a"], WrapFor("b", {"a", "c"}),
                          [Note("c", 1, <<>>) EXCEPT !.blob = TRUE]>>,
                 !.old = {1, 2, 3}, !.vanishing = {"a"}, !.writes = <<Puts(1)>>, !.confs = <<SearchOn(1), SearchOn(1)>>, !.faults = {"db", "cancel"}],
    [NoIndex EXCEPT !.ev = <<[Note("b", 3, <<"u">>) EXCEPT !.delegator = "a"], [Note("b", 2, <<>>) EXCEPT !.delegator = "c", !.forged = TRUE]>>,
                 !.old = {1, 2}, !.vanishing = {"a"}, !.confs = <<SearchOn(1)>>,
                 !.faults = {"db"}, !.queries = <<Scan("query", <<[AnyEv EXCEPT !.authors = {"a", "c"}]>>, 9)>>] }

-----------------------------------------------------------------------------
(* The requests over HTTP *)

Stored(author, kind, at) ==
    [author |-> author, kind |-> kind, at |-> at, class |-> "plain", group |-> Anyone, parent |-> Anyone, root |-> Anyone, points |-> {}, quote |-> Anyone,
     d |-> Anyone, tags |-> {}, to |-> {}, size |-> 1, broadcast |-> FALSE]
InGroup(g, e) == [e EXCEPT !.group = g]
ReplyTo(parent, root, e) == [e EXCEPT !.parent = parent, !.root = root]
NoCalls == [ev |-> <<>>, late |-> {}, doomed |-> {}, closing |-> {}, system |-> {}, members |-> {"m"}, nip78 |-> FALSE, now |-> 300, auth |-> FALSE, slow |-> FALSE,
         key |-> TRUE, calls |-> <<>>, windows |-> <<>>]

-----------------------------------------------------------------------------
(* The REST API.  An hour is one second: a month of 31 days has 744. *)

Asked(ep) ==
    [ep |-> ep, entity |-> "pubkey", key |-> "a", id |-> 1, kind |-> 1, authors |-> Anyone, kinds |-> Anyone, since |-> Anyone, until |-> Anyone, e |-> Anyone, d |-> Anyone,
     dtag |-> "", addressable |-> TRUE, limit |-> Anyone, offset |-> Anyone, asc |-> FALSE, no |-> {}, year |-> Anyone, month |-> Anyone, day |-> Anyone,
     longSearch |-> FALSE, method |-> "GET", token |-> "valid", banned |-> FALSE]
\* Month of one author over the end of a month, some hidden, one second shared, a reply and a quote; an address and profile.
Month == <<Stored("a", 1, 743), Stored("a", 1, 768), InGroup("g", Stored("a", 1, 744)), [Stored("a", 1, 700) EXCEPT !.class = "protected"], [Stored("b", 1, 10) EXCEPT !.parent = 1],
           [Stored("b", 1, 20) EXCEPT !.quote = 1, !.tags = {"x"}], [Stored("a", 30000, 30) EXCEPT !.d = "one", !.size = 3], [Stored("a", 30000, 31) EXCEPT !.d = "two"]>>
Pages1 == {Asked("query"), [Asked("query") EXCEPT !.limit = 2], [Asked("query") EXCEPT !.limit = 1, !.offset = 1], [Asked("query") EXCEPT !.limit = 0],
           [Asked("query") EXCEPT !.offset = 5], [Asked("query") EXCEPT !.asc = TRUE, !.limit = 2, !.kinds = {1}], [Asked("query") EXCEPT !.authors = {"a", "b", "c"}],
           [Asked("kind") EXCEPT !.limit = 2], [Asked("id") EXCEPT !.id = 3], [Asked("related") EXCEPT !.id = 1, !.no = {"x"}], Asked("follows"), Asked("relays"), Asked("entity"),
           [Asked("entity") EXCEPT !.entity = "note", !.id = 2], [Asked("entity") EXCEPT !.entity = "addr", !.kind = 30000, !.dtag = "one"],
           [Asked("entity") EXCEPT !.entity = "addr", !.kind = 30000, !.d = "two", !.limit = 1], [Asked("entity") EXCEPT !.entity = "addr", !.addressable = FALSE],
           [Asked("kind") EXCEPT !.key = Anyone], [Asked("id") EXCEPT !.id = Anyone], [Asked("query") EXCEPT !.authors = {}], [Asked("query") EXCEPT !.offset = 3], [Asked("query") EXCEPT !.kinds = {30000}]}
Counts1 == {Asked("count"), [Asked("count") EXCEPT !.offset = 4], Asked("kinds"), Asked("stats"), Asked("daily"), [Asked("daily") EXCEPT !.month = 13], [Asked("monthly") EXCEPT !.since = 740],
            Asked("monthly"), [Asked("monthly") EXCEPT !.key = "c"], [Asked("monthly") EXCEPT !.since = 5, !.until = 3], [Asked("stats") EXCEPT !.kinds = {1}],
            Asked("relay/kinds"), [Asked("hourly") EXCEPT !.month = 2, !.day = 1, !.year = 1970], [Asked("hourly") EXCEPT !.day = 31], Asked("hourly")}
Api1 == [NoCalls EXCEPT !.ev = Month, !.now = 1000]
ApiMenus ==
    {[Api1 EXCEPT !.calls = <<r>>, !.closing = {"g"}, !.late = {2}, !.doomed = {1}] : r \in Pages1 \union Counts1}
    \union {[Api1 EXCEPT !.calls = <<Asked("count"), [Asked("query") EXCEPT !.limit = 1]>>, !.slow = TRUE],
            [Api1 EXCEPT !.calls = <<[Asked("query") EXCEPT !.token = "none"], [Asked("id") EXCEPT !.method = "HEAD"]>>, !.auth = TRUE],
            \* hidden events only, more than the probe reaches
            [Api1 EXCEPT !.ev = [i \in 1..6 |-> [Stored("a", 1, i) EXCEPT !.class = "wrap"]], !.calls = <<Asked("monthly"), Asked("stats")>>]}

-----------------------------------------------------------------------------
(* The bridge *)

Part1(mode) == [mode |-> mode, channel |-> "g", root |-> Anyone, kinds |-> {9}, limit |-> Anyone, until |-> Anyone, before |-> Anyone, depth |-> Anyone,
                aux |-> FALSE, sums |-> FALSE, sound |-> TRUE]
Post(path, parts) == [path |-> path, who |-> "x", token |-> "valid", parts |-> parts, event |-> 1]
Talk(at) == InGroup("g", Stored("a", 9, at))
Hidden(e) == [e EXCEPT !.class = "ttl"]
\* A channel: five messages and two replies, one of them hidden, two in one second.
Channel == <<Talk(5), ReplyTo(1, Anyone, Talk(5)), Hidden(ReplyTo(1, Anyone, Talk(4))), Talk(4), Talk(3), [ReplyTo(1, Anyone, Talk(2)) EXCEPT !.broadcast = TRUE], Talk(1)>>
\* A thread, three deep, with the reactions and edits around it.
Thread == <<Talk(5), ReplyTo(1, Anyone, Talk(6)), ReplyTo(2, 1, Talk(7)), Hidden(ReplyTo(1, Anyone, Talk(6))), ReplyTo(4, 1, Talk(8)), InGroup("g", [Stored("b", 7, 9) EXCEPT !.points = {1, 2}]),
            InGroup("g", [Stored("b", 5, 9) EXCEPT !.points = {6}]), ReplyTo(3, Anyone, [Talk(9) EXCEPT !.author = "b"])>>
\* A second with more events than a query keeps together.
Dense == [i \in 1..6 |-> IF i = 3 THEN Talk(4) ELSE ReplyTo(7, Anyone, Talk(4))] \o <<Talk(2), Talk(1)>>
\* One whose page would split the second, and one at the beginning of time.
Split(tops, at) == [i \in 1..8 |-> IF i \in tops THEN Talk(at) ELSE ReplyTo(9, Anyone, Talk(at))] \o <<Talk(9)>>
Wide == <<Talk(1)>> \o [i \in 1..5 |-> ReplyTo(1, Anyone, Talk(i + 1))]
Window1(limit) == [Part1("channel") EXCEPT !.limit = limit]
Thread1 == [Part1("thread") EXCEPT !.root = 1, !.limit = 2]
Tree1 == [Part1("tree") EXCEPT !.root = 1, !.depth = 3]
WindowMenus ==
    {[NoCalls EXCEPT !.ev = Channel, !.windows = <<Post("query", <<[Window1(l) EXCEPT !.until = u[1], !.before = u[2]]>>)>>, !.late = {4}, !.doomed = {5}, !.closing = {"g"}] :
        l \in {1, 2, 3}, u \in {<<Anyone, Anyone>>, <<5, 1>>, <<4, 3>>}}
    \union {[NoCalls EXCEPT !.ev = Dense, !.windows = <<Post("query", <<Window1(l)>>)>>] : l \in {1, 2}}
    \union {[NoCalls EXCEPT !.ev = ev, !.windows = <<Post("query", <<Window1(2)>>)>>] : ev \in {Split({1, 2}, 4), Split({1}, 4), Split({1}, 0), Wide}}
    \union {[NoCalls EXCEPT !.ev = Wide, !.windows = <<Post("query", <<p>>)>>] : p \in {Tree1, Thread1, [Thread1 EXCEPT !.kinds = {1}], [Window1(1) EXCEPT !.kinds = {9, 5, 7}]}}
    \union {[NoCalls EXCEPT !.ev = Channel, !.windows = <<Post("query", <<Window1(3), Window1(3), Window1(2)>>)>>]}
    \union {[NoCalls EXCEPT !.ev = Thread, !.windows = <<Post("query", <<p>>)>>, !.closing = {"g"}, !.doomed = {2}] :
              p \in {Thread1, [Thread1 EXCEPT !.aux = TRUE, !.limit = 4], Tree1, [Tree1 EXCEPT !.aux = TRUE, !.limit = 1],
                     [Window1(3) EXCEPT !.aux = TRUE, !.sums = TRUE]}}
    \union {[NoCalls EXCEPT !.ev = Thread, !.windows = <<Post("query", ps)>>, !.slow = TRUE] :
              ps \in {<<Window1(0), Part1("both")>>, <<[Window1(1) EXCEPT !.until = 3]>>, <<[Window1(1) EXCEPT !.channel = Anyone], [Thread1 EXCEPT !.root = 6]>>,
                      <<[Part1("plain") EXCEPT !.limit = 1], [Part1("plain") EXCEPT !.until = 6, !.before = 2]>>, <<[Part1("plain") EXCEPT !.limit = 0]>>, <<>>,
                      <<[Part1("plain") EXCEPT !.before = 3]>>, <<Window1(2), Tree1, Part1("plain")>>, <<Thread1, [Tree1 EXCEPT !.root = Anyone]>>}}
    \union {[NoCalls EXCEPT !.ev = Thread, !.windows = <<w>>, !.late = {8}, !.doomed = {8}, !.slow = TRUE] :
              w \in {Post("count", <<Part1("plain")>>), [Post("events", <<>>) EXCEPT !.who = "b", !.event = 8], [Post("events", <<>>) EXCEPT !.event = 8],
                     [Post("query", <<Tree1>>) EXCEPT !.token = "used"]}}
MCHttpMenus == ApiMenus \union WindowMenus

-----------------------------------------------------------------------------
(* The access lists *)

Rpc(who, method, key) == [who |-> who, method |-> method, key |-> key, ip |-> <<"here">>]
Shell(verb, key) == [verb |-> verb, key |-> key]
MCRoleEvents == {<<"role">>}
MCLists == [NoLists EXCEPT !.deny = {<<"k1">>}, !.grants = {<<"mod", "unbanpubkey">>}, !.kinds = {<<"7">>}, !.ips = {<<"there">>}]
MCParams == {<<"k1">>, <<"k2">>, <<"k3">>, <<"k4">>, <<"k5">>, <<"1">>, <<"7">>, <<"there">>, <<"mod", "banpubkey">>, <<"mod", "unbanpubkey">>,
             <<"a">>, <<"b">>, <<"e1">>, <<"role">>}
MCAccessMenus == {
    [calls |-> <<Rpc("root", "banpubkey", <<"k2">>), Rpc("root", "relay_allow", <<"k2">>)>>,
     cli |-> <<Shell("relay_deny", <<"k3">>)>>, seed |-> <<>>, base |-> MCLists, faults |-> {"write", "read"}, crashes |-> 1],
    [calls |-> <<Rpc("root", "disallowkind", <<"1">>), Rpc("root", "blockip", <<"there">>)>>,
     cli |-> <<Shell("access_unblockip", <<"there">>), Shell("relay_allow", <<"k1">>)>>, seed |-> <<Op("block", <<"there">>, Cli)>>,
     base |-> NoKey, faults |-> {"lock"}, crashes |-> 1],
    [calls |-> <<Rpc("root", "blossom_allow", <<"k1">>), Rpc("root", "blossom_deny", <<"k1">>), Rpc("root", "allowkind", <<"7">>)>>,
     cli |-> <<Shell("blossom_allow", <<"k2">>), Shell("blossom_deny", <<"k2">>)>>, seed |-> <<Op("allowkind", <<"1">>, Cli)>>,
     base |-> NoKey, faults |-> {"read", "write", "lock"}, crashes |-> 0],
    [calls |-> <<Rpc("root", "changerelayname", <<"a">>), Rpc("root", "changerelayname", <<"b">>), Rpc("root", "assignmethod", <<"mod", "banpubkey">>),
                 Rpc("mod", "banpubkey", <<"k1">>)>>,
     cli |-> <<>>, seed |-> <<>>, base |-> NoKey, faults |-> {"file"}, crashes |-> 0],
    [calls |-> <<Rpc("root", "relay_deny", <<"k1">>), Rpc("root", "unassignmethod", <<"mod", "banpubkey">>), Rpc("mod", "unbanpubkey", <<"k1">>)>>,
     cli |-> <<>>, seed |-> <<>>, base |-> MCLists, faults |-> {}, crashes |-> 0],
    [calls |-> <<Rpc("root", "allowpubkey", <<"k5">>), Rpc("root", "unblockip", <<"there">>), Rpc("root", "unallowpubkey", <<"k4">>), [Rpc("root", "banpubkey", <<"k1">>) EXCEPT !.ip = <<"there">>]>>,
     cli |-> <<>>, seed |-> <<>>, base |-> MCLists, faults |-> {}, crashes |-> 0],
    [calls |-> <<Rpc("root", "banevent", <<"e1">>), Rpc("root", "unbanevent", <<"e1">>), Rpc("root", "allowevent", <<"e1">>),
                 Rpc("root", "unallowevent", <<"e1">>), Rpc("root", "banevent", <<"role">>), Rpc("root", "blockip", NoKey)>>,
     cli |-> <<>>, seed |-> <<>>, base |-> NoKey, faults |-> {"read", "write"}, crashes |-> 0] }

-----------------------------------------------------------------------------
(* The replay guard *)

Signed(id, author, created) == [id |-> id, author |-> author, created |-> created, rpc |-> author # "crowd"]
MCTokens == {Signed(1, "root", 1), Signed(2, "root", 2), Signed(3, "mod", 1), Signed(4, "crowd", 0), Signed(5, "crowd", 2)}

-----------------------------------------------------------------------------

httpVars == <<hvars, api, permits, win>>

HttpNext ==
    \/ ApiNext /\ UNCHANGED win
    \/ WindowNext /\ UNCHANGED <<api, permits>>
    \/ Elsewhere /\ UNCHANGED <<api, permits, win>>

\* The part that moves has any of its menus, the others one.
Menu(p, menus) == IF part = p THEN menus ELSE {CHOOSE m \in menus : TRUE}

ReadsInit ==
    /\ part \in Parts
    /\ nmenu \in Menu("sync", IF part = "sync" THEN NegMenus ELSE {m \in NegMenus : Cardinality(m.owns) = 1})
    /\ imenu \in Menu("index", IndexMenus)
    /\ hmenu \in Menu("http", HttpMenus)
    /\ amenu \in Menu("access", AccessMenus)
    /\ NegInit /\ QueryInit /\ HttpReadsInit /\ ApiInit /\ WindowInit /\ AccessInit /\ GuardInit

ReadsNext ==
    /\ UNCHANGED part
    /\ \/ part = "sync" /\ NegNext /\ UNCHANGED <<qvars, httpVars, avars, gvars>>
       \/ part = "index" /\ QueryNext /\ UNCHANGED <<nvars, httpVars, avars, gvars>>
       \/ part = "http" /\ HttpNext /\ UNCHANGED <<nvars, qvars, avars, gvars>>
       \/ part = "access" /\ AccessNext /\ UNCHANGED <<nvars, qvars, httpVars, gvars>>
       \/ part = "guard" /\ GuardNext /\ UNCHANGED <<nvars, qvars, httpVars, avars>>

ReadsSpec == ReadsInit /\ [][ReadsNext]_<<part, nvars, qvars, httpVars, avars, gvars>>
=============================================================================
