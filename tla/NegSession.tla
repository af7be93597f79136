------------------------------ MODULE NegSession ------------------------------
(***************************************************************************)
(* NIP-77 sessions (ws/negentropy.rs) of several connections that share    *)
(* three relay-wide budgets (ws/mod.rs): the items held, the bytes of the  *)
(* replies queued, and the work of one second.  Each connection task is    *)
(* sequential; NEG-OPEN waits for its query, so other connections, the     *)
(* clock and a reload come between.  The client is external: it runs the   *)
(* other side of the protocol and may misbehave.  Frames already in the     *)
(* socket when it sends the next one are not told apart from frames read.  *)
(***************************************************************************)
EXTENDS Negentropy

CONSTANTS
    Conns, NegIds,
    Filters,      \* each a set of points: what a filter matches
    Protected,    \* points an unauthenticated client does not see
    LongIds,      \* ids over a lowered max_sub_id_len
    BadMsgs,      \* messages of a client that does not keep to the protocol
    MaxItems,     \* limits.max_neg_items
    AnonItems,    \* UNAUTH_NEG_ITEMS
    Factor,       \* NEG_BUDGET_FACTOR, NEG_CPU_BUDGET_FACTOR
    ReplyBudget,  \* neg_response_budget_bytes
    RespLimit,    \* limits.max_req_response_bytes
    OutCap,       \* limits.max_out_queue_bytes
    OutFrames,    \* OUT_QUEUE_LIMIT
    MaxSubs,      \* limits.max_subscriptions
    MaxOpens,     \* MAX_NEG_OPENS
    MaxRounds,    \* MAX_NEG_MSG_ROUNDS
    NegMenus,        \* bound: [conns, ids, acts, reqs, stores, owns]: who takes part in one behaviour, what may
                  \* happen, the REQ subscriptions open, and the sets the relay and the client may hold
    None          \* model value: no session, no query

VARIABLES
    conn,    \* the part of Conn a session uses
    budget,  \* [items, reply]: what is reserved relay-wide
    cpu,     \* [used, old]: the work window and whether its second is over
    cfg,     \* [enabled, auth, long, items]: the configuration
    client,  \* the other side, by connection and id
    store,   \* the points the relay holds
    nmenu

nvars == <<conn, budget, cpu, cfg, client, store, nmenu>>

-----------------------------------------------------------------------------
(* One connection with the budgets: w = [c, items, reply] *)

World(c) == [c |-> conn[c], items |-> budget.items, reply |-> budget.reply]
Apply(c, w) == /\ conn' = [conn EXCEPT ![c] = w.c]
               /\ budget' = [items |-> w.items, reply |-> w.reply]

Weight(f) == IF f.t = "MSG" THEN WireSize(f.ans) ELSE 1
SumOver(q, W(_)) == LET s[k \in 0..Len(q)] == IF k = 0 THEN 0 ELSE s[k-1] + W(q[k]) IN s[Len(q)]
OutBytes(q) == SumOver(q, Weight)
Reserved(f) == IF f.t = "MSG" THEN Weight(f) ELSE 0
ReplyBytes(q) == SumOver(q, Reserved)

\* Mutant: a session leaves without its items being taken off the connection's total.
RemoveNegMutant(w, id) ==
    IF w.c.neg[id] = None THEN w
    ELSE [w EXCEPT !.c.neg[id] = None, !.c.held = @ - 1,
                   !.items = @ - Cardinality(w.c.neg[id].items)]

\* remove_neg_subscription; dropping the state returns its reservation.
RemoveNeg(w, id) ==
    IF w.c.neg[id] = None THEN w
    ELSE LET n == Cardinality(w.c.neg[id].items)
         IN  [w EXCEPT !.c.neg[id] = None, !.c.total = @ - n, !.c.held = @ - 1, !.items = @ - n]

\* Mutant: a queued round is not tagged with its id.
PurgeMutant(w, id) ==
    LET kept == SelectSeq(w.c.out, LAMBDA f : f.id # id \/ f.t = "MSG")
    IN  [w EXCEPT !.c.out = kept, !.reply = @ - (ReplyBytes(w.c.out) - ReplyBytes(kept))]

\* purge_queued_neg_frames_for; a purged reply returns its bytes.
Purge(w, id) ==
    LET kept == SelectSeq(w.c.out, LAMBDA f : f.id # id)
    IN  [w EXCEPT !.c.out = kept, !.reply = @ - (ReplyBytes(w.c.out) - ReplyBytes(kept))]

\* queue_control_text: the last-resort caps on frames and bytes.
FitsReply(w, f) ==
    /\ Len(w.c.out) < 2 * OutFrames
    /\ w.c.out = <<>> \/ OutBytes(w.c.out) + Weight(f) <= 2 * RespLimit

Queue(w, f) == IF FitsReply(w, f) THEN [w EXCEPT !.c.out = Append(@, f)] ELSE [w EXCEPT !.c.over = TRUE]

Echo(id) == ~(cfg.long /\ id \in LongIds)
Err(id) == [t |-> "ERR", id |-> id, echo |-> Echo(id), ans |-> AnswerTo("error", <<>>)]

\* neg_err_with_echo: the refusal closes the id under its raw name.
NegErr(w, id) == Queue(Purge(RemoveNeg(w, id), id), Err(id))

\* send_neg_msg_with_echo: refused by the reply budget or by the queue.
Msg(id, ans) == [t |-> "MSG", id |-> id, echo |-> Echo(id), ans |-> ans]
SendFits(w, f) == w.reply + Weight(f) <= ReplyBudget /\ FitsReply(w, f)
SendMsg(w, f) ==
    IF w.reply + Weight(f) > ReplyBudget THEN w
    ELSE IF ~FitsReply(w, f) THEN [w EXCEPT !.c.over = TRUE]
    ELSE [w EXCEPT !.c.out = Append(@, f), !.reply = @ + Weight(f)]

\* neg_backpressured
Backpressured(w) == OutBytes(w.c.out) > 4 * OutCap

\* reap_idle_negentropy: every idle session gets its NEG-ERR, in some order.
Reap(w) ==
    LET idle == {id \in NegIds : w.c.neg[id] # None /\ w.c.neg[id].idle}
        order == CHOOSE q \in [1..Cardinality(idle) -> idle] : \A i, j \in DOMAIN q : q[i] = q[j] => i = j
        reap[k \in 0..Cardinality(idle)] == IF k = 0 THEN w ELSE NegErr(reap[k-1], order[k])
    IN  reap[Cardinality(idle)]

TouchAndReap(w, id) == Reap([w EXCEPT !.c.neg[id].idle = FALSE])

\* try_charge: a new second, or a limit that shrank below what was spent, opens a window.
CpuLimit == Factor * cfg.items
FreshClient == cpu.old \/ cpu.used > CpuLimit
Charged(units) == IF FreshClient THEN units <= CpuLimit ELSE cpu.used + units <= CpuLimit
CpuAfter(units) ==
    IF ~Charged(units) THEN cpu
    ELSE [used |-> IF FreshClient THEN units ELSE cpu.used + units, old |-> FALSE]

-----------------------------------------------------------------------------
(* NEG-OPEN *)

Alive(c) == c \in nmenu.conns /\ conn[c].up
Reading(c) == Alive(c) /\ ~conn[c].over /\ conn[c].query = None

\* The client starts over under this id.
Starts(c, id, f) ==
    client' = [client EXCEPT ![c][id] = [@ EXCEPT !.st = "waiting", !.filter = f, !.have = {}, !.need = {}]]

Sessions(w) == {id \in NegIds : w.c.neg[id] # None}
QueryCap(w) == IF w.c.authed \/ cfg.items < AnonItems THEN cfg.items ELSE AnonItems

\* The refusals in front of the query, in the order of the code; only the last one charges.
OpenRefused(w, c, id, bad) ==
    \/ ~cfg.enabled \/ ~Echo(id) \/ bad
    \/ cfg.auth /\ ~w.c.authed
    \/ w.c.denied
    \/ w.c.neg[id] = None /\ Cardinality(Sessions(w)) + w.c.reqs >= MaxSubs
    \/ w.c.opens >= MaxOpens

\* handle_neg_open up to the query: `bad` stands for a malformed filter or message.
NegOpen(c, id, f, bad) ==
    LET w == Purge(World(c), id)
    IN  /\ Reading(c)
        /\ bad => "bad" \in nmenu.acts
        /\ Starts(c, id, f)
        /\ IF OpenRefused(w, c, id, bad)
           THEN Apply(c, NegErr(w, id)) /\ UNCHANGED cpu
           ELSE /\ cpu' = CpuAfter(QueryCap(w))
                /\ IF Charged(QueryCap(w))
                   THEN Apply(c, [w EXCEPT !.c.opens = @ + 1,
                                           !.c.query = [id |-> id, filter |-> f, cap |-> QueryCap(w),
                                                        max |-> cfg.items]])
                   ELSE Apply(c, NegErr(w, id))
        /\ UNCHANGED <<cfg, store, nmenu>>

\* The initial message of the client: one fingerprint of what it holds.
InitialMsg(c, id) ==
    [version |-> TRUE,
     ranges |-> <<Fingerprint(Infinity, client[c][id].own \cap client[c][id].filter)>>]

\* Replace, reserve, insert, send: the old session goes before the new one is reserved.
Admit(w, q, items, ans) ==
    LET free == Purge(RemoveNeg(w, q.id), q.id)
        held == [free EXCEPT !.c.neg[q.id] = [items |-> items, rounds |-> MaxRounds, idle |-> FALSE],
                             !.c.total = @ + Cardinality(items), !.c.held = @ + 1,
                             !.items = @ + Cardinality(items)]
    IN  IF free.items + Cardinality(items) > Factor * q.max THEN NegErr(free, q.id)
        ELSE IF Backpressured(held) THEN NegErr(held, q.id)
        ELSE IF ~SendFits(held, Msg(q.id, ans)) THEN NegErr(SendMsg(held, Msg(q.id, ans)), q.id)
        ELSE TouchAndReap(SendMsg(held, Msg(q.id, ans)), q.id)

\* What the connection may see of the matching records.
VisibleItems(c, f) == {i \in store \cap f : i \notin Protected \/ conn[c].authed}

\* handle_neg_open from the answer of the reader: failed (or a message the codec refuses), too big,
\* or the records.
NegOpened(c) ==
    LET w == [World(c) EXCEPT !.c.query = None]
        q == conn[c].query
        items == VisibleItems(c, q.filter)
        ans == Respond(items, InitialMsg(c, q.id))
        old == IF w.c.neg[q.id] = None THEN 0 ELSE Cardinality(w.c.neg[q.id].items)
    IN  /\ Alive(c) /\ conn[c].query # None
        /\ \/ /\ "fail" \in nmenu.acts
              /\ Apply(c, NegErr(w, q.id)) /\ UNCHANGED client
           \/ /\ client' = [client EXCEPT ![c][q.id].served = items]
              /\ Apply(c, IF \/ Cardinality(store \cap q.filter) > q.cap
                             \/ w.c.total - old + Cardinality(items) > 2 * q.cap
                             \/ WireSize(ans) > RespLimit
                          THEN NegErr(w, q.id)
                          ELSE Admit(w, q, items, ans))
        /\ UNCHANGED <<cpu, cfg, store, nmenu>>

-----------------------------------------------------------------------------
(* NEG-MSG and NEG-CLOSE *)

\* The refusals in front of the round.
RoundRefused(w, id) ==
    \/ ~cfg.enabled \/ w.c.denied
    \/ w.c.reqAuth /\ ~w.c.authed
    \/ w.c.neg[id] = None
    \/ w.c.neg[id].rounds = 0

\* One round over the held items.
Round(w, id, msg) ==
    LET ans == Respond(w.c.neg[id].items, msg)
        left == [w EXCEPT !.c.neg[id].rounds = @ - 1]
    IN  IF ans.kind = "error" \/ WireSize(ans) > RespLimit \/ Backpressured(left) THEN NegErr(left, id)
        ELSE IF ~SendFits(left, Msg(id, ans)) THEN NegErr(SendMsg(left, Msg(id, ans)), id)
        ELSE TouchAndReap(SendMsg(left, Msg(id, ans)), id)

\* handle_neg_msg; a round costs its held items, at least one.
HandleNegMsg(c, id, msg) ==
    LET w == World(c)
        n == IF w.c.neg[id] = None THEN 0 ELSE Cardinality(w.c.neg[id].items)
        units == IF n = 0 THEN 1 ELSE n
    IN  /\ Reading(c)
        /\ IF RoundRefused(w, id) THEN Apply(c, NegErr(w, id)) /\ UNCHANGED cpu
           ELSE /\ cpu' = CpuAfter(units)
                /\ Apply(c, IF Charged(units) THEN Round(w, id, msg) ELSE NegErr(w, id))
        /\ UNCHANGED <<cfg, store, nmenu>>

\* The client's next round, or one that breaks the protocol.
NegMsg(c, id) ==
    \/ /\ client[c][id].st = "ready"
       /\ HandleNegMsg(c, id, client[c][id].msg)
       /\ client' = [client EXCEPT ![c][id].st = "waiting"]
    \/ /\ "bad" \in nmenu.acts
       /\ \E msg \in BadMsgs : HandleNegMsg(c, id, msg)
       /\ client' = [client EXCEPT ![c][id].st = "rogue"]

NegClose(c, id) ==
    /\ Reading(c) /\ "close" \in nmenu.acts
    /\ Apply(c, Purge(RemoveNeg(World(c), id), id))
    /\ client' = [client EXCEPT ![c][id].st = "idle"]
    /\ UNCHANGED <<cpu, cfg, store, nmenu>>

-----------------------------------------------------------------------------
(* The rest of the connection and its surroundings *)

\* The keep-alive tick: the cached configuration is refreshed, idle sessions are reaped.
Ping(c) ==
    /\ Reading(c) /\ "time" \in nmenu.acts
    /\ Apply(c, Reap([World(c) EXCEPT !.c.reqAuth = cfg.auth]))
    /\ UNCHANGED <<cpu, cfg, client, store, nmenu>>

\* NEG_IDLE_TIMEOUT passes without a successful round.
Silence ==
    /\ "time" \in nmenu.acts
    /\ conn' = [c \in Conns |-> [conn[c] EXCEPT !.neg =
                  [id \in NegIds |-> IF @[id] = None THEN None ELSE [@[id] EXCEPT !.idle = TRUE]]]]
    /\ UNCHANGED <<budget, cpu, cfg, client, store, nmenu>>

NextSecond ==
    /\ ~cpu.old
    /\ cpu' = [cpu EXCEPT !.old = TRUE]
    /\ UNCHANGED <<conn, budget, cfg, client, store, nmenu>>

Reload ==
    /\ "reload" \in nmenu.acts
    /\ \E on, auth, long \in BOOLEAN, n \in {1, MaxItems} :
          cfg' = [enabled |-> on, auth |-> auth, long |-> long, items |-> n]
    /\ UNCHANGED <<conn, budget, cpu, client, store, nmenu>>

\* The access lists or the AUTH state of the connection change.
AccessChanges(c) ==
    /\ Alive(c) /\ "access" \in nmenu.acts
    /\ \E denied, authed \in BOOLEAN :
          /\ conn[c].authed => authed
          /\ conn' = [conn EXCEPT ![c].denied = denied, ![c].authed = authed]
    /\ UNCHANGED <<budget, cpu, cfg, client, store, nmenu>>

\* The client (external) reads a reply: equal ranges are skipped, lists recorded, the rest narrowed.
ClientRange(own, lo, r) ==
    LET mine == IdsIn(own, lo, r.up)
    IN  IF r.mode = "fp" /\ mine # r.set THEN
           IF Cardinality(mine) <= IdListThreshold THEN <<IdList(r.up, mine)>>
           ELSE LET mid == SplitBound(mine)
                IN  <<Fingerprint(mid, IdsIn(mine, lo, mid)), Fingerprint(r.up, IdsIn(mine, mid, r.up))>>
        ELSE <<SkipTo(r.up)>>

ClientReads(cl, ans) ==
    LET own == cl.own \cap cl.filter
        lo(k) == IF k = 1 THEN 0 ELSE ans.ranges[k-1].up
        listed == {k \in DOMAIN ans.ranges : ans.ranges[k].mode = "ids"}
        next[k \in 0..Len(ans.ranges)] ==
            IF k = 0 THEN <<>> ELSE next[k-1] \o ClientRange(own, lo(k), ans.ranges[k])
        msg == next[Len(ans.ranges)]
    IN  IF ans.kind \in {"version", "error"} THEN [cl EXCEPT !.st = "failed"]
        ELSE [cl EXCEPT
               !.have = @ \cup UNION {IdsIn(own, lo(k), ans.ranges[k].up) \ ans.ranges[k].set : k \in listed},
               !.need = @ \cup UNION {ans.ranges[k].set \ own : k \in listed},
               !.msg = [version |-> TRUE, ranges |-> msg],
               !.st = IF \A k \in DOMAIN msg : msg[k].mode = "skip" THEN "done" ELSE "ready"]

\* The oldest queued frame reaches the client; its reservation is returned.
WriteReply(c) ==
    /\ Alive(c) /\ conn[c].out # <<>>
    /\ LET f == Head(conn[c].out) IN
       /\ conn' = [conn EXCEPT ![c].out = Tail(@)]
       /\ budget' = [budget EXCEPT !.reply = @ - Reserved(f)]
       /\ client' = IF ~f.echo \/ client[c][f.id].st \notin {"waiting", "ready"} THEN client
                    ELSE IF f.t = "ERR" THEN [client EXCEPT ![c][f.id].st = "failed"]
                    ELSE [client EXCEPT ![c][f.id] = ClientReads(@, f.ans)]
    /\ UNCHANGED <<cpu, cfg, store, nmenu>>

\* The connection ends, in particular after a dropped control frame: everything it holds is dropped.
Teardown(c) ==
    /\ Alive(c) /\ ("drop" \in nmenu.acts \/ conn[c].over)
    /\ LET w == World(c)
           gone == [w.c EXCEPT !.up = FALSE, !.neg = [id \in NegIds |-> None], !.out = <<>>,
                               !.held = 0, !.total = 0, !.query = None]
       IN  Apply(c, [c |-> gone, items |-> w.items - w.c.total, reply |-> w.reply - ReplyBytes(w.c.out)])
    /\ client' = [client EXCEPT ![c] = [id \in NegIds |-> [@[id] EXCEPT !.st = "idle"]]]
    /\ UNCHANGED <<cpu, cfg, store, nmenu>>

-----------------------------------------------------------------------------
FreshConn(r) ==
    [neg |-> [id \in NegIds |-> None], total |-> 0, opens |-> 0, held |-> 0, out |-> <<>>, over |-> FALSE,
     query |-> None, authed |-> FALSE, denied |-> FALSE, reqAuth |-> FALSE, reqs |-> r, up |-> TRUE]

NegInit ==
    /\ nmenu \in NegMenus
    /\ store \in nmenu.stores
    /\ conn = [c \in Conns |-> FreshConn(nmenu.reqs)]
    /\ \E own \in nmenu.owns :
          client = [c \in Conns |-> [id \in NegIds |->
                      [own |-> own, st |-> "idle", filter |-> {}, have |-> {}, need |-> {}, served |-> {},
                       msg |-> [version |-> TRUE, ranges |-> <<>>]]]]
    /\ budget = [items |-> 0, reply |-> 0]
    /\ cpu = [used |-> 0, old |-> FALSE]
    /\ cfg = [enabled |-> TRUE, auth |-> FALSE, long |-> FALSE, items |-> MaxItems]

NegNext ==
    \/ \E c \in Conns :
        \/ \E id \in nmenu.ids, f \in Filters : \E bad \in BOOLEAN : NegOpen(c, id, f, bad)
        \/ \E id \in nmenu.ids : NegMsg(c, id) \/ NegClose(c, id)
        \/ NegOpened(c) \/ Ping(c) \/ AccessChanges(c) \/ WriteReply(c) \/ Teardown(c)
    \/ Silence \/ NextSecond \/ Reload

NegSpec == NegInit /\ [][NegNext]_nvars

-----------------------------------------------------------------------------
(* Properties *)

SumConns(F(_)) ==
    LET q == CHOOSE s \in [1..Cardinality(Conns) -> Conns] : \A i, j \in DOMAIN s : s[i] = s[j] => i = j
    IN  SumOver(q, F)
ItemsOf(c) ==
    LET n(id) == IF conn[c].neg[id] = None THEN 0 ELSE Cardinality(conn[c].neg[id].items)
        q == CHOOSE s \in [1..Cardinality(NegIds) -> NegIds] : \A i, j \in DOMAIN s : s[i] = s[j] => i = j
    IN  SumOver(q, n)

\* The relay-wide counters are exactly what the open sessions and the queued replies hold, on every
\* path that opens, replaces, refuses, reaps, purges or drops one (NegState and NegResponseReservation
\* release on drop; neg_total and subscriptions_held are kept by hand).
NegBudgetsExact ==
    /\ budget.items = SumConns(ItemsOf)
    /\ budget.reply = SumConns(LAMBDA c : ReplyBytes(conn[c].out))
    /\ \A c \in Conns : /\ conn[c].total = ItemsOf(c)
                        /\ conn[c].held = Cardinality({id \in NegIds : conn[c].neg[id] # None})

\* A client that follows the protocol and ends its sync knows exactly what each side lacks of the set
\* that was opened for it: respond covers the whole space, a refused round closes the id, and no
\* frame of an earlier sync under the id reaches a later one.
SyncExact ==
    \A c \in Conns, id \in NegIds :
        LET cl == client[c][id] IN
        cl.st = "done" => /\ cl.need = cl.served \ cl.own
                          /\ cl.have = (cl.own \cap cl.filter) \ cl.served
=============================================================================
