------------------------------ MODULE WsSession ------------------------------
(***************************************************************************)
(* One WebSocket connection and everything that feeds its subscriptions:   *)
(* the REQ, CLOSE, COUNT and AUTH handlers (ws/handler.rs), the pending    *)
(* responses and their pump, the outgoing queue and the connection loop    *)
(* (ws/mod.rs), the subscription index (relay/index.rs) and the live bus   *)
(* (relay/mod.rs).  The connection task is sequential: `pc` names the      *)
(* await it is at.  The accept path, the reader thread and the bus run     *)
(* beside it.                                                              *)
(*                                                                         *)
(* `peer` is the struct Conn.  A frame, an event or a filter component     *)
(* weighs one unit, so the byte cap and the count cap of a queue are one   *)
(* number.                                                                 *)
(***************************************************************************)
EXTENDS Integers, Sequences, FiniteSets, Sums

CONSTANTS
    SubIds,          \* subscription ids the client uses
    Filters,         \* [kinds, authors, tags], each a set; {} is "not constrained"
    Events,          \* [id, kind, author, deleg, tags, class, to]
    Keys,            \* keys the client may authenticate
    Menus,           \* bound: [acts, early, evs, reqs, faults, others], what one behaviour may meet: the kinds
                     \* of frames and disturbances, the events stored before and published, the REQ and COUNT
                     \* frames, the failed queries and bus panics, what other connections hold of the budget
    MaxPending,      \* MAX_PENDING_REQS
    OutLimit,        \* OUT_QUEUE_LIMIT and the byte cap, in frames
    LiveBacklog,     \* live events one pending response may hold
    QueueLimit,      \* batches in the connection's live queue
    BatchSize,       \* live_batch_size
    BusLimit,        \* the live buffer in front of the bus
    MaxSubs,         \* limits.max_subscriptions
    SubBytesLimit,   \* limits.max_sub_bytes, in filter components
    PageLimit,       \* limits.max_limit
    RespLimit,       \* limits.max_req_response_bytes, in events; 0 is "unlimited"
    RelayBudget,     \* the relay-wide pending budget, in events; 0 is "unlimited"
    MaxAuths,        \* MAX_AUTH_ATTEMPTS
    NoSub, NoQueue   \* model values

VARIABLES
    peer,     \* the connection
    pc,       \* "drain", "pump", "select", "window", "enqueue", "query", "answer", "deliver", "relieve", "teardown", "gone"
    after,    \* where the pump returns to
    req,      \* the REQ in hand while its query runs: [sub, filter]
    page,     \* the reader's answer: [evs, more, hidden, ok]
    cur,      \* the rest of the live batch being delivered
    access,   \* [denied, busy, seen, cfgAuth, cfgSeen]: the lists and the reload; `seen` is the watch
    store,    \* ids of the stored events
    toBus,    \* committed, not yet handed to the live buffer
    bus,      \* the live buffer
    fan,      \* the bus task and its overflow signal: [step, batch, gen, overflow]
    view,     \* what was written to the wire (SubProtocol)
    nreq, nfault,
    menu      \* the member of Menus this behaviour is bounded by

svars == <<peer, pc, after, req, page, cur, access, store, toBus, bus, fan, view, nreq, nfault, menu>>
relayVars == <<store, toBus, bus, fan, menu>>

EventIds == {e.id : e \in Events}
Ev(i) == CHOOSE e \in Events : e.id = i

-----------------------------------------------------------------------------
(* Filters, the index and visibility *)

Matches(f, e) ==
    /\ f.kinds = {} \/ e.kind \in f.kinds
    /\ f.authors = {} \/ {e.author, e.deleg} \cap f.authors # {}
    /\ f.tags = {} \/ f.tags \cap e.tags # {}

\* FilterComponents::of: a filter without an indexable component is in "all".
FilterComponents(f) ==
    IF f.kinds \cup f.authors \cup f.tags = {} THEN {<<"all", "">>}
    ELSE {<<"kind", k>> : k \in f.kinds} \cup {<<"author", a>> : a \in f.authors}
           \cup {<<"tag", t>> : t \in f.tags}

\* The connection's live queue: batches of events, and the generation that tells it from an earlier one.
LiveQueue == [gen : Nat, q : Seq(Seq(EventIds))]

\* One id names one event; the finite sets and the limits are what the configuration and the wire allow.
ASSUME SessionConstants ==
    /\ IsFiniteSet(SubIds) /\ IsFiniteSet(Events) /\ EventIds \subseteq Nat /\ \A d, e \in Events : d.id = e.id => d = e
    /\ \A f \in Filters : IsFiniteSet(FilterComponents(f))
    /\ NoSub \notin Filters /\ NoSub \notin SubIds /\ NoQueue \notin LiveQueue
    /\ MaxPending \in Nat \ {0} /\ {OutLimit, LiveBacklog, PageLimit, RespLimit, BatchSize} \subseteq Nat
    /\ \A m \in Menus : m.early \subseteq EventIds

\* Mutant: only the signing key is looked up.
EventComponentsMutant(e) ==
    {<<"all", "">>, <<"author", e.author>>} \cup {<<"tag", t>> : t \in e.tags}

\* The entries of the index that extend_candidates looks an event up in.
EventComponents(e) ==
    {<<"all", "">>, <<"kind", e.kind>>, <<"author", e.author>>, <<"author", e.deleg>>}
      \cup {<<"tag", t>> : t \in e.tags}

OpenSubs(cn) == {s \in SubIds : cn.subs[s] # NoSub}
RegisteredComponents(cn) == UNION {FilterComponents(cn.subs[s]) : s \in OpenSubs(cn)}

\* visible_to: NIP-70, NIP-59, NIP-78 and addressed notices, for the keys of a connection.
VisibleTo(keys, e) ==
    CASE e.class = "protected"         -> keys # {}
      [] e.class \in {"wrap", "notice"} -> keys \cap e.to # {}
      [] e.class = "app"               -> e.author \in keys
      [] OTHER                         -> TRUE

\* read_verdict: one denied key denies the connection; an anonymous one reads.
Verdict(cn) == cn.authed \cap access.denied = {}

\* access_allows_read_sync: while a writer holds the lists the cached verdict stands.
SyncVerdict(cn) == IF access.busy THEN cn.cache ELSE Verdict(cn)

-----------------------------------------------------------------------------
(* The outgoing queue and the bookkeeping of one connection *)

\* A frame: `inc` is the incarnation of the id it was made for (ghost).
EventFrame(cn, s, live, i) ==
    [t |-> "EVENT", sub |-> s, inc |-> cn.inc[s], live |-> live, ev |-> i]
Control(cn, t, s) == [t |-> t, sub |-> s, inc |-> cn.inc[s], live |-> FALSE, ev |-> 0]
Plain(t) == [t |-> t, sub |-> NoSub, inc |-> 0, live |-> FALSE, ev |-> 0]

\* send_tagged: dropped at the cap.
SendTagged(cn, f) == IF Len(cn.out) >= OutLimit THEN cn ELSE [cn EXCEPT !.out = Append(@, f)]

\* queue_control_text: above the cap up to a second ceiling, then the connection is given up.
SendControl(cn, f) ==
    IF Len(cn.out) >= 2 * OutLimit THEN [cn EXCEPT !.ctlOver = TRUE]
    ELSE [cn EXCEPT !.out = Append(@, f)]

SendClosed(cn, s) == SendControl(cn, Control(cn, "CLOSED", s))

\* Mutant: a queued EOSE is not tagged.
PurgeMutant(cn, s) == [cn EXCEPT !.out = SelectSeq(@, LAMBDA f : f.sub # s \/ f.t = "EOSE")]

\* What is left of the frames or the responses q without those of ids.
WithoutSubs(q, ids) ==
    LET kept[n \in 0..Len(q)] ==
          IF n = 0 THEN <<>> ELSE IF q[n].sub \in ids THEN kept[n - 1] ELSE Append(kept[n - 1], q[n])
    IN  kept[Len(q)]

\* purge_queued_events_for: every queued frame of the id, its EOSE and CLOSED too.
Purge(cn, s) == [cn EXCEPT !.out = WithoutSubs(@, {s})]

SumReserved(p) == SumOver([k \in DOMAIN p |-> p[k].reserved], DOMAIN p)

\* Dropping a PendingReq gives its reservation back (Drop for PendingReq).
DropPending(cn, ids) ==
    LET kept == WithoutSubs(cn.pending, ids)
    IN  [cn EXCEPT !.pending = kept,
                   !.reserved = @ - (SumReserved(cn.pending) - SumReserved(kept))]

\* release_live_queue_if_idle, after sync_live_index.
SyncIndex(cn) ==
    [cn EXCEPT !.index = RegisteredComponents(cn),
               !.live = IF OpenSubs(cn) = {} THEN NoQueue ELSE @]

RemoveReqSubscription(cn, s) ==
    LET p == DropPending(cn, {s})
    IN  IF s \notin OpenSubs(cn) THEN p
        ELSE SyncIndex([p EXCEPT !.subBytes = @ - Cardinality(FilterComponents(cn.subs[s])),
                                 !.held = @ - 1,
                                 !.subs[s] = NoSub])

\* Mutant: a refused replacement keeps the old subscription's filter bytes.
RejectMutant(cn, s) ==
    [SendClosed(Purge(RemoveReqSubscription(cn, s), s), s) EXCEPT !.subBytes = cn.subBytes]

\* reject_req and reject_count: the refusal closes whatever the id was.
Reject(cn, s) == SendClosed(Purge(RemoveReqSubscription(cn, s), s), s)

\* The orders in which the ids of S may be visited.
Orders(S) == {q \in [1..Cardinality(S) -> S] : \A i, j \in DOMAIN q : q[i] = q[j] => i = j}

\* Every id of S is refused, one after the other.
RejectAll(cn, S) ==
    LET order == CHOOSE q \in Orders(S) : TRUE
        closed[k \in 0..Cardinality(S)] == IF k = 0 THEN cn ELSE Reject(closed[k - 1], order[k])
    IN  closed[Cardinality(S)]

\* close_all_subs
CloseAllSubs(cn) == RejectAll(cn, OpenSubs(cn))

\* enforce_read_authorization
Enforce(cn) ==
    LET checked == [cn EXCEPT !.cache = Verdict(cn)]
    IN  IF ~Verdict(cn) \/ (cn.reqAuth /\ cn.authed = {}) THEN CloseAllSubs(checked) ELSE checked

\* close_for_live_overflow: told, not removed; the connection ends next.
CloseForLiveOverflow(cn) ==
    LET order == CHOOSE q \in Orders(OpenSubs(cn)) : TRUE
        sent[k \in 0..Len(order)] == IF k = 0 THEN cn ELSE SendClosed(sent[k - 1], order[k])
    IN  [sent[Len(order)] EXCEPT !.liveOver = TRUE]

\* The head of the loop: an overflowed control queue ends the connection, else it writes.
LoopTop(cn) == /\ pc' = IF cn.ctlOver THEN "teardown" ELSE "drain"
               /\ after' = "select"

-----------------------------------------------------------------------------
(* The pending responses *)

PendingReq(s) == [sub |-> s, evs |-> <<>>, sent |-> 0, more |-> FALSE, auth |-> FALSE,
                  live |-> <<>>, eose |-> FALSE, reserved |-> 0]

\* finish_pending_req: the challenge, when the hint promises one, then the EOSE.
FinishPendingReq(cn, p) ==
    SendControl(IF p.auth THEN SendControl(cn, Plain("AUTH")) ELSE cn, Control(cn, "EOSE", p.sub))

\* Mutant: the response that is cut off gets no EOSE.
CutOffMutant(cn) ==
    IF Len(cn.pending) < MaxPending THEN cn
    ELSE [cn EXCEPT !.pending = Tail(@), !.reserved = @ - Head(cn.pending).reserved]

\* The cut-off of enqueue_pending_req, once the pump took what it could.
CutOff(cn) ==
    IF Len(cn.pending) < MaxPending THEN cn
    ELSE LET p == Head(cn.pending)
             rest == [cn EXCEPT !.pending = Tail(@), !.reserved = @ - p.reserved,
                                !.full[p.sub] = FALSE]
         IN  IF p.sub \notin OpenSubs(cn) THEN rest
             ELSE IF p.live # <<>> THEN RemoveReqSubscription(SendClosed(rest, p.sub), p.sub)
             ELSE IF ~p.eose THEN FinishPendingReq(rest, p)
             ELSE rest

\* PendingResponseBudget::try_reserve, 0 = unlimited.
BudgetAllows(cn, n) == RelayBudget = 0 \/ menu.others + cn.reserved + n <= RelayBudget

\* Pushing stored events stops at the queue cap or at the response budget.
PumpEvent ==
    LET p == Head(peer.pending) IN
    /\ p.evs # <<>> /\ Len(peer.out) < OutLimit
    /\ RespLimit = 0 \/ p.sent < RespLimit
    /\ peer' = [peer EXCEPT !.out = Append(@, EventFrame(peer, p.sub, FALSE, Head(p.evs))),
                      !.pending[1] = [p EXCEPT !.evs = Tail(@), !.sent = @ + 1],
                      !.cache = SyncVerdict(peer)]

PumpTooLarge ==
    LET p == Head(peer.pending) IN
    /\ p.evs # <<>> /\ Len(peer.out) < OutLimit
    /\ RespLimit > 0 /\ p.sent >= RespLimit
    /\ peer' = RemoveReqSubscription(SendClosed([peer EXCEPT !.cache = SyncVerdict(peer)], p.sub), p.sub)

\* All stored events are queued: the EOSE once, then the live events held back.
PumpEose ==
    LET p == Head(peer.pending) IN
    /\ p.evs = <<>> /\ ~p.eose
    /\ peer' = FinishPendingReq([peer EXCEPT !.pending[1] = [p EXCEPT !.eose = TRUE], !.cache = SyncVerdict(peer)], p)

\* drain_pending_live: one held-back event, or the end of the response.
PumpLive ==
    LET p == Head(peer.pending) IN
    /\ p.evs = <<>> /\ p.eose
    /\ \/ /\ p.live # <<>> /\ Len(peer.out) < OutLimit
          /\ peer' = [peer EXCEPT !.out = Append(@, EventFrame(peer, p.sub, TRUE, Head(p.live))),
                            !.pending[1] = [p EXCEPT !.live = Tail(@)]]
       \/ /\ p.live = <<>>
          /\ peer' = [peer EXCEPT !.pending = Tail(@), !.reserved = @ - p.reserved]

\* The gates at the top of the pump's loop: every response queued is dropped, its id closed.
PumpRefused ==
    LET ids == {peer.pending[i].sub : i \in DOMAIN peer.pending}
    IN  peer' = RejectAll(DropPending([peer EXCEPT !.cache = SyncVerdict(peer)], ids), ids)

Refused == ~SyncVerdict(peer) \/ (peer.reqAuth /\ peer.authed = {})

\* The queue is full with work left, or nothing is pending: the pump returns.
PumpDone ==
    peer.pending # <<>> =>
       LET p == Head(peer.pending)
       IN  p.sub \in OpenSubs(peer) /\ Len(peer.out) >= OutLimit /\ (p.evs # <<>> \/ (p.eose /\ p.live # <<>>))

\* Where the pump was called from: the loop's own, the read window, a REQ or a live batch.
PumpReturns == IF after = "top" THEN LoopTop(peer') ELSE pc' = after /\ UNCHANGED after

\* pump_pending_reqs, one loop iteration a step.
Pump ==
    /\ pc = "pump"
    /\ \/ /\ Refused /\ PumpRefused /\ PumpReturns
       \/ /\ ~Refused /\ peer.pending # <<>>
          /\ IF Head(peer.pending).sub \notin OpenSubs(peer)
             THEN peer' = [peer EXCEPT !.pending = Tail(@), !.reserved = @ - Head(peer.pending).reserved]
             ELSE PumpEvent \/ PumpTooLarge \/ PumpEose \/ PumpLive
          /\ UNCHANGED <<pc, after>>
       \/ ~Refused /\ PumpDone /\ peer' = [peer EXCEPT !.cache = SyncVerdict(peer)] /\ PumpReturns
    /\ UNCHANGED <<req, page, cur, access, relayVars, view, nreq, nfault>>

-----------------------------------------------------------------------------
(* The client's frames *)

Reading == pc \in {"select", "window"}

SubBytes(cn, s) == IF s \in OpenSubs(cn) THEN Cardinality(FilterComponents(cn.subs[s])) ELSE 0

\* ensure_live_queue: a queue of its own generation, kept while any subscription is open.
EnsureLiveQueue(cn) ==
    IF cn.live # NoQueue THEN cn
    ELSE [cn EXCEPT !.live = [gen |-> cn.gen + 1, q |-> <<>>], !.gen = @ + 1]

\* The conditions under which handle_req refuses before it touches the subscription.
ReqRefused(cn, s) ==
    \/ access.cfgAuth /\ cn.authed = {}
    \/ ~Verdict(cn)
    \/ s \notin OpenSubs(cn) /\ Cardinality(OpenSubs(cn)) >= MaxSubs

\* Inserting the subscription: queue and index before the history is read.
RegisterSub(cn, s, f) ==
    LET put == EnsureLiveQueue(
                 [Purge(cn, s) EXCEPT
                    !.subBytes = @ - SubBytes(cn, s) + Cardinality(FilterComponents(f)),
                    !.subs[s] = f,
                    !.held = IF s \in OpenSubs(cn) THEN @ ELSE @ + 1])
    IN  DropPending([put EXCEPT !.index = RegisteredComponents(put)], {s})

\* handle_req up to the query.  `malformed` stands for the refusals of ids and filters.
HandleReq(s, f, malformed) ==
    LET cn == [peer EXCEPT !.inc[s] = @ + 1, !.full[s] = FALSE,
                        !.cache = IF malformed THEN @ ELSE Verdict(peer)]
        total == cn.subBytes - SubBytes(cn, s) + Cardinality(FilterComponents(f))
    IN  /\ Reading /\ nreq < menu.reqs
        /\ malformed => "malformed" \in menu.acts
        /\ nreq' = nreq + 1
        /\ view' = [view EXCEPT ![s] = [view[s] EXCEPT !.inc = @ + 1, !.ph = "scanning", !.hist = {}, !.live = {}]]
        /\ IF malformed \/ ReqRefused(cn, s) \/ total > SubBytesLimit
           THEN /\ peer' = Reject(cn, s)
                /\ pc' = "window"
                /\ UNCHANGED <<after, req>>
           ELSE /\ peer' = RegisterSub(cn, s, f)
                /\ req' = [sub |-> s, filter |-> f]
                /\ pc' = "pump" /\ after' = "enqueue"
        /\ UNCHANGED <<page, cur, access, relayVars, nfault>>

\* The end of enqueue_pending_req: the barrier that holds live events back.
EnqueueBarrier ==
    /\ pc = "enqueue"
    /\ LET cut == CutOff(peer) IN peer' = [cut EXCEPT !.pending = Append(@, PendingReq(req.sub))]
    /\ pc' = "query"
    /\ UNCHANGED <<after, req, page, cur, access, relayVars, view, nreq, nfault>>

NewestFirst(S) ==
    [k \in 1..Cardinality(S) |-> CHOOSE i \in S : Cardinality({j \in S : j > i}) = k - 1]

\* The reader thread answers from one snapshot of the store, or fails.
ReaderAnswers ==
    LET all == NewestFirst({i \in store : Matches(req.filter, Ev(i))})
        got == {all[k] : k \in {k \in DOMAIN all : k <= PageLimit}}
        seen == {i \in got : VisibleTo(peer.authed, Ev(i))}
    IN  /\ pc = "query"
        /\ \/ /\ page' = [ok |-> TRUE, evs |-> NewestFirst(seen), more |-> Len(all) > PageLimit,
                          hidden |-> got # seen]
              /\ UNCHANGED nfault
           \/ /\ nfault < menu.faults /\ nfault' = nfault + 1
              /\ page' = [ok |-> FALSE, evs |-> <<>>, more |-> FALSE, hidden |-> FALSE]
        /\ pc' = "answer"
        /\ UNCHANGED <<peer, after, req, cur, access, relayVars, view, nreq>>

\* The page of a response: cut one event past the response budget.
ResponsePage ==
    IF RespLimit = 0 \/ Len(page.evs) <= RespLimit THEN page.evs
    ELSE SubSeq(page.evs, 1, RespLimit + 1)

\* handle_req after the query: refuse, or fill the barrier.
AnswerReq ==
    LET s == req.sub
        evs == ResponsePage
        at == {k \in DOMAIN peer.pending : peer.pending[k].sub = s}
        more == page.more \/ Len(evs) < Len(page.evs)
    IN  /\ pc = "answer"
        /\ IF ~page.ok \/ ~BudgetAllows(peer, Len(evs)) \/ at = {}
           THEN peer' = SendClosed(RemoveReqSubscription(peer, s), s)
           ELSE LET k == CHOOSE k \in at : TRUE IN
                peer' = [peer EXCEPT !.reserved = @ + Len(evs),
                               !.full[s] = ~more,
                               !.pending[k] = [peer.pending[k] EXCEPT !.evs = evs, !.reserved = Len(evs),
                                                                      !.more = more, !.auth = page.hidden]]
        /\ pc' = "window"
        /\ page' = [page EXCEPT !.evs = <<>>]
        /\ UNCHANGED <<after, req, cur, access, relayVars, view, nreq, nfault>>

\* handle_close
HandleClose(s) ==
    /\ Reading /\ "close" \in menu.acts
    /\ view[s].ph # "closed"
    /\ peer' = Purge(RemoveReqSubscription(peer, s), s)
    /\ view' = [view EXCEPT ![s].ph = "closed"]
    /\ pc' = "window"
    /\ UNCHANGED <<after, req, page, cur, access, relayVars, nreq, nfault>>

\* handle_count: a refusal closes a REQ subscription of the same id; an answer leaves it alone.
HandleCount(s, malformed) ==
    /\ Reading /\ nreq < menu.reqs /\ "count" \in menu.acts
    /\ nreq' = nreq + 1
    /\ LET cn == [peer EXCEPT !.cache = Verdict(peer)]
       IN  peer' = IF malformed \/ (access.cfgAuth /\ peer.authed = {}) \/ ~Verdict(peer)
                THEN Reject(cn, s) ELSE SendControl(cn, Plain("COUNT"))
    /\ pc' = "window"
    /\ UNCHANGED <<after, req, page, cur, access, relayVars, view, nfault>>

\* handle_auth: keys accumulate, up to the attempt cap.
HandleAuth(k) ==
    /\ Reading /\ "auth" \in menu.acts
    /\ peer.auths <= MaxAuths
    /\ peer' = SendControl([peer EXCEPT !.auths = @ + 1,
                                  !.authed = IF peer.auths >= MaxAuths THEN @ ELSE @ \cup {k}],
                        Plain("OK"))
    /\ pc' = "window"
    /\ UNCHANGED <<after, req, page, cur, access, relayVars, view, nreq, nfault>>

\* The read window closes: what was queued is written before anything else is read.
EndWindow ==
    /\ pc = "window"
    /\ pc' = "drain" /\ after' = "top"
    /\ UNCHANGED <<peer, req, page, cur, access, relayVars, view, nreq, nfault>>

-----------------------------------------------------------------------------
(* Live delivery and the connection loop *)

\* One subscription of deliver_live_at: behind the pending response of the id, or straight out.
DeliverTo(cn, s, i) ==
    LET at == {k \in DOMAIN cn.pending : cn.pending[k].sub = s}
        k == CHOOSE k \in at : TRUE
    IN  IF cn.liveOver THEN cn
        ELSE IF at # {}
        THEN IF Len(cn.pending[k].live) >= LiveBacklog THEN [cn EXCEPT !.liveOver = TRUE]
             ELSE [cn EXCEPT !.pending[k].live = Append(@, i)]
        ELSE IF Len(cn.out) >= OutLimit THEN [cn EXCEPT !.liveOver = TRUE]
             ELSE SendTagged(cn, EventFrame(cn, s, TRUE, i))

\* deliver_live_at: the gates, then every matching subscription in the map's order.
DeliverLiveAt(order, i) ==
    LET cn == [peer EXCEPT !.cache = SyncVerdict(peer)]
        f[k \in 0..Len(order)] == IF k = 0 THEN cn ELSE DeliverTo(f[k-1], order[k], i)
    IN  IF OpenSubs(peer) = {} THEN peer
        ELSE IF Refused THEN CloseAllSubs(cn)
        ELSE IF ~VisibleTo(peer.authed, Ev(i)) THEN cn
        ELSE f[Len(order)]

\* live_queue_pressure
Pressure(cn) == cn.out # <<>> /\ 2 * Len(cn.out) >= OutLimit

\* One event of deliver_live_batch; under pressure the queue is pumped and drained in between.
DeliverOne ==
    /\ pc = "deliver" /\ cur # <<>>
    /\ \E order \in Orders({s \in OpenSubs(peer) : Matches(peer.subs[s], Ev(Head(cur)))}) :
         LET cn == DeliverLiveAt(order, Head(cur)) IN
         IF cn.liveOver
         THEN peer' = CloseForLiveOverflow(cn) /\ pc' = "teardown" /\ UNCHANGED after
         ELSE /\ peer' = cn
              /\ IF Pressure(cn) THEN pc' = "pump" /\ after' = "relieve"
                 ELSE UNCHANGED <<pc, after>>
    /\ cur' = Tail(cur)
    /\ UNCHANGED <<req, page, access, relayVars, view, nreq, nfault>>

DeliverDone ==
    /\ pc = "deliver" /\ cur = <<>>
    /\ LoopTop(peer)
    /\ UNCHANGED <<peer, req, page, cur, access, relayVars, view, nreq, nfault>>

\* What a client sees of a frame.
Seen(v, f) ==
    [v EXCEPT !.last = f.inc,
              !.ph = CASE f.t = "CLOSED" -> "closed" [] f.t = "EOSE" -> "live" [] OTHER -> @,
              !.hist = IF f.t = "EVENT" /\ ~f.live THEN @ \cup {f.ev} ELSE @,
              !.live = IF f.t = "EVENT" /\ f.live THEN @ \cup {f.ev} ELSE @]

\* drain_outgoing and flush_and_close: one frame is fed to the socket, then popped.
WriteFrame ==
    /\ pc \in {"drain", "relieve", "teardown"} /\ peer.out # <<>>
    /\ LET f == Head(peer.out)
       IN  view' = IF f.sub = NoSub THEN view ELSE [view EXCEPT ![f.sub] = Seen(@, f)]
    /\ peer' = [peer EXCEPT !.out = Tail(@)]
    /\ UNCHANGED <<pc, after, req, page, cur, access, relayVars, nreq, nfault>>

\* The queue is written: the caches follow the configuration, the pump runs.
DrainDone ==
    /\ pc = "drain" /\ peer.out = <<>>
    /\ peer' = [peer EXCEPT !.reqAuth = access.cfgAuth]
    /\ pc' = "pump"
    /\ UNCHANGED <<after, req, page, cur, access, relayVars, view, nreq, nfault>>

RelieveDone ==
    /\ pc = "relieve" /\ peer.out = <<>>
    /\ pc' = "deliver"
    /\ UNCHANGED <<peer, after, req, page, cur, access, relayVars, view, nreq, nfault>>

\* A socket error, the idle timeout, a blocked address, the shutdown signal or the client's Close.
Stop ==
    /\ pc \in {"drain", "relieve", "select"} /\ "stop" \in menu.acts
    /\ pc' = "teardown"
    /\ UNCHANGED <<peer, after, req, page, cur, access, relayVars, view, nreq, nfault>>

\* The overflow watch fires, in the select or while frames are written.
OverflowSeen ==
    /\ pc \in {"drain", "relieve", "select"} /\ fan.overflow
    /\ peer' = CloseForLiveOverflow(peer)
    /\ fan' = [fan EXCEPT !.overflow = FALSE]
    /\ pc' = "teardown"
    /\ UNCHANGED <<after, req, page, cur, access, store, toBus, bus, menu, view, nreq, nfault>>

\* The other arms of the select: access watch, configuration watch, live batch, flush timer.
AccessSeen ==
    /\ pc = "select" /\ ~access.seen /\ ~access.busy
    /\ peer' = Enforce(peer)
    /\ access' = [access EXCEPT !.seen = TRUE]
    /\ LoopTop(peer')
    /\ UNCHANGED <<req, page, cur, relayVars, view, nreq, nfault>>

ConfigSeen ==
    /\ pc = "select" /\ ~access.cfgSeen /\ ~access.busy
    /\ peer' = Enforce([peer EXCEPT !.reqAuth = access.cfgAuth])
    /\ access' = [access EXCEPT !.cfgSeen = TRUE]
    /\ LoopTop(peer')
    /\ UNCHANGED <<req, page, cur, relayVars, view, nreq, nfault>>

TakeBatch ==
    /\ pc = "select" /\ peer.live # NoQueue /\ peer.live.q # <<>>
    /\ cur' = Head(peer.live.q)
    /\ peer' = [peer EXCEPT !.live.q = Tail(@), !.reqAuth = access.cfgAuth]
    /\ pc' = "deliver"
    /\ UNCHANGED <<after, req, page, access, relayVars, view, nreq, nfault>>

FlushWake ==
    /\ pc = "select" /\ peer.out # <<>>
    /\ LoopTop(peer)
    /\ UNCHANGED <<peer, req, page, cur, access, relayVars, view, nreq, nfault>>

\* The end of handle_connection and the guard: what was held is given back, once.
Teardown ==
    /\ pc = "teardown"
    /\ peer' = [DropPending(peer, SubIds) EXCEPT
                !.out = <<>>, !.subs = [s \in SubIds |-> NoSub], !.subBytes = 0, !.held = 0,
                !.index = {}, !.live = NoQueue]
    /\ pc' = "gone"
    /\ cur' = <<>>
    /\ UNCHANGED <<after, req, page, access, relayVars, view, nreq, nfault>>

-----------------------------------------------------------------------------
(* The rest of the relay: accept path, live bus, access lists, reload *)

Others == <<pc, after, req, page, cur, view, nreq, menu>>

Commit(e) ==
    /\ e.id \in menu.evs \ store
    /\ store' = store \cup {e.id} /\ toBus' = toBus \cup {e.id}
    /\ UNCHANGED <<peer, access, bus, fan, nfault, Others>>

\* broadcast waits for room in the live buffer; nothing is dropped.
Broadcast(i) ==
    /\ i \in toBus /\ Len(bus) < BusLimit
    /\ toBus' = toBus \ {i} /\ bus' = Append(bus, i)
    /\ UNCHANGED <<peer, access, store, fan, nfault, Others>>

\* The flush of the bus: candidates from the index ...
BusLookup(n) ==
    /\ fan.step = "idle" /\ n <= Len(bus)
    /\ bus' = SubSeq(bus, n + 1, Len(bus))
    /\ LET batch == SubSeq(bus, 1, n)
           hit == \E k \in 1..n : EventComponents(Ev(batch[k])) \cap peer.index # {}
       IN  fan' = IF hit THEN [fan EXCEPT !.step = "found", !.batch = batch] ELSE fan
    /\ UNCHANGED <<peer, access, store, toBus, nfault, Others>>

\* ... their queues, under the lock of the map ...
BusCollect ==
    /\ fan.step = "found"
    /\ fan' = IF peer.live = NoQueue THEN [fan EXCEPT !.step = "idle", !.batch = <<>>]
              ELSE [fan EXCEPT !.step = "push", !.gen = peer.live.gen]
    /\ UNCHANGED <<peer, access, store, toBus, bus, nfault, Others>>

\* ... and the push: a closed queue swallows the batch, a full one ends its connection.
BusPush ==
    /\ fan.step = "push"
    /\ LET mine == peer.live # NoQueue /\ peer.live.gen = fan.gen
           full == mine /\ Len(peer.live.q) >= QueueLimit
       IN  /\ peer' = IF mine /\ ~full THEN [peer EXCEPT !.live.q = Append(@, fan.batch)] ELSE peer
           /\ fan' = [step |-> "idle", batch |-> <<>>, gen |-> 0, overflow |-> fan.overflow \/ full]
    /\ UNCHANGED <<access, store, toBus, bus, nfault, Others>>

\* A panic in the flush is contained: every connection with a queue resynchronises.
BusPanic ==
    /\ fan.step \in {"found", "push"} /\ nfault < menu.faults
    /\ nfault' = nfault + 1
    /\ fan' = [step |-> "idle", batch |-> <<>>, gen |-> 0, overflow |-> fan.overflow \/ peer.live # NoQueue]
    /\ UNCHANGED <<peer, access, store, toBus, bus, Others>>

\* A writer of the access lists: while it holds the lock the hot paths keep their verdict.
DenyStart ==
    /\ "auth" \in menu.acts /\ ~access.busy /\ Keys \ access.denied # {}
    /\ access' = [access EXCEPT !.busy = TRUE]
    /\ UNCHANGED <<peer, store, toBus, bus, fan, nfault, Others>>

Deny(k) ==
    /\ access.busy /\ k \notin access.denied
    /\ access' = [access EXCEPT !.busy = FALSE, !.denied = @ \cup {k}, !.seen = FALSE]
    /\ UNCHANGED <<peer, store, toBus, bus, fan, nfault, Others>>

\* A reload turns require_auth on and bumps the configuration version.
Reload ==
    /\ "reload" \in menu.acts /\ ~access.cfgAuth
    /\ access' = [access EXCEPT !.cfgAuth = TRUE, !.cfgSeen = FALSE]
    /\ UNCHANGED <<peer, store, toBus, bus, fan, nfault, Others>>

-----------------------------------------------------------------------------
(* The specification *)

FreshConn == [subs |-> [s \in SubIds |-> NoSub], subBytes |-> 0, held |-> 0, index |-> {},
          live |-> NoQueue, gen |-> 0, pending |-> <<>>, out |-> <<>>, reserved |-> 0,
          ctlOver |-> FALSE, liveOver |-> FALSE, authed |-> {}, auths |-> 0,
          cache |-> TRUE, reqAuth |-> FALSE,
          inc |-> [s \in SubIds |-> 0], full |-> [s \in SubIds |-> FALSE]]

SessionInit ==
    /\ peer = FreshConn /\ pc = "drain" /\ after = "select"
    /\ req = [sub |-> NoSub, filter |-> NoSub]
    /\ page = [ok |-> FALSE, evs |-> <<>>, more |-> FALSE, hidden |-> FALSE]
    /\ cur = <<>>
    /\ access = [denied |-> {}, busy |-> FALSE, seen |-> TRUE, cfgAuth |-> FALSE, cfgSeen |-> TRUE]
    /\ toBus = {} /\ bus = <<>>
    /\ fan = [step |-> "idle", batch |-> <<>>, gen |-> 0, overflow |-> FALSE]
    /\ view = [s \in SubIds |-> [inc |-> 0, last |-> 0, ph |-> "closed", hist |-> {}, live |-> {}]]
    /\ nreq = 0 /\ nfault = 0
    /\ menu \in Menus /\ store = menu.early

ClientFrame ==
    \/ \E s \in SubIds, f \in Filters, m \in BOOLEAN : HandleReq(s, f, m)
    \/ \E s \in SubIds : HandleClose(s)
    \/ \E s \in SubIds, m \in BOOLEAN : HandleCount(s, m)
    \/ \E k \in Keys : HandleAuth(k)

\* The steps of the connection task that need nobody else.
Task ==
    \/ Pump \/ EnqueueBarrier \/ AnswerReq \/ EndWindow \/ DeliverOne \/ DeliverDone
    \/ WriteFrame \/ DrainDone \/ RelieveDone \/ OverflowSeen \/ AccessSeen
    \/ ConfigSeen \/ TakeBatch \/ FlushWake \/ Teardown

Bus == (\E n \in 1..BatchSize : BusLookup(n)) \/ BusCollect \/ BusPush

AcceptEvent == (\E e \in Events : Commit(e)) \/ (\E i \in EventIds : Broadcast(i))

Administrator == DenyStart \/ (\E k \in Keys : Deny(k)) \/ Reload

SessionNext == ClientFrame \/ Task \/ ReaderAnswers \/ Stop \/ Bus \/ BusPanic \/ AcceptEvent \/ Administrator

SessionSpec == SessionInit /\ [][SessionNext]_svars

\* The runtime polls a ready task, the reader answers or reports a failure, and a
\* peer that does not read runs into the idle timeout (Stop): the task always moves on.
SessionFairness == WF_svars(Task) /\ WF_svars(ReaderAnswers)

-----------------------------------------------------------------------------
(* Properties *)

Protocol == INSTANCE SubProtocol WITH SubIds <- SubIds, EventIds <- EventIds, view <- view

\* The wire of every subscription id follows NIP-01: stored events, one EOSE, live
\* events, nothing after CLOSED, nothing of a replaced incarnation
\* (ws/mod.rs pump_pending_reqs, purge_queued_events_for).
WireFollowsProtocol == Protocol!Spec

\* A pending response, or the outgoing queue, has the event for subscription s.
Responding(p, s, i) ==
    \E k \in DOMAIN p :
        /\ p[k].sub = s
        /\ (\E j \in DOMAIN p[k].evs : p[k].evs[j] = i) \/ (\E j \in DOMAIN p[k].live : p[k].live[j] = i)
Queued(o, s, i) == \E k \in DOMAIN o : o[k].t = "EVENT" /\ o[k].sub = s /\ o[k].ev = i
Holds(cn, s, i) == Responding(cn.pending, s, i) \/ Queued(cn.out, s, i)

\* Where an event still on its way to subscription s may be.
OnTheWay(s, i) ==
    \/ i \in toBus
    \/ \E k \in DOMAIN bus : bus[k] = i
    \/ /\ fan.step = "found" \/ (fan.step = "push" /\ peer.live # NoQueue /\ peer.live.gen = fan.gen)
       /\ \E k \in DOMAIN fan.batch : fan.batch[k] = i
    \/ peer.live # NoQueue /\ \E b \in DOMAIN peer.live.q : \E k \in DOMAIN peer.live.q[b] : peer.live.q[b][k] = i
    \/ \E k \in DOMAIN cur : cur[k] = i
    \/ Holds(peer, s, i)

\* An open subscription that was promised a complete history never misses an event: each
\* stored event that matches and that anyone may read was written, or is on its way,
\* although it is committed, indexed, scanned and broadcast by four parties in any order
\* (handle_req registers before it queries; the bus looks the index up before the queue).
NothingFallsBetween ==
    pc \notin {"teardown", "gone"} /\ ~fan.overflow =>
        \A s \in OpenSubs(peer) : peer.full[s] =>
            \A i \in store : Matches(peer.subs[s], Ev(i)) /\ Ev(i).class = "note" =>
                i \in view[s].hist \cup view[s].live \/ OnTheWay(s, i)

Accounts(cn) ==
    /\ cn.held = Cardinality(OpenSubs(cn))
    /\ cn.index = RegisteredComponents(cn)
    /\ cn.live = NoQueue <=> OpenSubs(cn) = {}
    /\ cn.reserved = SumReserved(cn.pending)
    /\ cn.subBytes = SumOver([s \in SubIds |-> SubBytes(cn, s)], SubIds)

\* The accounting of a connection is exact whatever path closed a subscription: the slots
\* held, the filter bytes, the index entries, the live queue and the relay-wide reservation.
AccountsExact == Accounts(peer)

\* Every REQ the relay handled comes to its EOSE or CLOSED, or the connection ends.
ReqEnds == \A s \in SubIds : view[s].ph = "scanning" ~> (view[s].ph # "scanning" \/ pc = "gone")

=============================================================================
