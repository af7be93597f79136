--------------------------- MODULE ConnAdmission ---------------------------
(***************************************************************************)
(* Admission and accounting of client connections (src/conn.rs, the accept *)
(* loop serve_limited and ws_handler of src/server/mod.rs, ConnectionGuard *)
(* of src/ws/mod.rs).                                                      *)
(*                                                                         *)
(* Three counters bound what a host may hold: the global count, the per-IP *)
(* count and the count of proxied connections that have sent no request    *)
(* yet.  One accept loop, one HTTP task per connection and one WebSocket   *)
(* task per upgraded connection share them; the slot of a connection moves *)
(* from its HTTP task to its WebSocket task while either may end.          *)
(*                                                                         *)
(* A guard that is dropped owes its release, and the release is a step of  *)
(* its own: other tasks run between.                                       *)
(***************************************************************************)
EXTENDS Integers, FiniteSets

CONSTANTS
    Conn,            \* connections, reused once nothing of one is left
    Addr,            \* accounting addresses (normalized, IPv6 by /64)
    Peer,            \* the TCP peer of each connection
    TrustedProxies,  \* peers whose forwarded header is believed
    None,            \* no address, no connection
    MaxConnections,  \* limits.max_connections
    MaxPerIp         \* limits.max_connections_per_ip, 0: no cap

ASSUME ConnFinite == IsFiniteSet(Conn) /\ None \notin Conn \cup Addr
ASSUME PeerType == Peer \in [Conn -> Addr] /\ TrustedProxies \subseteq Addr
ASSUME LimitsType == MaxConnections \in Nat \ {0} /\ MaxPerIp \in Nat

VARIABLES
    active,     \* the global count
    ipCount,    \* IpConnCounter of the clients
    preHead,    \* IpConnCounter of the proxies' silent connections
    listening,  \* no shutdown signal yet
    accepting,  \* the socket the accept loop is deciding about
    phase,      \* the HTTP task of a connection
    slot,       \* ConnSlot.state
    due,        \* the counts whose release a slot's last owner still owes
    pre,        \* the pre-head guard: in the cell, dropped, or none
    client,     \* ClientIpGuard: its address and the handles to it
    ws          \* who holds the handed-over slot

counters == <<active, ipCount, preHead>>
guards   == <<slot, due, pre, client>>
vars == <<counters, listening, accepting, phase, guards, ws>>

Trusted(c) == Peer[c] \in TrustedProxies

\* A quarter of the connection budget for one proxy's silent connections.
PreHeadLimit == IF MaxConnections \div 4 > 1 THEN MaxConnections \div 4 ELSE 1

NoClient == [ip |-> None, refs |-> {}]
NotAccepting == [conn |-> None, step |-> "idle"]

-----------------------------------------------------------------------------
(* IpConnCounter.                                                          *)

\* try_acquire: a cap of 0 admits without counting.
HasRoom(count, a, max) == max = 0 \/ count[a] < max
Take(count, a, max) == IF max = 0 THEN count ELSE [count EXCEPT ![a] = @ + 1]

\* release saturates: an absent entry is left alone.
Give(count, a) == [count EXCEPT ![a] = IF @ > 0 THEN @ - 1 ELSE 0]

-----------------------------------------------------------------------------
(* The accept loop: one socket at a time, several atomic operations each.  *)

\* Nothing of an earlier connection with this name is left.
Fresh(c) ==
    /\ phase[c] = "closed" /\ ws[c] = "none"
    /\ due[c] = {} /\ pre[c] = "none" /\ client[c] = NoClient

CheckGlobal(c) ==
    /\ listening /\ accepting = NotAccepting
    /\ Fresh(c)
    /\ active < MaxConnections
    /\ accepting' = [conn |-> c, step |-> "peer"]
    /\ UNCHANGED <<counters, listening, phase, guards, ws>>

\* A proxy's own address takes a pre-head slot, any other peer a per-IP slot.
AcquirePeer ==
    /\ accepting.step = "peer"
    /\ LET c == accepting.conn
           a == Peer[c]
       IN  /\ IF Trusted(c)
              THEN /\ HasRoom(preHead, a, PreHeadLimit)
                   /\ preHead' = Take(preHead, a, PreHeadLimit)
                   /\ pre' = [pre EXCEPT ![c] = "cell"]
                   /\ UNCHANGED ipCount
              ELSE /\ HasRoom(ipCount, a, MaxPerIp)
                   /\ ipCount' = Take(ipCount, a, MaxPerIp)
                   /\ UNCHANGED <<preHead, pre>>
           /\ accepting' = [conn |-> c, step |-> "register"]
    /\ UNCHANGED <<active, listening, phase, slot, due, client, ws>>

RefusePeer ==
    /\ accepting.step = "peer"
    /\ LET a == Peer[accepting.conn]
       IN  IF Trusted(accepting.conn) THEN ~HasRoom(preHead, a, PreHeadLimit)
                                      ELSE ~HasRoom(ipCount, a, MaxPerIp)
    /\ accepting' = NotAccepting
    /\ UNCHANGED <<counters, listening, phase, guards, ws>>

\* The count is raised, ConnSlot::new, and the HTTP task is spawned.
Register ==
    /\ accepting.step = "register"
    /\ LET c == accepting.conn
       IN  /\ slot' = [slot EXCEPT ![c] = "PENDING"]
           /\ phase' = [phase EXCEPT ![c] = "idle"]
    /\ active' = active + 1
    /\ accepting' = NotAccepting
    /\ UNCHANGED <<ipCount, preHead, listening, due, pre, client, ws>>

\* The loop ends between sockets; draining and aborting the tasks is EndHttp.
Shutdown ==
    /\ listening /\ accepting = NotAccepting
    /\ listening' = FALSE
    /\ UNCHANGED <<counters, accepting, phase, guards, ws>>

-----------------------------------------------------------------------------
(* Requests on a connection: the middleware, then the handler.             *)

Unref(c, handles) == [client EXCEPT ![c].refs = @ \ handles]

\* A request head: the pre-head guard goes, and so does the held client slot,
\* so that the connection does not count against its own cap.
RequestHead(c) ==
    /\ phase[c] = "idle"
    /\ phase' = [phase EXCEPT ![c] = IF client[c] = NoClient THEN "first" ELSE "again"]
    /\ pre' = [pre EXCEPT ![c] = IF @ = "cell" THEN "dropped" ELSE @]
    /\ client' = Unref(c, {"hold"})
    /\ UNCHANGED <<counters, listening, accepting, slot, due, ws>>

\* The middleware goes on when the dropped guards have released.
HeadRead(c) ==
    phase[c] \in {"first", "again"} /\ pre[c] = "none" /\ client[c] = NoClient

\* An untrusted peer was accounted at accept.
ServeDirect(c) ==
    /\ HeadRead(c) /\ ~Trusted(c)
    /\ phase' = [phase EXCEPT ![c] = "serving"]
    /\ UNCHANGED <<counters, listening, accepting, guards, ws>>

\* A proxied request is accounted under the forwarded address, which is the
\* proxy's own when the header is absent.
AcquireClient(c, a) ==
    /\ HeadRead(c) /\ Trusted(c)
    /\ HasRoom(ipCount, a, MaxPerIp)
    /\ ipCount' = Take(ipCount, a, MaxPerIp)
    /\ client' = [client EXCEPT ![c] = [ip |-> a, refs |-> {"hold", "request"}]]
    /\ phase' = [phase EXCEPT ![c] = "serving"]
    /\ UNCHANGED <<active, preHead, listening, accepting, slot, due, pre, ws>>

\* 429 with Connection: close; the rate limiter is asked on a first request.
RefuseClient(c, a) ==
    /\ HeadRead(c) /\ Trusted(c)
    /\ phase[c] = "first" \/ ~HasRoom(ipCount, a, MaxPerIp)
    /\ phase' = [phase EXCEPT ![c] = "ending"]
    /\ UNCHANGED <<counters, listening, accepting, guards, ws>>

Respond(c) ==
    /\ phase[c] = "serving"
    /\ phase' = [phase EXCEPT ![c] = "idle"]
    /\ client' = Unref(c, {"request"})
    /\ UNCHANGED <<counters, listening, accepting, slot, due, pre, ws>>

\* ws_handler claims the slot, then waits for the configuration.
Handover(c) ==
    /\ phase[c] = "serving"
    /\ phase' = [phase EXCEPT ![c] = "upgrading"]
    /\ slot' = [slot EXCEPT ![c] = IF @ = "PENDING" THEN "OWNED" ELSE @]
    /\ ws' = [ws EXCEPT ![c] = "handler"]
    /\ client' = [client EXCEPT ![c].refs = IF @ = {} THEN @ ELSE @ \cup {"socket"}]
    /\ UNCHANGED <<counters, listening, accepting, due, pre>>

\* The upgrade response is out and the WebSocket task runs.
Upgraded(c) ==
    /\ phase[c] = "upgrading"
    /\ phase' = [phase EXCEPT ![c] = "upgraded"]
    /\ ws' = [ws EXCEPT ![c] = "task"]
    /\ client' = Unref(c, {"request"})
    /\ UNCHANGED <<counters, listening, accepting, slot, due, pre>>

-----------------------------------------------------------------------------
(* The ends of a connection.                                               *)

\* ConnSlot::release: the global count, and the per-IP key if it has one.
Owes(c) == IF Trusted(c) THEN {"global"} ELSE {"global", "ip"}

\* The owner of a slot in state s lets go of it.
ReleaseFrom(c, s) ==
    /\ slot' = [slot EXCEPT ![c] = IF @ = s THEN "RELEASED" ELSE @]
    /\ due' = [due EXCEPT ![c] = IF slot[c] = s THEN Owes(c) ELSE @]

\* Mutant: the accept guard releases whatever the slot's state.
AcceptGuardDropMutant(c) == ReleaseFrom(c, slot[c])

\* AcceptSlotGuard releases a PENDING slot; a guard that the interrupted
\* handler had claimed releases its OWNED one.
AcceptGuardDrop(c) == ReleaseFrom(c, IF ws[c] = "handler" THEN "OWNED" ELSE "PENDING")

\* The HTTP task ends: the peer, an error, a panic or an abort.
EndHttp(c) ==
    /\ phase[c] # "closed"
    /\ phase' = [phase EXCEPT ![c] = "closed"]
    /\ AcceptGuardDrop(c)
    /\ ws' = [ws EXCEPT ![c] = IF @ = "handler" THEN "none" ELSE @]
    /\ pre' = [pre EXCEPT ![c] = IF @ = "cell" THEN "dropped" ELSE @]
    /\ client' = Unref(c, IF ws[c] = "task" THEN {"hold", "request"}
                          ELSE {"hold", "request", "socket"})
    /\ UNCHANGED <<counters, listening, accepting>>

\* Mutant: the WebSocket task forgets the client's per-IP handle.
EndWsMutant(c) ==
    /\ ws[c] = "task"
    /\ ws' = [ws EXCEPT ![c] = "none"]
    /\ ReleaseFrom(c, "OWNED")
    /\ UNCHANGED <<counters, listening, accepting, phase, pre, client>>

\* The WebSocket task ends and ConnectionGuard drops the handed-over slot.
EndWs(c) ==
    /\ ws[c] = "task"
    /\ ws' = [ws EXCEPT ![c] = "none"]
    /\ ReleaseFrom(c, "OWNED")
    /\ client' = Unref(c, {"socket"})
    /\ UNCHANGED <<counters, listening, accepting, phase, pre>>

ReleaseGlobal(c) ==
    /\ "global" \in due[c]
    /\ active' = active - 1
    /\ due' = [due EXCEPT ![c] = @ \ {"global"}]
    /\ UNCHANGED <<ipCount, preHead, listening, accepting, phase, slot, pre, client, ws>>

ReleaseIp(c) ==
    /\ due[c] = {"ip"}
    /\ ipCount' = Give(ipCount, Peer[c])
    /\ due' = [due EXCEPT ![c] = {}]
    /\ UNCHANGED <<active, preHead, listening, accepting, phase, slot, pre, client, ws>>

\* ClientIpGuard: the last handle is gone.
ReleaseClient(c) ==
    /\ client[c] # NoClient /\ client[c].refs = {}
    /\ ipCount' = Give(ipCount, client[c].ip)
    /\ client' = [client EXCEPT ![c] = NoClient]
    /\ UNCHANGED <<active, preHead, listening, accepting, phase, slot, due, pre, ws>>

ReleasePreHead(c) ==
    /\ pre[c] = "dropped"
    /\ preHead' = Give(preHead, Peer[c])
    /\ pre' = [pre EXCEPT ![c] = "none"]
    /\ UNCHANGED <<active, ipCount, listening, accepting, phase, slot, due, client, ws>>

-----------------------------------------------------------------------------
Init ==
    /\ active = 0
    /\ ipCount = [a \in Addr |-> 0]
    /\ preHead = [a \in Addr |-> 0]
    /\ listening = TRUE
    /\ accepting = NotAccepting
    /\ phase = [c \in Conn |-> "closed"]
    /\ slot = [c \in Conn |-> "RELEASED"]
    /\ due = [c \in Conn |-> {}]
    /\ pre = [c \in Conn |-> "none"]
    /\ client = [c \in Conn |-> NoClient]
    /\ ws = [c \in Conn |-> "none"]

Accept == (\E c \in Conn : CheckGlobal(c)) \/ AcquirePeer \/ RefusePeer \/ Register \/ Shutdown

Serve(c) ==
    \/ RequestHead(c) \/ ServeDirect(c) \/ Respond(c) \/ Handover(c) \/ Upgraded(c)
    \/ \E a \in Addr : AcquireClient(c, a) \/ RefuseClient(c, a)

End(c) == EndHttp(c) \/ EndWs(c)

Release(c) == ReleaseGlobal(c) \/ ReleaseIp(c) \/ ReleaseClient(c) \/ ReleasePreHead(c)

Next == Accept \/ \E c \in Conn : Serve(c) \/ End(c) \/ Release(c)

Spec == Init /\ [][Next]_vars

\* A dropped guard releases; after the shutdown signal the HTTP tasks are
\* aborted at the end of the drain grace and the WebSocket tasks drained.
FairSpec ==
    /\ Spec
    /\ \A c \in Conn : /\ WF_vars(Release(c))
                       /\ WF_vars(~listening /\ EndHttp(c))
                       /\ WF_vars(~listening /\ EndWs(c))

-----------------------------------------------------------------------------
(* Properties.                                                             *)

Client == [ip : Addr \cup {None}, refs : SUBSET {"hold", "request", "socket"}]

\* Every counter is a natural number (a second release of a slot would wrap
\* the unsigned global count) and every guard is in a state of its kind.
TypeOK ==
    /\ active \in Nat
    /\ ipCount \in [Addr -> Nat] /\ preHead \in [Addr -> Nat]
    /\ listening \in BOOLEAN
    /\ accepting \in {NotAccepting} \cup [conn : Conn, step : {"peer", "register"}]
    /\ phase \in [Conn -> {"closed", "idle", "first", "again", "serving", "upgrading",
                           "upgraded", "ending"}]
    /\ slot \in [Conn -> {"PENDING", "OWNED", "RELEASED"}]
    /\ due \in [Conn -> SUBSET {"global", "ip"}]
    /\ pre \in [Conn -> {"none", "cell", "dropped"}]
    /\ client \in [Conn -> Client]
    /\ ws \in [Conn -> {"none", "handler", "task"}]

\* The connections whose global count is still reserved.
Counted == {c \in Conn : slot[c] # "RELEASED" \/ "global" \in due[c]}

\* ConnSlot: handover, accept guard and WebSocket guard between them release
\* every reserved slot once and only once, whichever ends first.
GlobalCountExact == active = Cardinality(Counted)

\* The socket of a connection is open: its HTTP task serves it, or an
\* upgrade has taken it over.
Open(c) == phase[c] \notin {"closed", "upgraded"} \/ ws[c] # "none"

\* serve_limited: open sockets are all counted and never exceed
\* limits.max_connections, through upgrades, aborted upgrades and reuse.
OpenSocketsCapped ==
    /\ \A c \in Conn : Open(c) => slot[c] # "RELEASED"
    /\ active <= MaxConnections

\* The accept layer took a per-IP slot for c and has not given it back.
HoldsPeerSlot(c) ==
    /\ ~Trusted(c)
    /\ \/ slot[c] # "RELEASED" \/ "ip" \in due[c]
       \/ accepting = [conn |-> c, step |-> "register"]

\* The connections that hold a per-IP slot of address a.
Holding(a) == {c \in Conn : (HoldsPeerSlot(c) /\ Peer[c] = a) \/ client[c].ip = a}

\* The per-IP count is the number of its holders: a proxied connection never
\* frees the slot of another client, even when the forwarded address is the
\* proxy's own, and nothing leaks across keep-alive requests.
PerIpCountExact ==
    MaxPerIp > 0 => \A a \in Addr : ipCount[a] = Cardinality(Holding(a))

\* limits.max_connections_per_ip bounds the connections that hold a slot of
\* one address, upgraded or not, behind a proxy or not.
PerIpCapHolds ==
    MaxPerIp > 0 => \A a \in Addr : Cardinality(Holding(a)) <= MaxPerIp

\* What serve_limited promises: both counters are exactly the connections that
\* hold a slot, whichever of a connection's tasks and guards ends first, and
\* neither max_connections nor max_connections_per_ip is ever passed.
SlotsAccounted ==
    GlobalCountExact /\ PerIpCountExact /\ OpenSocketsCapped /\ PerIpCapHolds

\* After the shutdown signal every count returns to zero: no path through
\* requests, upgrades and aborts leaks a slot.
Drained ==
    ~listening ~> /\ active = 0
                  /\ \A a \in Addr : ipCount[a] = 0 /\ preHead[a] = 0
=============================================================================
