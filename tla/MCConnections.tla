---------------------------- MODULE MCConnections ----------------------------
(***************************************************************************)
(* The connections: their admission, and one WebSocket session.  The two   *)
(* share no state, so a behaviour follows one of them.                     *)
(***************************************************************************)
EXTENDS ConnAdmission, WsSession, TLC

CONSTANTS c1, c2, c3, c4, host, proxy

VARIABLE part

\* Two connections of one host and two of a trusted proxy, which may forward
\* for that same host: the caps bind in every combination.
PeerOf == c1 :> host @@ c2 :> host @@ c3 :> proxy @@ c4 :> proxy

\* Two ids, a filter of each shape the index tells apart.
Note(i, k, d) == [id |-> i, kind |-> k, author |-> "a", deleg |-> d, tags |-> {}, class |-> "note", to |-> {}]

MCEvents == {Note(i, "k1", "d") : i \in {2, 4, 5}} \cup
            {Note(1, "k1", "a"), [Note(3, "k2", "a") EXCEPT !.class = "protected", !.tags = {"t"}]}
All == [kinds |-> {}, authors |-> {}, tags |-> {}]
MCFilters == {All, [All EXCEPT !.authors = {"d"}]}
MCSubIds == {"s1", "s2"}
MCKeys == {"a"}

\* One kind of disturbance at a time.
MCMenus ==
    {[acts |-> {"malformed"},     early |-> {1},    evs |-> {2},    reqs |-> 3, faults |-> 0, others |-> 0],
     [acts |-> {"close"},         early |-> {1},    evs |-> {},     reqs |-> 3, faults |-> 0, others |-> 0],
     [acts |-> {"close", "stop"}, early |-> {1},    evs |-> {2},    reqs |-> 2, faults |-> 0, others |-> 0],
     [acts |-> {},                early |-> {1},    evs |-> {2, 3}, reqs |-> 1, faults |-> 1, others |-> 0],
     [acts |-> {},                early |-> {1, 2}, evs |-> {4},    reqs |-> 2, faults |-> 0, others |-> 0],
     [acts |-> {"stop"},          early |-> {1, 2, 5}, evs |-> {},  reqs |-> 2, faults |-> 0, others |-> 3],
     [acts |-> {"count"},         early |-> {1},    evs |-> {2},    reqs |-> 2, faults |-> 0, others |-> 0],
     [acts |-> {"auth"},          early |-> {1},    evs |-> {3},    reqs |-> 1, faults |-> 0, others |-> 0],
     [acts |-> {"reload"},        early |-> {1},    evs |-> {2},    reqs |-> 1, faults |-> 0, others |-> 0]}

ConnectionsInit ==
    /\ part \in {"admission", "session"}
    /\ Init /\ SessionInit
    /\ part # "session" => menu = CHOOSE m \in Menus : TRUE

ConnectionsNext ==
    /\ UNCHANGED part
    /\ \/ part = "admission" /\ Next /\ UNCHANGED svars
       \/ part = "session" /\ SessionNext /\ UNCHANGED vars

\* As in FairSpec and SessionFairness, each for its part.
ConnectionsSpec ==
    /\ ConnectionsInit /\ [][ConnectionsNext]_<<part, vars, svars>>
    /\ \A c0 \in Conn : /\ WF_vars(part = "admission" /\ Release(c0))
                        /\ WF_vars(part = "admission" /\ ~listening /\ EndHttp(c0))
                        /\ WF_vars(part = "admission" /\ ~listening /\ EndWs(c0))
    /\ WF_svars(part = "session" /\ Task) /\ WF_svars(part = "session" /\ ReaderAnswers)
=============================================================================
