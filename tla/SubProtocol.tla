----------------------------- MODULE SubProtocol -----------------------------
(***************************************************************************)
(* What a client may see on one WebSocket connection for each subscription *)
(* id (NIP-01).  A REQ opens a new incarnation of the id.  The frames      *)
(* written for the id are, in this order: stored events, one EOSE, live    *)
(* events; a CLOSED, or the client's CLOSE, ends the incarnation and       *)
(* nothing of it follows.  WsSession is shown to implement this module.    *)
(***************************************************************************)
EXTENDS Naturals

CONSTANTS SubIds, EventIds

VARIABLE view   \* [SubIds -> [inc, last, ph, hist, live]]

Phases == {"closed", "scanning", "live"}

TypeOK ==
    view \in [SubIds -> [inc : Nat, last : Nat, ph : Phases,
                         hist : SUBSET EventIds, live : SUBSET EventIds]]

Init == view = [s \in SubIds |->
                  [inc |-> 0, last |-> 0, ph |-> "closed", hist |-> {}, live |-> {}]]

\* The client's REQ: a fresh incarnation, whatever the id was doing.
Open(s) ==
    view' = [view EXCEPT ![s] = [inc |-> @.inc + 1, last |-> @.last, ph |-> "scanning",
                                 hist |-> {}, live |-> {}]]

\* A frame of the current incarnation is written.
Frame(s, ph, hist, live) ==
    view' = [view EXCEPT ![s] = [inc |-> @.inc, last |-> @.inc, ph |-> ph,
                                 hist |-> hist, live |-> live]]

Stored(s, e) == /\ view[s].ph = "scanning"
                /\ Frame(s, "scanning", view[s].hist \cup {e}, view[s].live)
Eose(s)      == /\ view[s].ph = "scanning"
                /\ Frame(s, "live", view[s].hist, view[s].live)
Live(s, e)   == /\ view[s].ph = "live"
                /\ Frame(s, "live", view[s].hist, view[s].live \cup {e})
Closed(s)    == Frame(s, "closed", view[s].hist, view[s].live)

\* The client's CLOSE.
Close(s) == view' = [view EXCEPT ![s].ph = "closed"]

Next == \E s \in SubIds :
            \/ Open(s) \/ Eose(s) \/ Closed(s) \/ Close(s)
            \/ \E e \in EventIds : Stored(s, e) \/ Live(s, e)

Spec == Init /\ [][Next]_view
=============================================================================
