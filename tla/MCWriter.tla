------------------------------ MODULE MCWriter ------------------------------
(***************************************************************************)
(* The database's callers: the write queue, the derived group state that   *)
(* is saved through it, and the read queue.  Their state is disjoint, so   *)
(* a behaviour follows one of the parts.                                   *)
(***************************************************************************)
EXTENDS DbWriter, GroupState, ReadQueue

CONSTANTS Parts, p1, b1, d1, s1, s2, g1, g2

VARIABLE part

MCKind == [r \in Request |->
             CASE r = p1 -> "put"
               [] r = b1 -> "batch"
               [] r = d1 -> "inline"
               [] OTHER -> "groups"]
MCEvents == [r \in Request |-> IF r = b1 THEN 2 ELSE 1]
MCBytes == [r \in Request |-> IF r = d1 THEN 0 ELSE 1]
MCGroupOf == [e \in Event |-> IF e = 2 THEN g2 ELSE g1]

Get(what, form, bytes) == [what |-> what, form |-> form, bytes |-> bytes]
MCReadMenus == {
    [calls |-> <<<<Get("query", "result", 2), Get("prefix", "read", 1)>>, <<Get("groups", "blocking", 1)>>, <<Get("query", "result", 1)>>>>,
     faults |-> {"timeout", "panic", "stop"}, late |-> {}],
    [calls |-> <<<<Get("query", "api", 2)>>, <<Get("sample", "api", 1), Get("count", "api", 1)>>, <<Get("assign_arrival", "read", 1)>>>>,
     faults |-> {"timeout", "db"}, late |-> {}],
    [calls |-> <<<<Get("page", "startup", 0)>>, <<Get("query", "result", 3), Get("vanished", "result", 1)>>>>,
     faults |-> {"db", "panic", "stop"}, late |-> {2, 5}] }

Init ==
    /\ part \in Parts
    /\ WriterInit /\ DerivedInit /\ ReadInit
    /\ part # "reads" => rmenu = CHOOSE m \in ReadMenus : TRUE

Next ==
    /\ UNCHANGED part
    /\ \/ part = "queue" /\ WriterNext /\ UNCHANGED <<dvars, rvars>>
       \/ part = "derived" /\ DerivedNext /\ UNCHANGED <<wvars, rvars>>
       \/ part = "reads" /\ ReadNext /\ UNCHANGED <<wvars, dvars>>

Spec == Init /\ [][Next]_<<part, wvars, dvars, rvars>>

\* The writer thread is never descheduled for ever, nor is a caller between
\* its reservation and its send; nobody has to shut the database down.  The
\* tasks of the derived state run as DerivedFairness says.
FairSpec ==
    /\ Spec
    /\ WF_wvars(part = "queue" /\ Writer)
    /\ \A r \in Request : WF_wvars(part = "queue" /\ Caller(r))
    /\ DerivedFairness
=============================================================================
