---------------------------- MODULE WriteService ----------------------------
(***************************************************************************)
(* What the database promises to the callers of its write queue, without   *)
(* the drains, the merged transaction, the coalesced snapshots, the caps   *)
(* and the panics: messages are asked for one after the other, each is     *)
(* committed at most once, in the order of asking wherever two may not     *)
(* change places, and each caller is told one answer, once, that the log   *)
(* bears out.  DbWriter is shown to implement this module.                 *)
(***************************************************************************)
EXTENDS Naturals, Sequences

CONSTANTS
    Request, Stop,   \* the callers, and the message of the shutdown
    MayPass(_, _),   \* two messages that may change places in the log
    StandsFor(_, _)  \* a committed message that makes an earlier one's write durable too

VARIABLES
    asked,  \* the messages, in the order of asking
    log,    \* the committed ones: their positions in asked
    told    \* [Request -> "none", "ok", "failed", "lost"]

In(s) == {s[i] : i \in DOMAIN s}
Durable(p, l) == \E q \in In(l) : q = p \/ (q > p /\ StandsFor(asked[q], asked[p]))

Init == asked = <<>> /\ log = <<>> /\ told = [r \in Request |-> "none"]

\* Nobody asks twice.
Ask(m) ==
    /\ m \notin In(asked)
    /\ asked' = Append(asked, m)
    /\ UNCHANGED <<log, told>>

\* What a longer log may add: messages that are not in it, that nobody was
\* told have failed, and behind every message they may not pass.
Extends(new) ==
    /\ Len(log) <= Len(new) /\ \A i \in DOMAIN log : new[i] = log[i]
    /\ \A j \in DOMAIN new \ DOMAIN log :
          /\ new[j] \in DOMAIN asked /\ asked[new[j]] # Stop
          /\ told[asked[new[j]]] # "failed"
          /\ \A i \in 1..j - 1 : /\ new[i] # new[j]
                                 /\ ~MayPass(asked[new[i]], asked[new[j]]) => new[i] < new[j]

\* An answer is given once; OK is durable, failed is not in the log.
Tells(p, answer, new) ==
    told[asked[p]] # answer =>
        /\ told[asked[p]] = "none"
        /\ answer = "ok" => Durable(p, new)
        /\ answer = "failed" => p \notin In(new)

\* Messages are committed and callers are told.
Settle ==
    /\ UNCHANGED asked
    /\ Extends(log')
    /\ \A p \in DOMAIN asked : asked[p] # Stop => Tells(p, told'[asked[p]], log')
    /\ \A r \in Request \ In(asked) : told'[r] = told[r]

Next == (\E m \in Request \cup {Stop} : Ask(m)) \/ Settle

Spec == Init /\ [][Next]_<<asked, log, told>>
=============================================================================
