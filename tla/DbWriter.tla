------------------------------ MODULE DbWriter ------------------------------
(***************************************************************************)
(* The write queue of the database (src/db/mod.rs, src/db/threads.rs,      *)
(* flush_everything of src/db/store.rs).                                   *)
(*                                                                         *)
(* Callers reserve their share of three counters, check the caps, and send *)
(* to an unbounded channel.  One writer thread drains up to BATCH messages *)
(* at a time, merges the puts among them into one transaction, runs every  *)
(* other message by itself, writes only the newest snapshot of a drain and *)
(* answers.  A message is known by its position in the order of sending.   *)
(***************************************************************************)
EXTENDS Integers, Sequences, FiniteSets, SequencesExt, Sums

CONSTANTS
    Request,    \* the callers, one request each
    Kind,       \* [Request -> Kinds]
    Events,     \* the events a put or a batch carries
    Bytes,      \* msg_bytes: the payload estimate
    MaxMsgs,    \* limits.db_max_pending_msgs
    MaxEvents,  \* limits.db_max_pending_events
    MaxBytes,   \* limits.db_max_pending_bytes, 0: no cap
    Batch,      \* BATCH: messages of one drain
    MaxPanics,  \* bound: panics of the writer's handlers
    Stop        \* Msg::Shutdown

\* Put, PutBatch, SaveGroups, SaveRoles and everything that runs by itself.
Kinds == {"put", "batch", "groups", "roles", "inline"}

ASSUME RequestType == IsFiniteSet(Request) /\ Stop \notin Request
ASSUME KindType == Kind \in [Request -> Kinds]
ASSUME ShareType == Events \in [Request -> Nat] /\ Bytes \in [Request -> Nat]
ASSUME LimitType == /\ MaxMsgs \in Nat \ {0} /\ MaxEvents \in Nat \ {0}
                    /\ MaxBytes \in Nat /\ Batch \in Nat \ {0} /\ MaxPanics \in Nat

VARIABLES
    pending,  \* pending_msgs, pending_events, pending_bytes
    caller,   \* where a caller is in send_request_checked
    sent,     \* every message sent, in the order of the channel
    taken,    \* how many of them the writer has received
    at,       \* the position the drain is handling
    pc,       \* the writer's step
    puts,     \* WriteBatch.puts: positions, in order
    batches,  \* WriteBatch.pending_batches
    waiting,  \* the replies of coalesced snapshots
    guard,    \* PendingGuard: the positions it still accounts for
    applied,  \* the committed messages, in the order of their commits
    reply,    \* what a caller was told
    panics    \* how many handlers have panicked

queueVars  == <<pending, caller, sent>>
writerVars == <<taken, at, pc, puts, batches, waiting, guard, applied, reply, panics>>
wvars == <<queueVars, writerVars>>

Counter == <<"msgs", "events", "bytes">>
CounterKey == {"msgs", "events", "bytes"}

\* What a message reserves of each counter.
Share(r) == [k \in CounterKey |->
               IF k = "msgs" THEN 1
               ELSE IF k = "bytes" THEN Bytes[r]
               ELSE IF Kind[r] \in {"put", "batch"} THEN Events[r] ELSE 0]

OverCap(k, n) ==
    \/ k = "msgs" /\ n > MaxMsgs
    \/ k = "events" /\ n > MaxEvents
    \/ k = "bytes" /\ MaxBytes > 0 /\ n > MaxBytes

Positions(S) == {p \in 1..Len(sent) : sent[p] \in S}
IsKind(p, K) == sent[p] # Stop /\ Kind[sent[p]] \in K

-----------------------------------------------------------------------------
(* Callers: send_request_checked, one atomic counter operation per step.   *)

Adding(i, over) == [op |-> "add", i |-> i, over |-> over]
Undoing(i)      == [op |-> "undo", i |-> i, over |-> TRUE]
Sending         == [op |-> "send", i |-> 0, over |-> FALSE]
Waiting         == [op |-> "wait", i |-> 0, over |-> FALSE]
Refused         == [op |-> "refused", i |-> 0, over |-> TRUE]
CallerState     == {Sending, Waiting, Refused} \cup {Adding(i, b) : i \in 1..3, b \in BOOLEAN}
                                               \cup {Undoing(i) : i \in 1..3}

\* Add first and compare what the addition returned.
Reserve(r) ==
    /\ caller[r].op = "add"
    /\ LET k == Counter[caller[r].i]
           n == pending[k] + Share(r)[k]
           over == caller[r].over \/ OverCap(k, n)
       IN  /\ pending' = [pending EXCEPT ![k] = n]
           /\ caller' = [caller EXCEPT ![r] =
                           IF caller[r].i < 3 THEN Adding(caller[r].i + 1, over)
                           ELSE IF over THEN Undoing(1) ELSE Sending]
    /\ UNCHANGED <<sent, writerVars>>

\* Mutant: only the message count of a refused request is given back.
RollbackMutant(r) ==
    /\ caller[r].op = "undo"
    /\ pending' = [pending EXCEPT !["msgs"] = @ - 1]
    /\ caller' = [caller EXCEPT ![r] = Refused]
    /\ UNCHANGED <<sent, writerVars>>

\* A cap or a closed channel: the reservation is taken back.
Rollback(r) ==
    /\ caller[r].op = "undo"
    /\ LET k == Counter[caller[r].i]
       IN  pending' = [pending EXCEPT ![k] = @ - Share(r)[k]]
    /\ caller' = [caller EXCEPT ![r] = IF @.i < 3 THEN Undoing(@.i + 1) ELSE Refused]
    /\ UNCHANGED <<sent, writerVars>>

\* The channel refuses once the writer has dropped the receiver.
Send(r) ==
    /\ caller[r].op = "send"
    /\ IF pc = "stopped"
       THEN /\ caller' = [caller EXCEPT ![r] = Undoing(1)]
            /\ UNCHANGED sent
       ELSE /\ caller' = [caller EXCEPT ![r] = Waiting]
            /\ sent' = Append(sent, r)
    /\ UNCHANGED <<pending, writerVars>>

\* DbClient::shutdown: the message is sent past the counters.
SendShutdown ==
    /\ Positions({Stop}) = {} /\ pc # "stopped"
    /\ sent' = Append(sent, Stop)
    /\ UNCHANGED <<pending, caller, writerVars>>

-----------------------------------------------------------------------------
(* The writer.                                                             *)

MinOf(a, b) == IF a < b THEN a ELSE b

\* One message, and what else is there, up to BATCH.
Drain ==
    /\ pc = "recv" /\ taken < Len(sent)
    /\ taken' = MinOf(Len(sent), taken + Batch)
    /\ at' = taken + 1
    /\ guard' = {p \in taken + 1 .. taken' : sent[p] # Stop}
    /\ pc' = "handle"
    /\ UNCHANGED <<queueVars, puts, batches, waiting, applied, reply, panics>>

Told(P, answer) ==
    reply' = [r \in Request |-> IF \E p \in P : sent[p] = r THEN answer ELSE reply[r]]

\* subtract_counter for the messages of a set; it saturates at zero.
Released(P) ==
    pending' = [k \in DOMAIN pending |->
                  LET n == SumOver([p \in P |-> Share(sent[p])[k]], P)
                  IN  IF pending[k] > n THEN pending[k] - n ELSE 0]

Merged == puts \o batches

\* Mutant: the queued batches are answered but not merged into the commit.
FlushMutant ==
    /\ Merged # <<>>
    /\ \/ applied' = applied \o puts /\ Told(Range(Merged), "ok")
       \/ Told(Range(Merged), "failed") /\ UNCHANGED applied
    /\ puts' = <<>> /\ batches' = <<>>

\* flush_everything: single puts, then batches, in one transaction; a full
\* disk, a poisoned transaction or a failed commit revokes every reply.
Flush ==
    /\ Merged # <<>>
    /\ \/ applied' = applied \o Merged /\ Told(Range(Merged), "ok")
       \/ Told(Range(Merged), "failed") /\ UNCHANGED applied
    /\ puts' = <<>> /\ batches' = <<>>

\* The newest snapshot of its kind among the messages of this drain.
Newest(p) == \A q \in p + 1 .. taken : ~IsKind(q, {Kind[sent[p]]})

\* Put: it joins the transaction; the first one opens it, and is answered and
\* skipped when that fails.
HandlePut ==
    /\ pc = "handle" /\ at <= taken /\ IsKind(at, {"put"})
    /\ \/ puts' = Append(puts, at) /\ UNCHANGED reply
       \/ puts = <<>> /\ Told({at}, "failed") /\ UNCHANGED puts
    /\ at' = at + 1
    /\ UNCHANGED <<queueVars, taken, pc, batches, waiting, guard, applied, panics>>

HandleBatch ==
    /\ pc = "handle" /\ at <= taken /\ IsKind(at, {"batch"})
    /\ batches' = Append(batches, at)
    /\ at' = at + 1
    /\ UNCHANGED <<queueVars, taken, pc, puts, waiting, guard, applied, reply, panics>>

\* Anything but a put commits the batch first, so that the order is kept.
FlushFirst ==
    /\ pc = "handle" /\ at <= taken /\ ~IsKind(at, {"put", "batch"})
    /\ Flush
    /\ UNCHANGED <<queueVars, taken, at, pc, waiting, guard, panics>>

\* A message that runs by itself, with nothing uncommitted before it.
Ready(K) == pc = "handle" /\ at <= taken /\ IsKind(at, K) /\ Merged = <<>>

\* A transaction of its own.  A first-seen request that fails leaves its
\* share to the guard's drop.
HandleInline ==
    /\ Ready({"inline"})
    /\ \/ applied' = Append(applied, at) /\ Told({at}, "ok") /\ pc' = "release" /\ UNCHANGED at
       \/ /\ Told({at}, "failed") /\ UNCHANGED applied
          /\ \/ pc' = "release" /\ UNCHANGED at
             \/ at' = at + 1 /\ UNCHANGED pc
    /\ UNCHANGED <<queueVars, taken, puts, batches, waiting, guard, panics>>

\* Mutant: an older snapshot is answered before the newest one is written.
CoalesceMutant ==
    /\ Ready({"groups", "roles"}) /\ ~Newest(at)
    /\ Told({at}, "ok")
    /\ pc' = "release"
    /\ UNCHANGED <<queueVars, taken, at, puts, batches, waiting, guard, applied, panics>>

\* An older snapshot waits for the newest one of the drain.
Coalesce ==
    /\ Ready({"groups", "roles"}) /\ ~Newest(at)
    /\ waiting' = waiting \cup {at}
    /\ pc' = "release"
    /\ UNCHANGED <<queueVars, taken, at, puts, batches, guard, applied, reply, panics>>

\* The newest snapshot answers for every older one of its kind.
HandleSave ==
    /\ Ready({"groups", "roles"}) /\ Newest(at)
    /\ LET covered == {p \in waiting : Kind[sent[p]] = Kind[sent[at]]} \cup {at}
       IN  /\ \/ applied' = Append(applied, at) /\ Told(covered, "ok")
              \/ Told(covered, "failed") /\ UNCHANGED applied
           /\ waiting' = waiting \ covered
    /\ pc' = "release"
    /\ UNCHANGED <<queueVars, taken, at, puts, batches, guard, panics>>

\* PendingGuard::release of one answered message.
ReleaseOne ==
    /\ pc = "release"
    /\ Released({at} \cap guard)
    /\ guard' = guard \ {at}
    /\ at' = at + 1
    /\ pc' = "handle"
    /\ UNCHANGED <<caller, sent, taken, puts, batches, waiting, applied, reply, panics>>

\* The end of a drain: what the guard still holds is released, then the puts
\* are committed and answered.
DropGuard ==
    /\ pc = "handle" /\ at > taken
    /\ Released(guard)
    /\ guard' = {}
    /\ pc' = "flush"
    /\ UNCHANGED <<caller, sent, taken, at, puts, batches, waiting, applied, reply, panics>>

\* Mutant: the writer blocks for the next message with the batch open.
FlushLastMutant ==
    /\ pc = "flush"
    /\ pc' = "recv"
    /\ UNCHANGED <<queueVars, taken, at, puts, batches, applied, reply, waiting, guard, panics>>

FlushLast ==
    /\ pc = "flush"
    /\ Flush \/ (Merged = <<>> /\ UNCHANGED <<puts, batches, applied, reply>>)
    /\ pc' = "recv"
    /\ UNCHANGED <<queueVars, taken, at, waiting, guard, panics>>

\* The positions whose reply sender goes with the receiver, the drain or the
\* coalesced replies.
Unanswered(P) == {p \in P : sent[p] # Stop /\ reply[sent[p]] = "none"}

\* Shutdown, behind the committed batch: the rest of the drain and of the
\* queue is dropped without a reply.
HandleStop ==
    /\ pc = "handle" /\ at <= taken /\ sent[at] = Stop /\ Merged = <<>>
    /\ Told(Unanswered(DOMAIN sent), "lost")
    /\ Released(guard)
    /\ guard' = {} /\ waiting' = {} /\ pc' = "stopped"
    /\ UNCHANGED <<caller, sent, taken, at, puts, batches, applied, panics>>

\* A handler panics: the open transaction is rolled back and its replies are
\* revoked; the rest of the drain is dropped, and the writer stops when a
\* Shutdown was in it.  A handler with its own transaction may have committed.
Panic ==
    /\ pc = "handle" /\ at <= taken /\ panics < MaxPanics
    /\ LET stop    == \E p \in at..taken : sent[p] = Stop
           revoked == Range(Merged)
           dropped == Unanswered((IF stop THEN DOMAIN sent ELSE 1..taken) \ revoked)
       IN  /\ reply' = [r \in Request |->
                          IF \E p \in revoked : sent[p] = r THEN "failed"
                          ELSE IF \E p \in dropped : sent[p] = r THEN "lost"
                          ELSE reply[r]]
           /\ pc' = IF stop THEN "stopped" ELSE "recv"
    /\ UNCHANGED applied \/ (Ready({"inline"}) /\ applied' = Append(applied, at))
    /\ Released(guard)
    /\ guard' = {} /\ waiting' = {} /\ puts' = <<>> /\ batches' = <<>>
    /\ at' = taken + 1
    /\ panics' = panics + 1
    /\ UNCHANGED <<caller, sent, taken>>

-----------------------------------------------------------------------------
WriterInit ==
    /\ pending = [k \in CounterKey |-> 0]
    /\ caller = [r \in Request |-> Adding(1, FALSE)]
    /\ sent = <<>>
    /\ taken = 0 /\ at = 1 /\ pc = "recv"
    /\ puts = <<>> /\ batches = <<>> /\ waiting = {} /\ guard = {}
    /\ applied = <<>>
    /\ reply = [r \in Request |-> "none"]
    /\ panics = 0

Caller(r) == Reserve(r) \/ Rollback(r) \/ Send(r)

Writer ==
    \/ Drain \/ HandlePut \/ HandleBatch \/ FlushFirst \/ HandleInline \/ Coalesce
    \/ HandleSave \/ ReleaseOne \/ DropGuard \/ FlushLast \/ HandleStop \/ Panic

WriterNext == Writer \/ SendShutdown \/ \E r \in Request : Caller(r)

WriterSpec == WriterInit /\ [][WriterNext]_wvars

-----------------------------------------------------------------------------
(* Properties.                                                             *)

\* The counters are natural numbers (fetch_sub would wrap them into a
\* permanent fail-fast) and the writer's batch holds messages it received.
WriterTypeOK ==
    /\ pending \in [CounterKey -> Nat]
    /\ caller \in [Request -> CallerState]
    /\ sent \in Seq(Request \cup {Stop})
    /\ taken \in 0..Len(sent) /\ at \in 1..taken + 1
    /\ pc \in {"recv", "handle", "release", "flush", "stopped"}
    /\ puts \in Seq(1..taken) /\ batches \in Seq(1..taken) /\ applied \in Seq(1..taken)
    /\ waiting \subseteq 1..taken /\ guard \subseteq 1..taken
    /\ reply \in [Request -> {"none", "ok", "failed", "lost"}]
    /\ panics \in 0..MaxPanics

\* Message p is still accounted for: in the channel or in the guard.
Counted(p) == p > taken \/ p \in guard

Queued(r) == \E p \in Positions({r}) : Counted(p)

\* The caller of r has added counter i and nobody has subtracted it yet.
Reserves(r, i) ==
    \/ caller[r].op = "add" /\ i < caller[r].i
    \/ caller[r].op = "undo" /\ i >= caller[r].i
    \/ caller[r].op = "send"
    \/ caller[r].op = "wait" /\ Queued(r)

Total(S, k) == SumOver([r \in S |-> Share(r)[k]], S)

\* PendingGuard, send_request_checked: through refusals, rollbacks, closed
\* channels, early arms, coalesced replies and panics, each counter is the
\* sum of the shares that are reserved; none is leaked or released twice.
CountersExact ==
    \A i \in 1..3 :
        pending[Counter[i]] = Total({r \in Request : Reserves(r, i)}, Counter[i])

\* send_request_checked: what the channel and the drain hold never exceeds a
\* cap, whatever burst of callers reserves at the same time.
QueueCapped ==
    \A k \in CounterKey :
        ~OverCap(k, Total({r \in Request : caller[r].op = "send"
                                           \/ (caller[r].op = "wait" /\ Queued(r))}, k))

\* send_request_checked and the drain: every reserved share is released once,
\* and what is queued stays under the caps.
QueueAccounted == CountersExact /\ QueueCapped

\* The commit of message p: its own, or for a snapshot a newer one's.
Covered(p) ==
    \E q \in Range(applied) :
        q = p \/ (q > p /\ IsKind(p, {"groups", "roles"}) /\ IsKind(q, {Kind[sent[p]]}))

\* flush_everything, coalesced replies: an OK was committed before it was
\* sent, and what was reported failed is not in the database.
AnswersTrue ==
    \A p \in DOMAIN sent : sent[p] # Stop =>
        /\ reply[sent[p]] = "ok" => Covered(p)
        /\ reply[sent[p]] = "failed" => p \notin Range(applied)

\* Two messages that may not change places: any but a put and a batch.
Ordered(p, q) == ~IsKind(p, {"put", "batch"}) \/ ~IsKind(q, {"put", "batch"})
                 \/ Kind[sent[p]] = Kind[sent[q]]

\* Merging puts and coalescing snapshots never commits a later message ahead
\* of an earlier one that it could depend on.
OrderKept ==
    \A i, j \in DOMAIN applied :
        i < j /\ Ordered(applied[i], applied[j]) => applied[i] < applied[j]

\* The queue keeps what WriteService promises: drains, merged transactions,
\* coalesced snapshots, refusals and panics are invisible to the callers but
\* for the answer they get, once.
MayPass(m, n) == m # Stop /\ n # Stop /\ {Kind[m], Kind[n]} = {"put", "batch"}
StandsFor(n, m) == m # Stop /\ n # Stop /\ Kind[n] = Kind[m] /\ Kind[m] \in {"groups", "roles"}
Service == INSTANCE WriteService WITH asked <- sent, log <- applied, told <- reply
ServiceKept == Service!Spec

(* The inductive invariant behind them.                                    *)

\* A message is sent once, by a caller that waits for its reply from then on.
SentOnce ==
    /\ \A p, q \in DOMAIN sent : sent[p] = sent[q] => p = q
    /\ \A p \in DOMAIN sent : sent[p] # Stop => caller[sent[p]].op = "wait"

\* The guard of a drain holds messages only, and nothing between two drains.
GuardShape ==
    /\ \A p \in guard : sent[p] # Stop
    /\ pc \in {"recv", "flush", "stopped"} => guard = {}

\* The callers that were under the cap of counter i when they added to it and
\* have not given their share back.
Passed(i) ==
    {r \in Request : \/ caller[r].op = "add" /\ i < caller[r].i /\ ~caller[r].over
                     \/ caller[r].op = "send"
                     \/ caller[r].op = "wait" /\ Queued(r)}
PassedCapped == \A i \in 1..3 : ~OverCap(Counter[i], Total(Passed(i), Counter[i]))

\* The first position the drain has not handled.
Frontier == IF pc = "release" THEN at + 1 ELSE at

\* The writer's batch holds its messages in order, all of them later than
\* everything committed; it is empty whenever another message runs.
BatchShape ==
    /\ \A i \in DOMAIN puts : IsKind(puts[i], {"put"}) /\ puts[i] < at
    /\ \A i \in DOMAIN batches : IsKind(batches[i], {"batch"}) /\ batches[i] < at
    /\ \A i, j \in DOMAIN puts : i < j => puts[i] < puts[j]
    /\ \A i, j \in DOMAIN batches : i < j => batches[i] < batches[j]
    /\ \A i \in DOMAIN applied : /\ sent[applied[i]] # Stop /\ applied[i] < Frontier
                                 /\ \A j \in DOMAIN puts : applied[i] < puts[j]
                                 /\ \A j \in DOMAIN batches : applied[i] < batches[j]
    /\ pc \in {"recv", "release", "stopped"} => puts = <<>> /\ batches = <<>>
    /\ pc \in {"recv", "flush"} => at = taken + 1
    /\ pc = "release" => at <= taken

\* A snapshot that waits for a newer one was handled and not committed.
WaitingShape ==
    \A p \in waiting : p < Frontier /\ IsKind(p, {"groups", "roles"}) /\ p \notin Range(applied)

\* Nobody is answered before the drain reaches the message.
RepliesShape ==
    \A r \in Request : reply[r] # "none" =>
        \E p \in DOMAIN sent : sent[p] = r /\ (p < Frontier \/ pc = "stopped")

\* A message in the batch or among the waiting snapshots has no answer yet.
OpenShape ==
    /\ \A i \in DOMAIN puts : reply[sent[puts[i]]] = "none"
    /\ \A i \in DOMAIN batches : reply[sent[batches[i]]] = "none"
    /\ \A p \in waiting : reply[sent[p]] = "none"

AccountInv == SentOnce /\ GuardShape /\ CountersExact /\ PassedCapped
CommitInv == SentOnce /\ BatchShape /\ WaitingShape /\ RepliesShape /\ OpenShape /\ AnswersTrue /\ OrderKept
WriterInv == WriterTypeOK /\ AccountInv /\ CommitInv

\* A request that reached the writer queue is answered, or dropped by the
\* shutdown or a panic: no caller waits for ever on an open batch.
Answered == \A r \in Request : caller[r].op = "wait" ~> reply[r] # "none"

\* "Earlier ones still get their reply (the mutation is durable via the newest
\* write)": a message queued ahead of Shutdown is not dropped.
AheadOfStopAnswered ==
    \A p, q \in DOMAIN sent : p < q /\ sent[q] = Stop => reply[sent[p]] # "lost"
=============================================================================
