----------------------------- MODULE ReadQueue -----------------------------
(***************************************************************************)
(* The read side of the database client (db/mod.rs, db/threads.rs): callers  *)
(* reserve a place under a count and a byte limit, send to one of the reader   *)
(* threads and wait; a reader answers, answers with a failure, drops the reply  *)
(* or recovers from a panic.  REST requests have a queue of their own.           *)
(***************************************************************************)
EXTENDS Integers, Sequences, FiniteSets, SequencesExt, Chunks, Sums

CONSTANTS
    MaxReads,  \* max_pending_msgs, the limit of pending_reads
    MaxApi,    \* max_api_pending
    MaxReadBytes,  \* max_pending_bytes, of each queue
    Readers,   \* reader_threads; one more channel serves the API
    Page,      \* PAGE of vanish_pubkeys_each
    Keys,      \* the vanished keys, numbers in key order
    ReadMenus, \* bound: [calls, faults, late]: the calls of each caller, what may go wrong, keys added meanwhile
    Missing

Message == [what : STRING, form : STRING, bytes : Nat]
QueuedCall == [who : UNION {DOMAIN m.calls : m \in ReadMenus}, msg : Message, n : Nat]   \* a call in a channel

ASSUME ReadLimits == Readers \in Nat \ {0} /\ Page \in Nat \ {0} /\ {MaxReads, MaxApi, MaxReadBytes} \subseteq Nat
ASSUME KeysInOrder == Keys \subseteq Nat \ {0} /\ IsFiniteSet(Keys)
ASSUME MenuType == \A m \in ReadMenus : /\ IsFiniteSet(DOMAIN m.calls) /\ m.late \subseteq Keys
                                        /\ \A c \in DOMAIN m.calls : m.calls[c] \in Seq(Message)
ASSUME MissingType == Missing \notin QueuedCall /\ Missing \notin BOOLEAN

VARIABLES
    pendingReads, \* [reads, bytes, api, apibytes]: pending_reads, pending_read_bytes, api_pending, api_pending_bytes
    inbox,   \* per channel: the calls sent
    busy,    \* per channel: the call being handled
    open,    \* the channels whose thread runs
    rr,      \* read_rr
    keys,    \* the vanish table
    call,    \* per caller: [at, msg, chan, done, walked, after, first, ok]
    made,    \* per caller: calls made
    gone,    \* ghost: [reads, api], places of the calls dropped with their channel
    rmenu

rvars == <<pendingReads, inbox, busy, open, rr, keys, call, made, gone, rmenu>>

Callers == DOMAIN rmenu.calls
Msg(c) == call[c].msg
On(c, s) == call[c].at = s
Move(c, s) == call' = [call EXCEPT ![c].at = s]
ApiChannel == Readers + 1

\* The request forms.  request_read_startup and request_read_blocking must not be refused and wait as long as it takes.
Api(m) == m.form = "api"
Forced(m) == m.form \in {"startup", "blocking"}
TimesOut(m) == ~Forced(m)

\* What the arms of handle_read_msg do with a failed read: a None, Err or Failed for the caller; a dropped reply; or a default
\* the caller cannot tell from an answer.
LoadArms == {"epochs", "arrivals", "apply_pending", "commands", "carry", "backfilled", "archive", "tombstone", "rebuild_pending", "page"}
ScanArms == {"query", "neg", "count", "vanished", "sample", "raw_page"}   \* a reply is sent for an answer only
StateArms == {"banned", "allowed", "access", "blossom_allow", "pubkeys", "dm_backup", "buzz_backup", "groups", "roles", "foreign"}
TailArms == {"vanish_counts", "purges", "deletions", "tables", "stamp", "schema", "seq"}
OnError(m) ==
    CASE m.what \in LoadArms \union StateArms \union TailArms -> "failed"
      [] m.what \in ScanArms \union {"blob", "blob_page"} -> "dropped"
      [] OTHER -> "default"   \* prefix_exists, prefixes_exist, blossom_list, migration_done, first_seen
\* A write that reaches a reader is refused.
ReadRefused(m) == m.what \in {"record_epoch", "assign_arrival", "save_carry", "clear_command"}

-----------------------------------------------------------------------------
(* Callers *)

Start(c) ==
    /\ On(c, "idle") /\ made[c] < Len(rmenu.calls[c])
    /\ made' = [made EXCEPT ![c] = @ + 1]
    /\ call' = [call EXCEPT ![c] = [at |-> "count", msg |-> rmenu.calls[c][made[c] + 1], chan |-> 0, done |-> FALSE,
                                    walked |-> {}, after |-> 0, first |-> keys, ok |-> Missing]]
    /\ UNCHANGED <<pendingReads, inbox, busy, open, rr, keys, gone, rmenu>>

\* reserve_read, reserve_read_force and api_reserve: the count first, then the bytes; each is compared with what its own
\* addition returned.
Count(m, p, n) == IF Api(m) THEN [p EXCEPT !.api = @ + n] ELSE [p EXCEPT !.reads = @ + n]
Uncount(m, p) == IF Api(m) THEN [p EXCEPT !.api = @ - 1] ELSE [p EXCEPT !.reads = @ - 1]
OverCount(m, p) == IF Api(m) THEN p.api > MaxApi ELSE p.reads > MaxReads
AddBytes(m, p) == IF Api(m) THEN [p EXCEPT !.apibytes = @ + m.bytes] ELSE [p EXCEPT !.bytes = @ + m.bytes]
SubBytes(m, p) == IF Api(m) THEN [p EXCEPT !.apibytes = @ - m.bytes] ELSE [p EXCEPT !.bytes = @ - m.bytes]
OverBytes(m, p) == IF Api(m) THEN p.apibytes > MaxReadBytes ELSE p.bytes > MaxReadBytes
ReleaseMutant(m, p) == IF Forced(m) THEN p ELSE SubBytes(m, Uncount(m, p))   \* mutant: a forced reservation is never given back
\* release_read and api_release.
ReleaseRead(m, p) == SubBytes(m, Uncount(m, p))

\* read_channel: round robin over the readers, before the place is reserved.
ReadChannel(m) == IF Api(m) THEN ApiChannel ELSE 1 + rr

ReserveCount(c) ==
    /\ On(c, "count")
    /\ pendingReads' = Count(Msg(c), pendingReads, 1) /\ rr' = IF Api(Msg(c)) THEN rr ELSE (rr + 1) % Readers
    /\ call' = [call EXCEPT ![c].at = "bytes", ![c].chan = ReadChannel(Msg(c)), ![c].done = OverCount(Msg(c), Count(Msg(c), pendingReads, 1))]
    /\ UNCHANGED <<inbox, busy, open, keys, made, gone, rmenu>>
ReserveBytes(c) ==
    /\ On(c, "bytes")
    /\ pendingReads' = AddBytes(Msg(c), pendingReads)
    /\ call' = [call EXCEPT ![c].at = IF ~Forced(Msg(c)) /\ (call[c].done \/ OverBytes(Msg(c), AddBytes(Msg(c), pendingReads)))
                                      THEN "over" ELSE "send", ![c].done = FALSE]
    /\ UNCHANGED <<inbox, busy, open, rr, keys, made, gone, rmenu>>
\* The caller is refused: the overload is counted, and a walk or a read ends without an answer.
Overloaded(c) ==
    /\ On(c, "over")
    /\ pendingReads' = ReleaseRead(Msg(c), pendingReads)
    /\ call' = [call EXCEPT ![c].at = "answered", ![c].ok = FALSE]
    /\ UNCHANGED <<inbox, busy, open, rr, keys, made, gone, rmenu>>

\* The send: a channel whose thread is gone gives the place back.
SendRead(c) ==
    /\ On(c, "send")
    /\ IF call[c].chan \in open
       THEN /\ inbox' = [inbox EXCEPT ![call[c].chan] = Append(@, [who |-> c, msg |-> Msg(c), n |-> made[c]])]
            /\ Move(c, "wait") /\ UNCHANGED pendingReads
       ELSE /\ pendingReads' = ReleaseRead(Msg(c), pendingReads)
            /\ call' = [call EXCEPT ![c].at = "answered", ![c].ok = FALSE] /\ UNCHANGED inbox
    /\ UNCHANGED <<busy, open, rr, keys, made, gone, rmenu>>

\* The timeout of request_read_result, request_with_checked and api_request: the call stays in the queue.
Timeout(c) ==
    /\ "timeout" \in rmenu.faults /\ On(c, "wait") /\ TimesOut(Msg(c))
    /\ call' = [call EXCEPT ![c].at = "answered", ![c].ok = FALSE]
    /\ UNCHANGED <<pendingReads, inbox, busy, open, rr, keys, made, gone, rmenu>>

\* vanish_pubkeys_each: a full page asks for the next one; a page that failed ends the walk with a failure.
PageOf(after) == FirstOf(Page, AheadOf(keys, after))
WalkFailed(c) == [call[c] EXCEPT !.at = "answered", !.ok = FALSE]
GotPage(c, page) ==
    LET w == [call[c] EXCEPT !.walked = @ \union page]
    IN  IF Cardinality(page) = Page THEN [w EXCEPT !.at = "count", !.after = Max(page)] ELSE [w EXCEPT !.at = "answered", !.ok = TRUE]

\* The caller uses its answer, then makes its next call.
Finish(c) ==
    /\ On(c, "answered") /\ Move(c, "idle")
    /\ UNCHANGED <<pendingReads, inbox, busy, open, rr, keys, made, gone, rmenu>>

-----------------------------------------------------------------------------
(* Readers *)

Take(ch) ==
    /\ ch \in open /\ busy[ch] = Missing /\ inbox[ch] # <<>>
    /\ busy' = [busy EXCEPT ![ch] = Head(inbox[ch])]
    /\ inbox' = [inbox EXCEPT ![ch] = Tail(@)]
    /\ UNCHANGED <<pendingReads, open, rr, keys, call, made, gone, rmenu>>

\* The reply reaches a caller that still waits for this call.
ReadWaiting(b) == On(b.who, "wait") /\ made[b.who] = b.n
Reply(b, r) == call' = IF ReadWaiting(b) THEN [call EXCEPT ![b.who] = r] ELSE call
Answer(b, ok) == [call[b.who] EXCEPT !.at = "answered", !.ok = ok]

\* handle_read_msg, then the place is given back, in the reader loop or, after a panic, beside it.
Handled(ch) ==
    /\ busy[ch] # Missing
    /\ LET b == busy[ch]
           m == b.msg
       IN  /\ \/ Reply(b, IF ReadRefused(m) THEN Answer(b, FALSE)
                          ELSE IF m.what = "page" THEN GotPage(b.who, PageOf(call[b.who].after)) ELSE Answer(b, TRUE))
              \/ /\ "db" \in rmenu.faults /\ ~ReadRefused(m)
                 /\ Reply(b, IF m.what = "page" THEN WalkFailed(b.who)
                             ELSE Answer(b, IF OnError(m) = "default" THEN "default" ELSE FALSE))
              \/ "panic" \in rmenu.faults /\ Reply(b, IF m.what = "page" THEN WalkFailed(b.who) ELSE Answer(b, FALSE))
           /\ pendingReads' = ReleaseRead(m, pendingReads)
    /\ busy' = [busy EXCEPT ![ch] = Missing]
    /\ UNCHANGED <<inbox, open, rr, keys, made, gone, rmenu>>

\* Msg::Shutdown ends a reader: the calls behind it are dropped with the channel, whose callers see no answer; their places
\* are not given back.
Shutdown(ch) ==
    /\ "stop" \in rmenu.faults /\ ch \in open /\ busy[ch] = Missing
    /\ open' = open \ {ch} /\ inbox' = [inbox EXCEPT ![ch] = <<>>]
    /\ gone' = IF ch = ApiChannel THEN [gone EXCEPT !.api = @ + Len(inbox[ch])] ELSE [gone EXCEPT !.reads = @ + Len(inbox[ch])]
    /\ call' = [c \in Callers |-> IF \E b \in ToSet(inbox[ch]) : b.who = c /\ ReadWaiting(b) THEN [call[c] EXCEPT !.at = "answered", !.ok = FALSE] ELSE call[c]]
    /\ UNCHANGED <<pendingReads, busy, rr, keys, made, rmenu>>

\* The writer adds a vanished key meanwhile.
Vanish ==
    /\ \E k \in rmenu.late \ keys : keys' = keys \union {k}
    /\ UNCHANGED <<pendingReads, inbox, busy, open, rr, call, made, gone, rmenu>>

ReadInit ==
    /\ rmenu \in ReadMenus
    /\ pendingReads = [reads |-> 0, bytes |-> 0, api |-> 0, apibytes |-> 0]
    /\ inbox = [ch \in 1..ApiChannel |-> <<>>] /\ busy = [ch \in 1..ApiChannel |-> Missing] /\ open = 1..ApiChannel
    /\ rr = 0 /\ keys = Keys \ rmenu.late
    /\ call = [c \in Callers |-> [at |-> "idle", msg |-> Missing, chan |-> 0, done |-> FALSE, walked |-> {}, after |-> 0, first |-> {}, ok |-> Missing]]
    /\ made = [c \in Callers |-> 0] /\ gone = [reads |-> 0, api |-> 0]
ReadNext ==
    \/ \E c \in Callers : Start(c) \/ ReserveCount(c) \/ ReserveBytes(c) \/ Overloaded(c) \/ SendRead(c) \/ Timeout(c) \/ Finish(c)
    \/ \E ch \in 1..ApiChannel : Take(ch) \/ Handled(ch) \/ Shutdown(ch)
    \/ Vanish

ReadSpec == ReadInit /\ [][ReadNext]_rvars

-----------------------------------------------------------------------------
(* Properties *)

\* Calls that hold a place: those being reserved, and those sent, whether or not their caller still waits.
Queue(m) == IF Api(m) THEN "api" ELSE "reads"
Reserving(q) == {c \in Callers : call[c].at \in {"bytes", "send", "over"} /\ Queue(Msg(c)) = q}
Load == [ch \in 1..ApiChannel |-> Len(inbox[ch]) + (IF busy[ch] = Missing THEN 0 ELSE 1)]
Sent(q) == SumOver(Load, IF q = "api" THEN {ApiChannel} ELSE 1..Readers)

\* No place leaks and none is given back twice, over refusals, timeouts of callers whose call is still queued, failed reads,
\* panics and threads that end: a leak would in time refuse every read.
PlacesExact == \A q \in {"reads", "api"} : pendingReads[q] = Cardinality(Reserving(q)) + Sent(q) + gone[q]

\* A walk over the vanished keys that reports success saw every key that was there when it began, although pages fail and
\* keys are added between them.
WalkWhole == \A c \in Callers : On(c, "answered") /\ Msg(c).what = "page" /\ call[c].ok = TRUE => call[c].first \subseteq call[c].walked

\* What a caller of the readers relies on: places for its reads, and walks that are whole (reserve_read, release_read,
\* vanish_pubkeys_each).
ReadsWhole == PlacesExact /\ WalkWhole
=============================================================================
