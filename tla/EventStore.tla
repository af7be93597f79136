----------------------------- MODULE EventStore -----------------------------
(***************************************************************************)
(* The durable event store of nostrfy (src/db/store.rs, src/db/removal.rs):*)
(* admission of events, NIP-01/33 replacement slots, and the chunked,      *)
(* resumable removal walks of NIP-09 deletion, NIP-62 vanish, NIP-29 group *)
(* purge and NIP-40 expiry, together with the NIP-86 ban and allow lists.  *)
(*                                                                         *)
(* One action is one committed LMDB write transaction of the single writer *)
(* thread, or one step of that thread's control between transactions.  The *)
(* thread handles one message at a time, so no put interleaves with a walk;*)
(* what does interleave is a crash, a shutdown or a store error at every   *)
(* commit boundary, after which only the tables survive and the startup    *)
(* recovery replays the *_pending records.                                 *)
(*                                                                         *)
(* Events are their ids, a set of naturals (NIP-01 breaks timestamp ties   *)
(* by the lower id); Ev gives what the store reads of an event.            *)
(***************************************************************************)
EXTENDS Integers, FiniteSets

CONSTANTS
    Event,            \* ids of the events that may be published
    Pubkey,           \* authors, delegators, recipients
    Address,          \* replaceable (kind, author, d) addresses
    Group,            \* NIP-29 group ids
    Ev,               \* what each event carries, a record per id
    Owner,            \* the pubkey named by each address
    None,             \* no address, group, delegator, requester or event
    Anyone,           \* the deleter of an unconditional tombstone
    DeletionRequests, \* NIP-09 (kind 5) and NIP-29 (kind 9005) deletions
    VanishRequests,   \* NIP-62 requests: who, until
    ListedEvents,     \* ids the operator bans or allows (NIP-86)
    PurgeBounds,      \* `until` bounds of group purges (Forever: live)
    Chunk,            \* REMOVAL_CHUNK
    ScopedMax,        \* SCOPED_TOMBSTONE_MAX
    MarkerMax,        \* MAX_EVENT_MARKERS
    ExpiryEnabled,    \* the NIP-40 toggle
    Forever,          \* u64::MAX
    MaxTime,          \* bound: the clock stops here
    MaxCounter,       \* u64::MAX of the generation counters
    MaxFaults         \* bound: crashes and failed walks

Kind == {"note", "deletion", "wrap", "ephemeralWrap", "ephemeral", "replaceable",
         "create", "moderation", "metadata", "role"}

DeletionRequest ==
    [by : Pubkey \cup {None}, created : Nat, targets : SUBSET Event,
     addrs : SUBSET Address, group : Group \cup {None}, wraps : BOOLEAN]

EventRecord ==
    [author : Pubkey, kind : Kind, created : Nat, expiry : Nat,
     addr : Address \cup {None}, group : Group \cup {None},
     delegator : Pubkey \cup {None}, to : SUBSET Pubkey]

ASSUME IdsAreNaturals == Event \subseteq Nat
ASSUME NoneIsFresh == None \notin Event \cup Pubkey \cup Address \cup Group
ASSUME AnyoneIsFresh == Anyone \notin Pubkey
ASSUME EvType == Ev \in [Event -> EventRecord]
ASSUME OwnerType == Owner \in [Address -> Pubkey]
ASSUME OwnerIsAuthor ==
    \A e \in Event : Ev[e].addr # None => Owner[Ev[e].addr] = Ev[e].author
\* An address names the kind of every version stored at it.
ASSUME OneKindPerAddress ==
    \A e, f \in Event : Ev[e].addr # None /\ Ev[e].addr = Ev[f].addr => Ev[e].kind = Ev[f].kind
ASSUME RequestsType == DeletionRequests \subseteq DeletionRequest
ASSUME VanishType == VanishRequests \subseteq [who : Pubkey, until : Nat]
ASSUME BoundsType ==
    /\ ExpiryEnabled \in BOOLEAN
    /\ {Chunk, ScopedMax, MarkerMax} \subseteq Nat \ {0}
    /\ {MaxTime, MaxCounter, MaxFaults} \subseteq Nat
    /\ Forever \in Nat /\ MaxTime < Forever
    /\ PurgeBounds \subseteq Nat
    /\ ListedEvents \subseteq Event
    /\ \A e \in Event : Ev[e].created < Forever

VARIABLES
    now,          \* the relay's clock
    events,       \* table events
    byPubkey,     \* table by_pubkey: <<pubkey, id>>
    byRecipient,  \* the GIFT_WRAP_INDEX namespace of by_tag: <<pubkey, id>>
    slot,         \* table replaceable: the version an address holds
    deleted,      \* table deleted, event keys: the deleters of a marker
    addrCut,      \* table deleted, address keys: the cut, -1 when absent
    banned, allowed,
    vanish,       \* completed vanish bound per pubkey, -1 when absent
    vanishPending,
    delPending,   \* table delete_pending: recorded requests
    purged,       \* table purged_groups: purge time, cut, purged create
    purgePending, \* table purge_pending: the same, with the walk's bound
    stamp,        \* STATE_STAMP_KEY
    seq,          \* STATE_SEQ_GROUP_KEY and STATE_SEQ_ROLE_KEY
    walk,         \* volatile: the removal walk the writer is inside of
    boot,         \* volatile: how far the startup recovery has come
    resumeV, resumeD, \* volatile: records the recovery has still to replay
    faults,       \* crashes and failed walks so far
    honoured,     \* history: deletion requests whose walk completed
    purgedEver    \* history: events some group purge removed

eventVars   == <<events, byPubkey, byRecipient, slot>>
markerVars  == <<deleted, addrCut>>
listVars    == <<banned, allowed>>
vanishVars  == <<vanish, vanishPending>>
purgeVars   == <<purged, purgePending, purgedEver>>
counterVars == <<stamp, seq>>
bootVars    == <<boot, resumeV, resumeD>>
deleteVars  == <<delPending, honoured>>
vars == <<now, eventVars, markerVars, listVars, vanishVars, deleteVars, purgeVars,
          counterVars, walk, bootVars, faults>>

-----------------------------------------------------------------------------
(* What the store reads of an event.                                       *)

GiftWrapKinds == {"wrap", "ephemeralWrap"}

\* state_kind_family: the derived state an event of this kind feeds.
Family(e) == IF Ev[e].kind \in {"create", "moderation"} THEN "Group"
             ELSE IF Ev[e].kind = "role" THEN "Role" ELSE "none"

\* gift_wrap_recipients: only stored wraps (kind 1059) are indexed.
IndexedRecipients(e) == IF Ev[e].kind = "wrap" THEN Ev[e].to ELSE {}

\* The pubkeys whose feed an event belongs to: its author and its delegator.
Feeds(e) == {Ev[e].author} \cup ({Ev[e].delegator} \ {None})

\* Index keys end in created_at || id: the order of every range walk.
Before(e, f) ==
    Ev[e].created < Ev[f].created \/ (Ev[e].created = Ev[f].created /\ e < f)

\* removal_chunk: the first REMOVAL_CHUNK entries of a range.
FirstChunk(S) == {e \in S : Cardinality({f \in S : Before(f, e)}) < Chunk}

MaxOf(x, y) == IF x >= y THEN x ELSE y

-----------------------------------------------------------------------------
(* Admission: put_event_in.                                                *)

\* Mutant: the completed marker is not consulted.
VanishedOrPendingMutant(p) == vanishPending[p] # -1

VanishedOrPending(p) == vanish[p] # -1 \/ vanishPending[p] # -1

DeletionMarkerBlocks(e) ==
    \/ Anyone \in deleted[e]
    \/ Ev[e].author \in deleted[e]
    \/ Ev[e].kind \in GiftWrapKinds /\ Ev[e].to \cap deleted[e] # {}

PurgedGroupsBlocks(e) ==
    LET m == purged[Ev[e].group]
    IN  /\ Ev[e].group # None
        /\ \/ Ev[e].kind = "create" /\ (Ev[e].created < m.now \/ e = m.create)
           \/ Ev[e].kind = "metadata" /\ Ev[e].created < m.now
           \/ Ev[e].kind \notin {"create", "metadata"} /\ Ev[e].created <= m.cut

\* NIP-01: the newer version wins, and on equal timestamps the lower id.
Newer(e, old) ==
    Ev[e].created > Ev[old].created \/ (Ev[e].created = Ev[old].created /\ e < old)

Blocked(e) ==
    \/ \E p \in Feeds(e) : VanishedOrPending(p)
    \/ Ev[e].kind \in GiftWrapKinds /\ \E p \in Ev[e].to : VanishedOrPending(p)
    \/ e \in banned
    \/ Ev[e].kind # "deletion" /\ DeletionMarkerBlocks(e)
    \/ PurgedGroupsBlocks(e)

\* Whether the put stores the event (outcome Stored or Replaced).
Admitted(e) ==
    /\ ~Blocked(e)
    /\ Ev[e].kind \notin {"ephemeral", "ephemeralWrap"}
    /\ ExpiryEnabled => Ev[e].expiry > now
    /\ IF Ev[e].addr = None
       THEN e \notin events
       ELSE /\ Ev[e].created > addrCut[Ev[e].addr]
            /\ slot[Ev[e].addr] # None => Newer(e, slot[Ev[e].addr])

\* bump_meta_counter: a saturating increment.
Inc(n) == IF n < MaxCounter THEN n + 1 ELSE n

\* put_event_in past its checks: the replaced version leaves with all its
\* index entries, the slot moves, the event and its entries are written and
\* the sequence of the state family advances, in one transaction.
StoreEvent(e) ==
    LET a   == Ev[e].addr
        old == IF a = None \/ slot[a] = None THEN {} ELSE {slot[a]}
    IN  /\ events' = (events \ old) \cup {e}
        /\ byPubkey' = {x \in byPubkey : x[2] \notin old} \cup (Feeds(e) \X {e})
        /\ byRecipient' = {x \in byRecipient : x[2] \notin old}
                            \cup (IndexedRecipients(e) \X {e})
        /\ slot' = [b \in Address |-> IF b = a THEN e ELSE slot[b]]
        /\ seq' = [f \in {"Group", "Role"} |->
                     IF f = Family(e) THEN Inc(seq[f]) ELSE seq[f]]

Idle == [op |-> "idle"]

\* The writer takes the next message: recovery is over and no walk runs.
Serving == boot = "up" /\ walk = Idle

Put(e) ==
    /\ Serving
    /\ Admitted(e)
    /\ StoreEvent(e)
    /\ UNCHANGED <<now, markerVars, listVars, vanishVars, deleteVars, purgeVars,
                   stamp, walk, bootVars, faults>>

-----------------------------------------------------------------------------
(* Removal primitives.                                                     *)

\* Mutant: the recipient index keeps the entries of removed gift wraps.
RemoveMutantRecipients(R, dropped) ==
    /\ events' = events \ R
    /\ byPubkey' = {x \in byPubkey : x[2] \notin R} \ dropped
    /\ slot' = [a \in Address |-> IF slot[a] \in R THEN None ELSE slot[a]]
    /\ UNCHANGED byRecipient

\* remove_event for every id of R: the event, its index entries and the slot
\* it owns go in one transaction; `dropped` are by_pubkey entries that go
\* without their event.
Remove(R, dropped) ==
    /\ events' = events \ R
    /\ byPubkey' = {x \in byPubkey : x[2] \notin R} \ dropped
    /\ byRecipient' = {x \in byRecipient : x[2] \notin R}
    /\ slot' = [a \in Address |-> IF slot[a] \in R THEN None ELSE slot[a]]

\* Mutant: only removed group state moves the generation.
BumpForMutantGroup(R) ==
    /\ stamp' = IF \E e \in R : Family(e) = "Group" THEN Inc(stamp) ELSE stamp
    /\ seq' = IF \E e \in R : Family(e) = "Group"
              THEN [seq EXCEPT !["Group"] = Inc(@)] ELSE seq

\* StateRemoved::observe over a chunk, then bump_state_stamp and, when group
\* state went, bump_state_seq(Group), in the same transaction.
BumpFor(R) ==
    /\ stamp' = IF \E e \in R : Family(e) # "none" THEN Inc(stamp) ELSE stamp
    /\ seq' = IF \E e \in R : Family(e) = "Group"
              THEN [seq EXCEPT !["Group"] = Inc(@)] ELSE seq

\* Mutant: the list of deleters is full one entry early.
ExtendMarkerMutant(m, p) ==
    IF m \cap {Anyone, p} # {} \/ Cardinality(m) + 1 >= ScopedMax THEN m ELSE m \cup {p}

\* extend_absent_deletion_marker: an unconditional marker stays, a full
\* scoped one drops the extra deleter.
ExtendMarker(m, p) ==
    IF m \cap {Anyone, p} # {} \/ Cardinality(m) >= ScopedMax THEN m ELSE m \cup {p}

-----------------------------------------------------------------------------
(* NIP-09 / NIP-29 9005 deletion: apply_deletion_walk.                     *)

HasWork(r) == r.targets # {} \/ r.addrs # {} \/ r.wraps

\* Without a requester and without a group nothing may be removed.
Scoped(r) == r.by # None \/ r.group # None

DeleteWalk(r, stage, todo) ==
    [op |-> "delete", stage |-> stage, req |-> r, todo |-> todo]

TargetsOrAddrs(todo) == IF todo = {} THEN "addrs" ELSE "targets"

\* put_pending_deletion: the request is on disk before the first removal.
BeginDeletion(r) ==
    /\ Scoped(r) /\ HasWork(r)
    /\ delPending' = delPending \cup {r}
    /\ walk' = DeleteWalk(r, TargetsOrAddrs(r.targets), r.targets)

StartDeletion(r) ==
    /\ Serving
    /\ BeginDeletion(r)
    /\ UNCHANGED <<now, eventVars, markerVars, listVars, vanishVars, honoured,
                   purgeVars, counterVars, bootVars, faults>>

\* The ownership and group checks on a stored `e` target.
MayDelete(r, e) ==
    /\ Ev[e].kind # "deletion"
    /\ r.by # None => r.by \in Feeds(e)
    /\ r.group # None => Ev[e].group = r.group /\ Ev[e].kind # "metadata"

\* One chunk of `e` targets: held ones the requester may delete get an
\* unconditional tombstone and go; absent ones get a block scoped to the
\* requester, except for group moderation.
DeleteTargets(C) ==
    /\ walk.op = "delete" /\ walk.stage = "targets"
    /\ C \subseteq walk.todo /\ C # {}
    /\ Cardinality(C) = Chunk \/ (Cardinality(C) < Chunk /\ C = walk.todo)
    /\ LET r    == walk.req
           gone == {e \in C \cap events : MayDelete(r, e)}
           mark == IF r.group = None THEN C \ events ELSE {}
       IN  /\ deleted' = [e \in Event |->
                            IF e \in gone THEN {Anyone}
                            ELSE IF e \in mark THEN ExtendMarker(deleted[e], r.by)
                            ELSE deleted[e]]
           /\ Remove(gone, {})
           /\ BumpFor(gone)
           /\ walk' = DeleteWalk(r, TargetsOrAddrs(walk.todo \ C), walk.todo \ C)
    /\ UNCHANGED <<now, addrCut, listVars, vanishVars, deleteVars, purgeVars,
                   bootVars, faults>>

\* The one transaction of the `a` targets, skipped for a group-scoped request.
\* The author's tombstone is unconditional; a delegator's is written only
\* with the delegated version it removes.
DeleteAddresses ==
    /\ walk.op = "delete" /\ walk.stage = "addrs"
    /\ LET r     == walk.req
           addrs == IF r.group = None THEN r.addrs ELSE {}
           owned == {a \in addrs : Owner[a] = r.by}
           hit   == {a \in addrs :
                       /\ slot[a] # None
                       /\ Ev[slot[a]].created <= r.created
                       /\ a \in owned \/ Ev[slot[a]].delegator = r.by}
           gone  == {slot[a] : a \in hit}
       IN  /\ addrCut' = [a \in Address |-> IF a \in owned \cup hit
                                            THEN MaxOf(addrCut[a], r.created)
                                            ELSE addrCut[a]]
           /\ deleted' = [e \in Event |-> IF e \in gone THEN {Anyone} ELSE deleted[e]]
           /\ Remove(gone, {})
           /\ BumpFor(gone)
           /\ walk' = DeleteWalk(r, IF r.wraps /\ r.by # None THEN "wraps" ELSE "clear", {})
    /\ UNCHANGED <<now, listVars, vanishVars, deleteVars, purgeVars, bootVars, faults>>

\* The recipient-index entries of p up to `until` that a wrap walk has left.
WrapsLeft(p, until) ==
    {e \in Event : <<p, e>> \in byRecipient /\ Ev[e].created <= until}

\* remove_gift_wraps_for, one chunk: each wrap gets a block scoped to its
\* recipient and goes.
WrapChunk(p, until) ==
    LET gone == FirstChunk(WrapsLeft(p, until))
    IN  /\ gone # {}
        /\ deleted' = [e \in Event |-> IF e \in gone THEN ExtendMarker(deleted[e], p)
                                       ELSE deleted[e]]
        /\ Remove(gone, {})

DeleteWraps ==
    /\ walk.op = "delete" /\ walk.stage = "wraps"
    /\ WrapChunk(walk.req.by, Forever)
    /\ UNCHANGED <<now, addrCut, listVars, vanishVars, deleteVars, purgeVars,
                   counterVars, walk, bootVars, faults>>

DeleteWrapsDone ==
    /\ walk.op = "delete" /\ walk.stage = "wraps"
    /\ WrapsLeft(walk.req.by, Forever) = {}
    /\ walk' = DeleteWalk(walk.req, "clear", {})
    /\ UNCHANGED <<now, eventVars, markerVars, listVars, vanishVars, deleteVars,
                   purgeVars, counterVars, bootVars, faults>>

\* clear_pending_deletion: every chunk committed.
FinishDeletion ==
    /\ walk.op = "delete" /\ walk.stage = "clear"
    /\ delPending' = delPending \ {walk.req}
    /\ honoured' = honoured \cup {walk.req}
    /\ walk' = Idle
    /\ UNCHANGED <<now, eventVars, markerVars, listVars, vanishVars, purgeVars,
                   counterVars, bootVars, faults>>

-----------------------------------------------------------------------------
(* NIP-62 vanish: apply_vanish and finish_vanish.                          *)

VanishWalk(p, stage) == [op |-> "vanish", stage |-> stage, who |-> p]

\* record_pending_vanish keeps the furthest bound; a request the completed
\* marker covers is a replay and does nothing.
StartVanish(p, until) ==
    /\ Serving
    /\ vanish[p] < until
    /\ vanishPending' = [vanishPending EXCEPT ![p] = MaxOf(@, until)]
    /\ walk' = VanishWalk(p, "authored")
    /\ UNCHANGED <<now, eventVars, markerVars, listVars, vanish, deleteVars,
                   purgeVars, counterVars, bootVars, faults>>

FeedLeft(p, until) ==
    {e \in Event : <<p, e>> \in byPubkey /\ Ev[e].created <= until}

\* One chunk of the author's range: authored events go; an event published
\* for p by a delegatee stays and only leaves p's feed.
VanishAuthored ==
    /\ walk.op = "vanish" /\ walk.stage = "authored"
    /\ LET p     == walk.who
           chunk == FirstChunk(FeedLeft(p, vanishPending[p]))
           gone  == {e \in chunk : Ev[e].author = p}
       IN  /\ chunk # {}
           /\ Remove(gone, {p} \X (chunk \ gone))
           /\ BumpFor(gone)
    /\ UNCHANGED <<now, markerVars, listVars, vanishVars, deleteVars, purgeVars,
                   walk, bootVars, faults>>

VanishAuthoredDone ==
    /\ walk.op = "vanish" /\ walk.stage = "authored"
    /\ FeedLeft(walk.who, vanishPending[walk.who]) = {}
    /\ walk' = VanishWalk(walk.who, "wraps")
    /\ UNCHANGED <<now, eventVars, markerVars, listVars, vanishVars, deleteVars,
                   purgeVars, counterVars, bootVars, faults>>

VanishWraps ==
    /\ walk.op = "vanish" /\ walk.stage = "wraps"
    /\ WrapChunk(walk.who, vanishPending[walk.who])
    /\ UNCHANGED <<now, addrCut, listVars, vanishVars, deleteVars, purgeVars,
                   counterVars, walk, bootVars, faults>>

\* The completed marker and the cleared record commit together.
FinishVanish ==
    /\ walk.op = "vanish" /\ walk.stage = "wraps"
    /\ LET p == walk.who
       IN  /\ WrapsLeft(p, vanishPending[p]) = {}
           /\ vanish' = [vanish EXCEPT ![p] = MaxOf(@, vanishPending[p])]
           /\ vanishPending' = [vanishPending EXCEPT ![p] = -1]
    /\ walk' = Idle
    /\ UNCHANGED <<now, eventVars, markerVars, listVars, deleteVars, purgeVars,
                   counterVars, bootVars, faults>>

-----------------------------------------------------------------------------
(* NIP-29 group purge: purge_group_until.                                  *)

NoPurge   == [now |-> -1, cut |-> -1, create |-> None]
NoPending == [now |-> -1, cut |-> -1, create |-> None, until |-> -1]

Pending(g) == purgePending[g] # NoPending

PurgeWalk(g, stage) == [op |-> "purge", stage |-> stage, grp |-> g]

\* Mutant: the interrupted walk's cut is not merged.
BeginPurgeMutantCut(g, at, until) ==
    LET m      == purged[g]
        p      == purgePending[g]
        merged == [now    |-> MaxOf(m.now, at),
                   cut    |-> MaxOf(m.cut, at),
                   create |-> IF p.create # None THEN p.create ELSE m.create]
    IN  /\ purged' = [purged EXCEPT ![g] = merged]
        /\ purgePending' = [purgePending EXCEPT ![g] =
                              [now |-> merged.now, cut |-> merged.cut,
                               create |-> merged.create, until |-> MaxOf(p.until, until)]]
        /\ walk' = PurgeWalk(g, "history")

\* The first transaction merges the marker and an interrupted purge's record:
\* furthest purge time, furthest cut, widest bound, and the create found so far.
BeginPurge(g, at, until) ==
    LET m      == purged[g]
        p      == purgePending[g]
        merged == [now    |-> MaxOf(m.now, at),
                   cut    |-> MaxOf(MaxOf(m.cut, p.cut), at),
                   create |-> IF p.create # None THEN p.create ELSE m.create]
    IN  /\ purged' = [purged EXCEPT ![g] = merged]
        /\ purgePending' = [purgePending EXCEPT ![g] =
                              [now |-> merged.now, cut |-> merged.cut,
                               create |-> merged.create, until |-> MaxOf(p.until, until)]]
        /\ walk' = PurgeWalk(g, "history")

\* A live kind 9008 purges everything at the relay's clock; a migrated one
\* purges up to its own timestamp, which is also its purge time.
StartPurge(g, until) ==
    /\ Serving
    /\ BeginPurge(g, IF until = Forever THEN now ELSE until, until)
    /\ UNCHANGED <<now, eventVars, markerVars, listVars, vanishVars, deleteVars,
                   purgedEver, counterVars, bootVars, faults>>

\* The relay re-runs a recorded purge once the store serves again.
ResumePurge(g) ==
    /\ Serving
    /\ Pending(g)
    /\ BeginPurge(g, purgePending[g].now, purgePending[g].until)
    /\ UNCHANGED <<now, eventVars, markerVars, listVars, vanishVars, deleteVars,
                   purgedEver, counterVars, bootVars, faults>>

\* The `h` range holds history, the `d` range (metadata kinds only) the
\* relay-generated metadata.
PurgeLeft(g, stage) ==
    {e \in events : /\ Ev[e].group = g
                    /\ Ev[e].created <= purgePending[g].until
                    /\ (Ev[e].kind = "metadata") = (stage = "metadata")}

Latest(e, S) == e \in S /\ \A f \in S : f = e \/ Before(f, e)

\* The record of a chunk that removed an event created at t.
Raised(p, t, c) ==
    [now |-> p.now, cut |-> MaxOf(p.cut, t), create |-> c, until |-> p.until]

\* One chunk: the raised cut and the purged create are recorded with the
\* removal that produced them; the marker and the stamp wait for the end.
PurgeChunk ==
    /\ walk.op = "purge"
    /\ LET g       == walk.grp
           gone    == FirstChunk(PurgeLeft(g, walk.stage))
           creates == {e \in gone : Ev[e].kind = "create"}
       IN  /\ Remove(gone, {})
           /\ purgedEver' = purgedEver \cup gone
           /\ \E last \in gone, c \in creates \cup {purgePending[g].create} :
                /\ Latest(last, gone)
                /\ creates # {} => Latest(c, creates)
                /\ purgePending' = [purgePending EXCEPT
                                      ![g] = Raised(purgePending[g], Ev[last].created, c)]
    /\ UNCHANGED <<now, markerVars, listVars, vanishVars, deleteVars, purged,
                   counterVars, walk, bootVars, faults>>

PurgeHistoryDone ==
    /\ walk.op = "purge" /\ walk.stage = "history"
    /\ PurgeLeft(walk.grp, "history") = {}
    /\ walk' = PurgeWalk(walk.grp, "metadata")
    /\ UNCHANGED <<now, eventVars, markerVars, listVars, vanishVars, deleteVars,
                   purgeVars, counterVars, bootVars, faults>>

\* The completion transaction: marker, cleared record and generation together.
FinishPurge ==
    /\ walk.op = "purge" /\ walk.stage = "metadata"
    /\ LET g == walk.grp
           m == purged[g]
           p == purgePending[g]
       IN  /\ PurgeLeft(g, "metadata") = {}
           /\ purged' = [purged EXCEPT ![g] =
                [now    |-> MaxOf(p.now, m.now),
                 cut    |-> MaxOf(p.cut, m.cut),
                 create |-> IF p.create # None THEN p.create ELSE m.create]]
           /\ purgePending' = [purgePending EXCEPT ![g] = NoPending]
    /\ stamp' = Inc(stamp)
    /\ seq' = [seq EXCEPT !["Group"] = Inc(@)]
    /\ walk' = Idle
    /\ UNCHANGED <<now, eventVars, markerVars, listVars, vanishVars, deleteVars,
                   purgedEver, bootVars, faults>>

-----------------------------------------------------------------------------
(* NIP-40 expiry: purge_expired_walk.                                      *)

ExpiryWalk(t) == [op |-> "expire", at |-> t]

StartExpiry ==
    /\ Serving
    /\ ExpiryEnabled
    /\ walk' = ExpiryWalk(now)
    /\ UNCHANGED <<now, eventVars, markerVars, listVars, vanishVars, deleteVars,
                   purgeVars, counterVars, bootVars, faults>>

ExpiryLeft == {e \in events : Ev[e].expiry <= walk.at}

\* The expiry index is ordered by expiration || id.
ExpiresBefore(e, f) ==
    Ev[e].expiry < Ev[f].expiry \/ (Ev[e].expiry = Ev[f].expiry /\ e < f)

ExpiryChunk ==
    /\ walk.op = "expire"
    /\ LET gone == {e \in ExpiryLeft :
                      Cardinality({f \in ExpiryLeft : ExpiresBefore(f, e)}) < Chunk}
       IN  /\ gone # {}
           /\ Remove(gone, {})
           /\ BumpFor(gone)
    /\ UNCHANGED <<now, markerVars, listVars, vanishVars, deleteVars, purgeVars,
                   walk, bootVars, faults>>

FinishExpiry ==
    /\ walk.op = "expire"
    /\ ExpiryLeft = {}
    /\ walk' = Idle
    /\ UNCHANGED <<now, eventVars, markerVars, listVars, vanishVars, deleteVars,
                   purgeVars, counterVars, bootVars, faults>>

-----------------------------------------------------------------------------
(* NIP-86 event lists: apply_ban, apply_unban, apply_allow, apply_unallow. *)

\* ensure_event_marker_room
MarkerRoom(S, e) == e \in S \/ Cardinality(S) < MarkerMax

Ban(e) ==
    /\ Serving
    /\ MarkerRoom(banned, e)
    /\ banned' = banned \cup {e}
    /\ allowed' = allowed \ {e}
    /\ Remove({e} \cap events, {})
    /\ BumpFor({e} \cap events)
    /\ UNCHANGED <<now, markerVars, vanishVars, deleteVars, purgeVars, walk,
                   bootVars, faults>>

Unban(e) ==
    /\ Serving
    /\ banned' = banned \ {e}
    /\ UNCHANGED <<now, eventVars, markerVars, allowed, vanishVars, deleteVars,
                   purgeVars, counterVars, walk, bootVars, faults>>

Allow(e) ==
    /\ Serving
    /\ MarkerRoom(allowed, e)
    /\ allowed' = allowed \cup {e}
    /\ banned' = banned \ {e}
    /\ UNCHANGED <<now, eventVars, markerVars, vanishVars, deleteVars, purgeVars,
                   counterVars, walk, bootVars, faults>>

Unallow(e) ==
    /\ Serving
    /\ allowed' = allowed \ {e}
    /\ UNCHANGED <<now, eventVars, markerVars, banned, vanishVars, deleteVars,
                   purgeVars, counterVars, walk, bootVars, faults>>

-----------------------------------------------------------------------------
(* Failures and the startup recovery prelude of the writer thread.         *)

\* A full map, a full disk or a cancelled walk ends it at a chunk boundary:
\* committed chunks stay, and so does the pending record.
WalkFails ==
    /\ walk # Idle
    /\ faults < MaxFaults
    /\ faults' = faults + 1
    /\ walk' = Idle
    /\ UNCHANGED <<now, eventVars, markerVars, listVars, vanishVars, deleteVars,
                   purgeVars, counterVars, bootVars>>

\* The process stops anywhere; the next start reads the vanish records.
CrashAndRestart ==
    /\ faults < MaxFaults
    /\ faults' = faults + 1
    /\ walk' = Idle
    /\ boot' = "vanishes"
    /\ resumeV' = {p \in Pubkey : vanishPending[p] # -1}
    /\ resumeD' = {}
    /\ UNCHANGED <<now, eventVars, markerVars, listVars, vanishVars, deleteVars,
                   purgeVars, counterVars>>

\* resume_pending_vanishes: finish_vanish for every record.
ResumeVanish(p) ==
    /\ boot = "vanishes" /\ walk = Idle
    /\ p \in resumeV
    /\ resumeV' = resumeV \ {p}
    /\ walk' = VanishWalk(p, "authored")
    /\ UNCHANGED <<now, eventVars, markerVars, listVars, vanishVars, deleteVars,
                   purgeVars, counterVars, boot, resumeD, faults>>

\* Mutant: the recovery goes on without reading the deletion records.
VanishesResumedMutant ==
    /\ boot = "vanishes" /\ walk = Idle /\ resumeV = {}
    /\ boot' = "deletions"
    /\ resumeD' = {}
    /\ UNCHANGED <<now, eventVars, markerVars, listVars, vanishVars, deleteVars,
                   purgeVars, counterVars, walk, resumeV, faults>>

VanishesResumed ==
    /\ boot = "vanishes" /\ walk = Idle /\ resumeV = {}
    /\ boot' = "deletions"
    /\ resumeD' = delPending
    /\ UNCHANGED <<now, eventVars, markerVars, listVars, vanishVars, deleteVars,
                   purgeVars, counterVars, walk, resumeV, faults>>

\* resume_pending_deletions: the ordinary walk again for every record.
ResumeDeletion(r) ==
    /\ boot = "deletions" /\ walk = Idle
    /\ r \in resumeD
    /\ resumeD' = resumeD \ {r}
    /\ BeginDeletion(r)
    /\ UNCHANGED <<now, eventVars, markerVars, listVars, vanishVars, honoured,
                   purgeVars, counterVars, boot, resumeV, faults>>

\* The DbClient::open barrier is released and the drain loop starts.
RecoveryDone ==
    /\ boot = "deletions" /\ walk = Idle /\ resumeD = {}
    /\ boot' = "up"
    /\ UNCHANGED <<now, eventVars, markerVars, listVars, vanishVars, deleteVars,
                   purgeVars, counterVars, walk, resumeV, resumeD, faults>>

Tick ==
    /\ now < MaxTime
    /\ now' = now + 1
    /\ UNCHANGED <<eventVars, markerVars, listVars, vanishVars, deleteVars,
                   purgeVars, counterVars, walk, bootVars, faults>>

-----------------------------------------------------------------------------
Init ==
    /\ now = 0
    /\ events = {} /\ byPubkey = {} /\ byRecipient = {}
    /\ slot = [a \in Address |-> None]
    /\ deleted = [e \in Event |-> {}]
    /\ addrCut = [a \in Address |-> -1]
    /\ banned = {} /\ allowed = {}
    /\ vanish = [p \in Pubkey |-> -1]
    /\ vanishPending = [p \in Pubkey |-> -1]
    /\ delPending = {} /\ honoured = {}
    /\ purged = [g \in Group |-> NoPurge]
    /\ purgePending = [g \in Group |-> NoPending]
    /\ purgedEver = {}
    /\ stamp = 0 /\ seq = [f \in {"Group", "Role"} |-> 0]
    /\ walk = Idle
    /\ boot = "up" /\ resumeV = {} /\ resumeD = {}
    /\ faults = 0

\* The requests the writer serves between walks.
Request ==
    \/ \E e \in Event : Put(e)
    \/ \E e \in ListedEvents : Ban(e) \/ Unban(e) \/ Allow(e) \/ Unallow(e)
    \/ \E r \in DeletionRequests : StartDeletion(r)
    \/ \E v \in VanishRequests : StartVanish(v.who, v.until)
    \/ \E g \in Group, u \in PurgeBounds : StartPurge(g, u)
    \/ \E g \in Group : ResumePurge(g)
    \/ StartExpiry

\* The `e` targets the deletion walk has left.
TargetsLeft == IF walk.op = "delete" THEN walk.todo ELSE {}

WalkStep ==
    \/ \E C \in SUBSET TargetsLeft : DeleteTargets(C)
    \/ DeleteAddresses \/ DeleteWraps \/ DeleteWrapsDone \/ FinishDeletion
    \/ VanishAuthored \/ VanishAuthoredDone \/ VanishWraps \/ FinishVanish
    \/ PurgeChunk \/ PurgeHistoryDone \/ FinishPurge
    \/ ExpiryChunk \/ FinishExpiry

RecoveryStep ==
    \/ \E p \in Pubkey : ResumeVanish(p)
    \/ VanishesResumed
    \/ \E r \in DeletionRequests : ResumeDeletion(r)
    \/ RecoveryDone

Next == Request \/ WalkStep \/ RecoveryStep \/ WalkFails \/ CrashAndRestart \/ Tick

Spec == Init /\ [][Next]_vars

\* The writer thread runs: a walk it is inside of and a recovery it has begun
\* go on until the process stops.
FairSpec == Spec /\ WF_vars(WalkStep) /\ WF_vars(RecoveryStep)

-----------------------------------------------------------------------------
(* Properties.                                                             *)

Marker == [now : Int, cut : Int, create : Event \cup {None}]
PendingPurge == [now : Int, cut : Int, create : Event \cup {None}, until : Int]

Walk ==
    {Idle}
    \cup [op : {"delete"}, stage : {"targets", "addrs", "wraps", "clear"},
          req : {r \in DeletionRequests : Scoped(r)}, todo : SUBSET Event]
    \cup [op : {"vanish"}, stage : {"authored", "wraps"}, who : Pubkey]
    \cup [op : {"purge"}, stage : {"history", "metadata"}, grp : Group]
    \cup [op : {"expire"}, at : Nat]

\* Every table holds values of its kind, and the volatile state names only
\* records the store knows.
TypeOK ==
    /\ now \in Nat
    /\ events \subseteq Event
    /\ byPubkey \subseteq Pubkey \X Event
    /\ byRecipient \subseteq Pubkey \X Event
    /\ slot \in [Address -> Event \cup {None}]
    /\ deleted \in [Event -> SUBSET (Pubkey \cup {Anyone})]
    /\ addrCut \in [Address -> Int]
    /\ banned \subseteq Event /\ allowed \subseteq Event
    /\ vanish \in [Pubkey -> Int]
    /\ vanishPending \in [Pubkey -> Int]
    /\ delPending \subseteq DeletionRequests
    /\ honoured \subseteq DeletionRequests
    /\ purged \in [Group -> Marker]
    /\ purgePending \in [Group -> PendingPurge]
    /\ purgedEver \subseteq Event
    /\ stamp \in 0..MaxCounter
    /\ seq \in [{"Group", "Role"} -> 0..MaxCounter]
    /\ walk \in Walk
    /\ boot \in {"vanishes", "deletions", "up"}
    /\ resumeV \subseteq Pubkey
    /\ resumeD \subseteq DeletionRequests
    /\ faults \in 0..MaxFaults

\* put_event_in and remove_event keep one stored version per replaceable
\* address and the slot of the `replaceable` table naming exactly it, through
\* replacement, deletion, vanish, purge, expiry and ban: a slot left behind by
\* a removal would refuse every later version, a slot lost would admit two.
SlotNamesTheVersion ==
    \A a \in Address :
        \A e \in Event : (e \in events /\ Ev[e].addr = a) <=> slot[a] = e

\* put_indexes and remove_event keep the author and recipient ranges the
\* removal walks depend on exact: no entry outlives its event, no event is
\* outside its author's range, and a delegator's entry is missing only
\* because the delegator's vanish dropped it.
IndexesAgree ==
    /\ \A x \in byPubkey : x[2] \in events /\ x[1] \in Feeds(x[2])
    /\ \A e \in events :
          /\ <<Ev[e].author, e>> \in byPubkey
          /\ \A p \in Feeds(e) :
                <<p, e>> \in byPubkey \/ MaxOf(vanish[p], vanishPending[p]) >= Ev[e].created
    /\ \A p \in Pubkey, e \in Event :
          <<p, e>> \in byRecipient <=> e \in events /\ p \in IndexedRecipients(e)

\* The tables agree at every commit (put_event_in, remove_event): slots and
\* ranges name exactly the stored events, through every interrupted walk.
TablesAgree == SlotNamesTheVersion /\ IndexesAgree

\* The one case extend_absent_deletion_marker gives up: the scoped list of an
\* absent target was already full of other deleters.
MarkerFullOfOthers(e) ==
    Anyone \notin deleted[e] /\ Ev[e].author \notin deleted[e]
      /\ Cardinality(deleted[e]) >= ScopedMax

\* A NIP-09 request whose walk completed, before or after any crash, failure
\* or replay, stays in force: no target its author owned is stored and no
\* version of an address it owned up to its timestamp, whatever is published,
\* re-published, banned or purged afterwards.
DeletionHonoured ==
    \A r \in honoured : r.group = None =>
        /\ \A e \in r.targets \cap events :
              Ev[e].author = r.by /\ Ev[e].kind # "deletion" => MarkerFullOfOthers(e)
        /\ \A e \in events :
              Ev[e].addr \in r.addrs /\ Ev[e].author = r.by => Ev[e].created > r.created

\* A completed NIP-62 vanish stays in force: nothing the pubkey wrote up to
\* the bound is stored, no gift wrap addressed to it, and no delegated event
\* is back in its feed.
VanishHonoured ==
    \A p \in Pubkey :
        /\ \A e \in events : Ev[e].created <= vanish[p] =>
              Ev[e].author # p /\ p \notin IndexedRecipients(e)
        /\ \A e \in Event : Ev[e].created <= vanish[p] => <<p, e>> \notin byPubkey

\* Once a group purge has completed, the history it removed (future-dated
\* events included) never re-enters, so a re-created group cannot expose it;
\* creates and relay metadata have their own rule.
PurgedHistoryStaysOut ==
    \A e \in purgedEver \cap events :
        Ev[e].kind \in {"create", "metadata"} \/ Pending(Ev[e].group)

\* "The purged create itself must stay blocked even at the purge second (a
\* re-import would otherwise resurrect it)": purged_groups_blocks.
PurgedCreateStaysOut ==
    \A e \in purgedEver \cap events :
        Ev[e].kind = "create" => Pending(Ev[e].group)

\* The counters a removed event of family f is noticed by have moved, unless
\* they are at the end of their width.
StampMoved(f) ==
    /\ stamp' # stamp \/ stamp = MaxCounter
    /\ f = "Group" => seq'["Group"] # seq["Group"] \/ seq["Group"] = MaxCounter

SeqMoved(f) == seq'[f] # seq[f] \/ seq[f] = MaxCounter

ReplacedBy(e) == \E n \in events' \ events : Ev[n].addr = Ev[e].addr /\ Ev[e].addr # None

PurgeRecorded(e) == Ev[e].group # None /\ purgePending'[Ev[e].group] # NoPending

RemovalNoticed ==
    \A e \in events \ events' : Family(e) # "none" =>
        \/ StampMoved(Family(e))
        \/ ReplacedBy(e) /\ SeqMoved(Family(e))
        \/ PurgeRecorded(e)

\* A commit that takes derived state away moves the generation a snapshot is
\* checked against: the stamp, and the group sequence for group state; or,
\* for a replaced version, the sequence of its family.  Only a purge defers
\* it, to its completion, and stays recorded as pending until then.
GenerationMovesWithRemoval == [][RemovalNoticed]_vars

\* The startup recovery has read the vanish records and done nothing yet.
JustRestarted ==
    boot = "vanishes" /\ walk = Idle /\ resumeV = {p \in Pubkey : vanishPending[p] # -1}

\* A restart that no further fault hits ends with the relay serving and every
\* interrupted vanish and deletion finished, whatever the crash left.
RecoveryFinishesTheWork ==
    (JustRestarted /\ faults = MaxFaults) ~>
        (boot = "up" /\ delPending = {} /\ \A p \in Pubkey : vanishPending[p] = -1)

=============================================================================
