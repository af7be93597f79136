------------------------------ MODULE GroupStore ------------------------------
(***************************************************************************)
(* The NIP-29 group store (nips/nip29/mod.rs, nips/nip29/events.rs), the    *)
(* way group events reach it (apply_group_event, relay/mod.rs) and the DM    *)
(* channels (relay/dm.rs).  An event is validated, stored and only then       *)
(* applied, so other events run between the steps; the store can always be    *)
(* rebuilt from the stored events.                                            *)
(***************************************************************************)
EXTENDS Naturals, Sequences, FiniteSets, SequencesExt, FiniteSetsExt, TLC

CONSTANTS
    Keys, Gids,
    Relay,       \* the relay's own key
    MaxGroups, MaxMembers, MaxTotal,
    GroupMenus,  \* bound: [ops, faults]: the events each client sends, in order, and what may fail
    Seconds,     \* bound on the clock
    Nil

VARIABLES
    gs,      \* the GroupStore: [groups, deleted, ghost, total, declared, stale]
    log,     \* the stored group events, in order of arrival
    cut,     \* per group: the purge cut of the database
    stamp,   \* StampClock
    now,     \* the wall clock
    task,    \* per client: the event in hand
    sent,    \* per client: events taken from the menu
    erased,  \* keys that vanished
    gmenu

groupVars == <<gs, log, cut, stamp, now, task, sent, erased, gmenu>>

GFault(f) == {FALSE} \union (IF f \in gmenu.faults THEN {TRUE} ELSE {})
Senders == DOMAIN gmenu.ops

\* A group event: what it is, its group, author, subject and role, and what an edit declares.
Event(t, g, by) ==
    [t |-> t, g |-> g, by |-> by, who |-> Nil, role |-> "member", code |-> Nil, closed |-> FALSE,
     restricted |-> FALSE, parent |-> Nil, kids |-> {}, at |-> 0, arr |-> 0, epoch |-> Nil, mirror |-> FALSE]
Moderation == {"put", "remove", "edit", "delete", "invite"}
-----------------------------------------------------------------------------
(* The store *)

Groups == {g \in Gids : gs.groups[g] # Nil}
Live(s) == {g \in Gids : s.groups[g] # Nil}
MembersOf(grp) == {k \in Keys : grp.members[k] # Nil}
IsAdmin(grp, k) == k \in Keys /\ grp.members[k] = "admin"
HasAdmin(grp) == \E k \in Keys : grp.members[k] = "admin"
TotalOf(s) == FoldSet(LAMBDA g, n : n + Cardinality(MembersOf(s.groups[g])), 0, Live(s))
AtCapacity(s) == Cardinality(Live(s)) >= MaxGroups
AtMemberCapacity(s, n) == s.total + n > MaxTotal

\* apply_settings: a full edit resets what it does not name.
Settings(grp, e) == [grp EXCEPT !.closed = e.closed, !.restricted = e.restricted]

\* The parent of node once the edit e of group g is applied (validate_edit_metadata).
Upcoming(s, e, node) ==
    IF node = e.g THEN e.parent
    ELSE IF node \in e.kids THEN e.g
    ELSE IF s.groups[node] = Nil THEN Nil ELSE s.groups[node].parent
Cyclic(s, e) ==
    LET n == Cardinality(Gids)
        climbs(start) ==
            LET walk[i \in 0..n] ==
                  IF i = 0 THEN start ELSE IF walk[i - 1] = Nil THEN Nil ELSE Upcoming(s, e, walk[i - 1])
            IN  walk[n] # Nil
        below(start) ==
            LET set[i \in 0..n] == IF i = 0 THEN {start}
                  ELSE set[i - 1] \union UNION {IF s.groups[x] = Nil THEN {} ELSE s.groups[x].kids : x \in set[i - 1]}
            IN  set[n]
    IN  \/ e.g \in e.kids \/ (e.parent # Nil /\ e.parent \in e.kids)
        \/ \E x \in {e.g} \union e.kids \union ({e.parent} \ {Nil}) : climbs(x)
        \/ \E c \in e.kids : e.g \in below(c)

\* Links the author has no right to: the whole edit is refused live, dropped one by one in a replay.
DeniedParent(s, e) ==
    /\ e.parent # Nil
    /\ s.groups[e.parent] = Nil \/ (e.by # Relay /\ ~IsAdmin(s.groups[e.parent], e.by))
DeniedKids(s, e) ==
    {c \in e.kids : s.groups[c] # Nil /\ s.groups[c].parent # e.g /\ e.by # Relay /\ ~IsAdmin(s.groups[c], e.by)}
ValidEdit(s, e) ==
    /\ ~Cyclic(s, e) /\ ~DeniedParent(s, e) /\ DeniedKids(s, e) = {}
    /\ s.groups[e.g].kids \subseteq e.kids

\* The group keeps an admin: what the members are after a put or a removal.
AfterPut(grp, e) == [grp EXCEPT !.members[e.who] = e.role]
AfterRemove(grp, e) == [grp EXCEPT !.members[e.who] = Nil]
Retains(grp, after) == HasAdmin(grp) => HasAdmin(after)

\* validate_write_inner
ValidCreate(s, e) == e.g \notin s.ghost \union s.stale /\ ~AtCapacity(s) /\ ~AtMemberCapacity(s, 1)
ValidJoin(s, grp, e) ==
    /\ grp.members[e.by] = Nil /\ Cardinality(MembersOf(grp)) < MaxMembers /\ ~AtMemberCapacity(s, 1)
    /\ grp.closed => e.code \in grp.invites
ValidModeration(s, grp, e) ==
    /\ e.by = Relay \/ IsAdmin(grp, e.by)
    /\ e.t = "edit" => ValidEdit(s, e)
    /\ e.t = "put" => /\ Retains(grp, AfterPut(grp, e))
                      /\ grp.members[e.who] = Nil =>
                            Cardinality(MembersOf(grp)) < MaxMembers /\ ~AtMemberCapacity(s, 1)
    /\ e.t = "remove" => Retains(grp, AfterRemove(grp, e))
Valid(s, e) ==
    LET grp == s.groups[e.g]
    IN  IF grp = Nil THEN e.t = "create" /\ ValidCreate(s, e)
        ELSE /\ e.g \notin s.ghost \union s.stale /\ (e.t = "create" \/ e.at >= grp.at)
             /\ CASE e.t = "join" -> ValidJoin(s, grp, e)
                  [] e.t \in Moderation -> ValidModeration(s, grp, e)
                  [] e.t = "post" -> grp.restricted => grp.members[e.by] \in {"admin", "member"}
                  [] OTHER -> TRUE

\* capacity_rejection, repeated when the event is applied.
OverCapacity(s, e) ==
    \/ e.t = "create" /\ (AtCapacity(s) \/ AtMemberCapacity(s, 1))
    \/ /\ e.t \in {"join", "put"} /\ s.groups[e.g] # Nil
       /\ LET who == IF e.t = "join" THEN e.by ELSE e.who
          IN  s.groups[e.g].members[who] = Nil
              /\ (Cardinality(MembersOf(s.groups[e.g])) >= MaxMembers \/ AtMemberCapacity(s, 1))

-----------------------------------------------------------------------------
(* apply_with_epoch *)

WithMembers(s, g, grp) ==
    [s EXCEPT !.groups[g] = grp,
              !.total = @ + Cardinality(MembersOf(grp)) - Cardinality(MembersOf(s.groups[g]))]
Room(s, grp) == Cardinality(MembersOf(grp)) < MaxMembers /\ s.total < MaxTotal

ApplyJoin(s, e) ==
    LET grp == s.groups[e.g]
    IN  IF grp.members[e.by] = Nil /\ Room(s, grp) /\ (grp.closed => e.code \in grp.invites)
        THEN WithMembers(s, e.g, [grp EXCEPT !.members[e.by] = grp.joinRole]) ELSE s
ApplyLeave(s, e) == WithMembers(s, e.g, [s.groups[e.g] EXCEPT !.members[e.by] = Nil, !.hiddenFor = @ \ {e.by}])
ApplyPut(s, e) ==
    LET grp == s.groups[e.g]
        fresh == grp.members[e.who] = Nil
    IN  IF (e.mirror /\ ~fresh) \/ ~Retains(grp, AfterPut(grp, e)) \/ (fresh /\ ~Room(s, grp)) THEN s
        ELSE WithMembers(s, e.g, AfterPut(grp, e))
ApplyRemove(s, e) ==
    LET grp == s.groups[e.g]
    IN  IF ~Retains(grp, AfterRemove(grp, e)) THEN s
        ELSE WithMembers(s, e.g, [AfterRemove(grp, e) EXCEPT !.hiddenFor = @ \ {e.who}])

Unlinked(groups, p, c) == IF p = Nil \/ groups[p] = Nil THEN groups ELSE [groups EXCEPT ![p].kids = @ \ {c}]
SetParent(groups, c, p) == IF groups[c] = Nil THEN groups ELSE [groups EXCEPT ![c].parent = p]

\* A new child leaves its old parent, a child that is not named any more is freed.
Adopt(groups, g, c) ==
    IF groups[c] # Nil /\ groups[c].parent = g THEN groups
    ELSE SetParent(Unlinked(groups, IF groups[c] = Nil THEN Nil ELSE groups[c].parent, c), c, g)
Free(groups, g, c) == IF groups[c] # Nil /\ groups[c].parent = g THEN SetParent(groups, c, Nil) ELSE groups
Reparent(groups, g, p) ==
    LET old == groups[g].parent
        left == Unlinked(groups, old, g)
    IN  IF p = old THEN groups
        ELSE IF p = Nil THEN SetParent(left, g, Nil)
        ELSE IF left[p] = Nil THEN left
        ELSE SetParent([left EXCEPT ![p].kids = @ \union {g}], g, p)
ApplyEdit(s, e, replay) ==
    LET grp == s.groups[e.g]
        kids == e.kids \ DeniedKids(s, e)
        keep == IF replay THEN kids \union grp.kids ELSE kids
        parent == IF DeniedParent(s, e) THEN grp.parent ELSE e.parent
        set == [s.groups EXCEPT ![e.g] = [Settings(grp, e) EXCEPT !.kids = keep]]
        adopted == FoldSet(LAMBDA c, m : Adopt(m, e.g, c), Reparent(set, e.g, parent), kids)
    IN  IF ~replay /\ ~ValidEdit(s, e) THEN s
        ELSE IF replay /\ Cyclic(s, e) THEN [s EXCEPT !.groups[e.g] = Settings(grp, e)]
        ELSE [s EXCEPT !.groups = FoldSet(LAMBDA c, m : Free(m, e.g, c), adopted, grp.kids \ keep),
                       !.declared = @ \union keep \union (IF e.parent # Nil /\ ~DeniedParent(s, e) THEN {e.g} ELSE {})]

\* A created group joins one parent that named it and whose admin created it; the others forget it.
NewGroup(s, e) ==
    LET parents == {p \in Live(s) : e.g \in s.groups[p].kids /\ (e.by = Relay \/ IsAdmin(s.groups[p], e.by))}
        adopter == IF e.g \in s.declared /\ parents # {} THEN CHOOSE p \in parents : TRUE ELSE Nil
    IN  [members |-> [k \in Keys |-> IF k = e.by THEN "admin" ELSE Nil], closed |-> FALSE, restricted |-> FALSE,
         joinRole |-> "member", parent |-> adopter, kids |-> {}, invites |-> {}, epoch |-> e.arr, at |-> e.at,
         dm |-> FALSE, hiddenFor |-> {}]
ApplyCreate(s, e, replay) ==
    LET grp == NewGroup(s, e)
        known == s.groups[e.g] # Nil \/ e.g \in s.ghost
        forget(p) == IF s.groups[p] # Nil /\ p # grp.parent
                     THEN [s.groups[p] EXCEPT !.kids = @ \ {e.g}] ELSE s.groups[p]
    IN  IF known \/ (~replay /\ ~ValidCreate(s, e)) THEN s
        ELSE [s EXCEPT !.groups = [p \in Gids |-> IF p = e.g THEN grp ELSE forget(p)],
                       !.deleted = @ \ {e.g}, !.total = @ + 1]

\* Mutant: a deleted group keeps its place in the hierarchy.
DeleteMutant(s, e) ==
    IF s.groups[e.g] = Nil THEN s
    ELSE [s EXCEPT !.groups = [s.groups EXCEPT ![e.g] = Nil], !.deleted = @ \union {e.g},
                   !.total = @ - Cardinality(MembersOf(s.groups[e.g]))]

ApplyDelete(s, e) ==
    LET grp == s.groups[e.g]
        freed == FoldSet(LAMBDA c, m : SetParent(m, c, Nil), s.groups, grp.kids)
        known == grp # Nil \/ e.g \in s.ghost \union s.deleted
    IN  IF grp = Nil THEN [s EXCEPT !.deleted = IF known THEN @ \union {e.g} ELSE @]
        ELSE [s EXCEPT !.groups = [Unlinked(freed, grp.parent, e.g) EXCEPT ![e.g] = Nil],
                       !.deleted = @ \union {e.g}, !.total = @ - Cardinality(MembersOf(grp))]

Apply(s, e, replay) ==
    IF e.t = "create" THEN ApplyCreate(s, e, replay)
    ELSE IF e.t = "delete" THEN ApplyDelete(s, e)
    ELSE IF s.groups[e.g] = Nil THEN s
    ELSE CASE e.t = "join" -> ApplyJoin(s, e)
           [] e.t = "leave" -> ApplyLeave(s, e)
           [] e.t = "put" -> ApplyPut(s, e)
           [] e.t = "remove" -> ApplyRemove(s, e)
           [] e.t = "edit" -> ApplyEdit(s, e, replay)
           [] e.t = "invite" -> [s EXCEPT !.groups[e.g].invites = @ \union {e.code}]
           [] OTHER -> s

EpochOf(s, g) == IF s.groups[g] = Nil THEN Nil ELSE s.groups[g].epoch
ApplyWithEpoch(s, e, replay) ==
    IF e.t # "create" /\ e.epoch # Nil /\ EpochOf(s, e.g) # e.epoch THEN s ELSE Apply(s, e, replay)

-----------------------------------------------------------------------------
(* The rebuild *)

NoGroups == [g \in Gids |-> Nil]
EmptyStore == [groups |-> NoGroups, deleted |-> {}, ghost |-> {}, total |-> 0, declared |-> {}, stale |-> {}]

Class(e) == IF e.t = "create" THEN 0 ELSE IF e.t = "delete" THEN 1 ELSE 2

\* replay_order: by second, creates and deletes first, the others in order of arrival.
ReplayOrder(a, b) ==
    \/ a.at < b.at
    \/ a.at = b.at /\ Class(a) < Class(b)
    \/ a.at = b.at /\ Class(a) = Class(b) /\ a.arr < b.arr

\* An event that would bring an erased key back is skipped; so is one whose apply is not confirmed.
Replayable(e) ==
    /\ ~(e.t = "join" /\ e.by \in erased) /\ ~(e.t = "put" /\ e.who \in erased)
    /\ ~\E c \in Senders : task[c] # Nil /\ task[c].at \in {"ghost", "doomed", "apply"} /\ task[c].e = e

\* State that is dated before its create waits for it.
ReplayStep(acc, e) ==
    LET s == acc.s
        unknown == s.groups[e.g] = Nil /\ e.g \notin s.ghost \union s.deleted
        mine(x) == x.g = e.g
        others(x) == x.g # e.g
        step(st, x) == ApplyWithEpoch(st, x, TRUE)
    IN  IF e.t = "create"
        THEN [s |-> FoldLeft(step, step(s, e), SelectSeq(acc.wait, mine)), wait |-> SelectSeq(acc.wait, others)]
        ELSE IF ~unknown THEN [acc EXCEPT !.s = step(s, e)]
        ELSE IF e.t = "delete" THEN acc
        ELSE [acc EXCEPT !.wait = Append(@, e)]
Replayed == FoldLeft(ReplayStep, [s |-> EmptyStore, wait |-> <<>>],
                     SortSeq(SelectSeq(log, Replayable), ReplayOrder)).s

\* rebuild_after_vanish and adopt_live_dm_groups: the hidden ids and the DM groups come from the live store.
Rebuilt ==
    LET dms == {g \in Groups : gs.groups[g].dm}
        groups == [g \in Gids |-> IF g \in dms /\ Replayed.groups[g] = Nil THEN gs.groups[g] ELSE Replayed.groups[g]]
        kept == {g \in Gids : groups[g] # Nil}
        deleted == Replayed.deleted \union (gs.deleted \ kept)
    IN  [groups |-> groups, deleted |-> deleted \ dms,
         ghost |-> (gs.ghost \union ((Groups \ kept) \ deleted)) \ dms,
         total |-> TotalOf([groups |-> groups]),
         declared |-> UNION {groups[g].kids : g \in kept}, stale |-> {}]

-----------------------------------------------------------------------------
(* An event on its way: validated and stored, then applied, then its mirrors stored. *)

More(c) == task[c] = Nil /\ sent[c] < Len(gmenu.ops[c])
Doing(c) == gmenu.ops[c][sent[c] + 1]
Done(c) == task' = [task EXCEPT ![c] = Nil]
Next1(c) == sent' = [sent EXCEPT ![c] = @ + 1]
Arrival == 1 + FoldLeft(LAMBDA m, e : IF e.arr > m THEN e.arr ELSE m, stamp.arr, log)

\* accept_event: validated against the live store, then put; the epoch is what it was validated against.
Submit(c) ==
    /\ More(c) /\ Doing(c).t \notin {"dm", "hide", "vanish"}
    /\ LET e == [Doing(c) EXCEPT !.at = now - Doing(c).at, !.epoch = EpochOf(gs, Doing(c).g), !.arr = Arrival]
       IN  IF ~Valid(gs, e) \/ e.at <= cut[e.g] \/ e.by \in erased THEN UNCHANGED <<log, task, stamp>>
           ELSE /\ log' = Append(log, e)
                /\ stamp' = [stamp EXCEPT !.arr = Arrival]
                /\ task' = [task EXCEPT ![c] = [e |-> e, at |-> IF e.t = "delete" THEN "ghost" ELSE "apply", out |-> Nil]]
    /\ Next1(c) /\ UNCHANGED <<gs, cut, now, erased, gmenu>>

\* The per-group lock of apply_group_event.
Held(g, c) == \E d \in Senders \ {c} : task[d] # Nil /\ task[d].at \in {"doomed", "emit", "purge"} /\ task[d].e.g = g
Stale(e) == e.t # "create" /\ EpochOf(gs, e.g) # e.epoch
Unauthorized(e) ==
    gs.groups[e.g] # Nil /\ e.t \in Moderation \union {"create"} /\ e.by # Relay /\ ~IsAdmin(gs.groups[e.g], e.by)
Forget(e) == log' = SelectSeq(log, LAMBDA x : x.arr # e.arr)

\* ghost_deleted_group_if_current
GhostDelete(c) ==
    /\ task[c] # Nil /\ task[c].at = "ghost" /\ ~Held(task[c].e.g, c)
    /\ LET e == task[c].e
       IN  IF Stale(e) \/ Unauthorized(e) THEN Forget(e) /\ Done(c) /\ UNCHANGED gs
           ELSE /\ gs' = [gs EXCEPT !.ghost = @ \union {e.g}]
                /\ task' = [task EXCEPT ![c].at = "doomed"]
                /\ UNCHANGED log
    /\ UNCHANGED <<cut, stamp, now, sent, erased, gmenu>>

\* What the relay signs for a change of membership.
MirrorMutant(c, before) ==
    LET e == task[c].e
    IN  IF e.t = "join" /\ before # Nil /\ before.members[e.by] = Nil /\ gs.groups[e.g].members[e.by] # Nil
        THEN [Event("put", e.g, Relay) EXCEPT !.who = e.by, !.mirror = TRUE] ELSE Nil
Mirror(c, before) ==
    LET e == task[c].e
        who == IF e.t \in {"join", "leave"} THEN e.by ELSE e.who
        is == gs.groups[e.g] # Nil /\ gs.groups[e.g].members[who] # Nil
        was == before # Nil /\ before.members[who] # Nil
    IN  IF e.t = "join" /\ is /\ ~was THEN [Event("put", e.g, Relay) EXCEPT !.who = who, !.mirror = TRUE]
        ELSE IF e.t \in {"leave", "remove"} /\ was /\ ~is THEN [Event("remove", e.g, Relay) EXCEPT !.who = who]
        ELSE Nil

\* apply_group_state: the checks are repeated under the lock; a rejected event is removed again.
ApplyState(c) ==
    /\ task[c] # Nil /\ task[c].at \in {"apply", "doomed"} /\ ~Held(task[c].e.g, c)
    /\ LET e == task[c].e
           late == gs.groups[e.g] # Nil /\ e.t # "create" /\ e.at < gs.groups[e.g].at
           before == gs.groups[e.g]
       IN  IF Stale(e) \/ late \/ Unauthorized(e) \/ OverCapacity(gs, e)
           THEN /\ gs' = IF e.t = "delete" /\ before # Nil THEN [gs EXCEPT !.ghost = @ \ {e.g}] ELSE gs
                /\ \E failed \in GFault("remove") : IF failed THEN UNCHANGED log ELSE Forget(e)
                /\ Done(c)
           ELSE /\ gs' = Apply(gs, e, FALSE)
                /\ task' = [task EXCEPT ![c].at = IF e.t = "delete" THEN "purge" ELSE "emit", ![c].out = before]
                /\ UNCHANGED log
    /\ UNCHANGED <<cut, stamp, now, sent, erased, gmenu>>

\* The mirrors are stamped by the clock that only moves forward and bound to the incarnation.
Emit(c) ==
    /\ task[c] # Nil /\ task[c].at = "emit"
    /\ LET at == Max({now, stamp.last + 1})
           m == Mirror(c, task[c].out)
       IN  \/ /\ m = Nil /\ UNCHANGED <<log, stamp>>
           \/ /\ m # Nil
              /\ log' = Append(log, [m EXCEPT !.at = at, !.arr = Arrival, !.epoch = EpochOf(gs, m.g)])
              /\ stamp' = [last |-> at, arr |-> Arrival]
           \/ "store" \in gmenu.faults /\ m # Nil /\ UNCHANGED <<log, stamp>>
    /\ Done(c) /\ UNCHANGED <<gs, cut, now, sent, erased, gmenu>>

\* The purge of a deleted group; the ghost goes when nothing of it is left.
PurgeGroup(c) ==
    /\ task[c] # Nil /\ task[c].at = "purge"
    /\ LET g == task[c].e.g
           theirs == {e \in ToSet(log) : e.g = g}
       IN  \E failed \in GFault("purge") :
             IF failed THEN UNCHANGED <<gs, log, cut>>
             ELSE /\ log' = SelectSeq(log, LAMBDA e : e.g # g)
                  /\ cut' = [cut EXCEPT ![g] = Max({now} \union {e.at : e \in theirs})]
                  /\ gs' = [gs EXCEPT !.ghost = @ \ {g}, !.deleted = @ \union {g}]
    /\ Done(c) /\ UNCHANGED <<stamp, now, sent, erased, gmenu>>

-----------------------------------------------------------------------------
(* Vanish, rebuild, DM channels *)

\* vanish_pubkey: the key's events go; when state went with them the groups are rebuilt, otherwise a signed
\* removal records what was taken out of the live store.
Vanish(c) ==
    /\ More(c) /\ Doing(c).t = "vanish"
    /\ LET k == Doing(c).by
           left == SelectSeq(log, LAMBDA e : e.by # k)
           touched == {e.g : e \in {x \in ToSet(log) : x.by = k /\ x.t # "post"}}
           affected == {g \in Groups : gs.groups[g].members[k] # Nil}
           without == [gs EXCEPT !.groups = [g \in Gids |-> IF g \in affected
                           THEN [@[g] EXCEPT !.members[k] = Nil, !.hiddenFor = @ \ {k}] ELSE @[g]],
                           !.total = @ - Cardinality(affected), !.stale = @ \union touched]
           at == Max({now, stamp.last + 1})
           mirrors == SetToSeq({[Event("remove", g, Relay) EXCEPT !.who = k, !.at = at, !.arr = Arrival,
                                                                  !.epoch = EpochOf(gs, g)] : g \in affected})
       IN  /\ erased' = erased \union {k}
           /\ gs' = without
           /\ IF touched = {} /\ affected # {}
              THEN log' = left \o mirrors /\ stamp' = [last |-> at, arr |-> Arrival]
              ELSE log' = left /\ UNCHANGED stamp
    /\ Next1(c) /\ UNCHANGED <<cut, now, task, gmenu>>

Rebuild ==
    /\ gs.stale # {} /\ gs' = Rebuilt
    /\ UNCHANGED <<log, cut, stamp, now, task, sent, erased, gmenu>>

\* handle_dm_open: the participants are checked, then the channel is created or surfaced; what cannot be
\* completed or persisted is taken back.
DmCheck(c) ==
    /\ More(c) /\ Doing(c).t = "dm"
    /\ task' = IF {Doing(c).by, Doing(c).who} \intersect erased # {} THEN task
               ELSE [task EXCEPT ![c] = [e |-> Doing(c), at |-> "dm", out |-> Nil]]
    /\ Next1(c) /\ UNCHANGED <<gs, log, cut, stamp, now, erased, gmenu>>
WithDm(s, e) ==
    LET made == ApplyCreate(s, [e EXCEPT !.at = now, !.arr = Nil], FALSE)
        put == ApplyPut(made, [e EXCEPT !.role = "member"])
    IN  IF made.groups[e.g] = Nil THEN made ELSE [put EXCEPT !.groups[e.g].dm = TRUE]
DmOpen(c) ==
    /\ task[c] # Nil /\ task[c].at = "dm"
    /\ LET e == task[c].e
           grp == gs.groups[e.g]
           next == WithDm(gs, e)
           complete == next.groups[e.g] # Nil /\ {e.by, e.who} \subseteq MembersOf(next.groups[e.g])
       IN  IF e.g \in gs.stale \/ (grp # Nil /\ (~grp.dm \/ ~({e.by, e.who} \subseteq MembersOf(grp))))
           THEN UNCHANGED gs
           ELSE IF grp # Nil THEN gs' = [gs EXCEPT !.groups[e.g].hiddenFor = @ \ {e.by}]
           ELSE \E failed \in GFault("persist") : gs' = IF complete /\ ~failed THEN next ELSE gs
    /\ Done(c) /\ UNCHANGED <<log, cut, stamp, now, sent, erased, gmenu>>

DmHide(c) ==
    /\ More(c) /\ Doing(c).t = "hide"
    /\ LET e == Doing(c)
           grp == gs.groups[e.g]
       IN  \E failed \in GFault("persist") :
             gs' = IF e.by \in erased \/ e.g \in gs.stale \/ grp = Nil \/ failed THEN gs
                   ELSE IF ~grp.dm \/ grp.members[e.by] = Nil THEN gs
                   ELSE [gs EXCEPT !.groups[e.g].hiddenFor = @ \union {e.by}]
    /\ Next1(c) /\ UNCHANGED <<log, cut, stamp, now, task, erased, gmenu>>

Tick == now < Seconds /\ now' = now + 1 /\ UNCHANGED <<gs, log, cut, stamp, task, sent, erased, gmenu>>

GroupsInit ==
    /\ gmenu \in GroupMenus /\ gs = EmptyStore /\ log = <<>> /\ cut = [g \in Gids |-> 0]
    /\ stamp = [last |-> 0, arr |-> 0] /\ now = 1 /\ task = [c \in Senders |-> Nil]
    /\ sent = [c \in Senders |-> 0] /\ erased = {}
GroupsNext ==
    \/ \E c \in Senders : \/ Submit(c) \/ GhostDelete(c) \/ ApplyState(c) \/ Emit(c) \/ PurgeGroup(c)
                          \/ Vanish(c) \/ DmCheck(c) \/ DmOpen(c) \/ DmHide(c)
    \/ Rebuild \/ Tick

-----------------------------------------------------------------------------
(* Properties *)

\* The hierarchy agrees with itself: a parent is a live group that lists the child, a live child points back to the
\* group that lists it, and no group is above itself.  Edits, creates and deletes of several admins and the replay
\* each rewrite both ends of a link (the 9002, 9007 and 9008 arms of apply_with_epoch).
LinksAgree ==
    LET up[n \in 0..Cardinality(Gids), g \in Gids] ==
          IF n = 0 THEN g ELSE IF gs.groups[g] = Nil \/ gs.groups[g].parent = Nil THEN Nil
          ELSE up[n - 1, gs.groups[g].parent]
    IN  \A g \in Groups :
          /\ gs.groups[g].parent # Nil =>
                gs.groups[g].parent \in Groups /\ g \in gs.groups[gs.groups[g].parent].kids
          /\ \A c \in gs.groups[g].kids \intersect Groups : gs.groups[c].parent = g
          /\ up[Cardinality(Gids), g] = Nil

\* The member counter is the number of memberships and no limit is passed, although an event is admitted before it is
\* stored and counted only when it is applied (capacity_rejection, at_member_capacity).
CapsHold ==
    /\ gs.total = TotalOf(gs) /\ gs.total <= MaxTotal
    /\ Cardinality(Groups) <= MaxGroups
    /\ \A g \in Groups : Cardinality(MembersOf(gs.groups[g])) <= MaxMembers

Settled == gs.stale = {} /\ \A c \in Senders : task[c] = Nil

\* Nobody who is out of a group comes back when the store is rebuilt from the stored events, whatever the clocks of
\* the clients said: once nothing is in flight the rebuild has no member the live group lacks (the signed mirrors,
\* replay_order, the epochs, the erased keys).
RebuildBringsNobodyBack ==
    Settled => \A g \in Groups \intersect Live(Replayed) :
                 Replayed.groups[g].epoch = gs.groups[g].epoch =>
                   MembersOf(Replayed.groups[g]) \subseteq MembersOf(gs.groups[g])

\* dm.rs: a DM never includes a key that asked to vanish.
VanishedNotInDm == \A g \in Groups : gs.groups[g].dm => MembersOf(gs.groups[g]) \intersect erased = {}

\* The store is consistent with itself and within its limits after every event, rebuild and purge.
GroupsConsistent == LinksAgree /\ CapsHold
=============================================================================
