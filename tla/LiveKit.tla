------------------------------- MODULE LiveKit -------------------------------
(***************************************************************************)
(* The LiveKit integration (server/livekit.rs, relay/mod.rs): room tokens,    *)
(* and the list of participants the relay publishes per group (kind 39004).    *)
(* Webhooks and a poll refresh the list from the room; per group only one        *)
(* refresh runs, a second request marks it for another pass.  A cache of what     *)
(* was published decides whether a list changed; a striped lock keeps a refresh    *)
(* apart from the edits of its group.  The room and its server are external.        *)
(***************************************************************************)
EXTENDS Naturals, Sequences, FiniteSets, TLC

CONSTANTS
    LiveMenus,  \* bound: [config, groups, on, lists, hooks, polls, moves, edits, tokens, faults, starts]: what is configured (of
                \* Configured), the groups, those with a room, what is stored, the webhooks [group, sound, relevant], how often it
                \* polls, the rooms to come, the edits of groups, token requests, what may fail, how often it starts
    NoList, Gone, Foreign  \* no list is stored; the room does not exist; an identity without a pubkey

VARIABLES
    room,     \* per group: the identities <<pubkey, suffix>> in the LiveKit room, or Gone
    exists, enabled,  \* groups that exist; groups with LiveKit on
    lists,    \* per group: the stored participant list, or NoList
    cached,   \* livekit_participants: function of the groups it knows
    seeded,   \* livekit_cache_seeded
    refresh,  \* livekit_refresh: [flight, pending]
    listLock,    \* groups whose livekit_lock is held
    rtask,     \* per webhook and for the poll (0): [at, group, got, live, known, todo]
    news,     \* groups with a webhook that no fetch has followed
    issued,   \* tokens: [group, who]
    spent,    \* [polls, moves, edits, tokens, starts]: what was taken from the menu
    lmenu

lvars == <<room, exists, enabled, lists, cached, seeded, refresh, listLock, rtask, news, issued, spent, lmenu>>
LiveFault(f) == {FALSE} \union (IF f \in lmenu.faults THEN {TRUE} ELSE {})
Jobs == {0} \union DOMAIN lmenu.hooks
NoJob == [at |-> "idle", group |-> NoList, got |-> {}, live |-> {}, known |-> {}, todo |-> {}]
Job(j) == rtask[j]
GoOn(j, s) == rtask' = [rtask EXCEPT ![j].at = s]
DropKey(f, g) == [x \in DOMAIN f \ {g} |-> f[x]]
CachedList(g) == IF g \in DOMAIN cached THEN cached[g] ELSE NoList
\* A refresh of g was asked for and has not looked whether one is running.
Requested(g) == \E j \in Jobs : Job(j).at = "claim" /\ Job(j).group = g
LiveRest == UNCHANGED <<room, exists, enabled, issued, spent, lmenu>>
Configured == {"nip29", "selfkey", "api", "url"}  \* NIP-29, the relay's own key, LiveKit's key and secret, its URL
\* livekit_api_config, livekit_supported: NIP-29 and all three settings of LiveKit.
ApiConfig == {"nip29", "api", "url"} \subseteq lmenu.config
Refreshes == ApiConfig /\ "selfkey" \in lmenu.config
\* is_livekit_group.
IsLivekitGroup(g) == g \in exists /\ g \in enabled

-----------------------------------------------------------------------------
(* Tokens *)

\* group_allows: a pubkey the access lists allow, a group that is sure of its state and has a room.
GroupAllows(t) == ~t.banned /\ ~t.stale /\ IsLivekitGroup(t.group) /\ (t.open \/ t.member)
\* livekit_token: a signature of this URL that was not used before.
Token ==
    /\ spent.tokens < Len(lmenu.tokens)
    /\ LET t == lmenu.tokens[spent.tokens + 1]
       IN  issued' = IF ApiConfig /\ t.signed /\ GroupAllows(t) THEN issued \union {[group |-> t.group, who |-> t.who]} ELSE issued
    /\ spent' = [spent EXCEPT !.tokens = @ + 1]
    /\ UNCHANGED <<room, exists, enabled, lists, cached, seeded, refresh, listLock, rtask, news, lmenu>>

-----------------------------------------------------------------------------
(* Refreshes *)

\* livekit_webhook: a signed body about who is in a room of this relay starts a refresh in the background.  news has the
\* webhooks a refresh is able to follow.
Webhook(j) ==
    /\ j # 0 /\ Job(j).at = "idle"
    /\ LET h == lmenu.hooks[j]
           ok == "api" \in lmenu.config /\ h.sound /\ h.relevant /\ IsLivekitGroup(h.group)
       IN  /\ rtask' = [rtask EXCEPT ![j].at = IF ok THEN "claim" ELSE "done", ![j].group = h.group]
           /\ news' = IF ok /\ Refreshes THEN news \union {h.group} ELSE news
    /\ UNCHANGED <<room, exists, enabled, lists, cached, seeded, refresh, listLock, issued, spent, lmenu>>
\* What comes after a refresh: the poll goes on with its next group.
AfterRefresh(j) == IF j = 0 THEN "next" ELSE "done"
\* refresh_livekit_participants: one at a time, the others ask it to run again.
Claim(j) ==
    /\ Job(j).at = "claim"
    /\ LET g == Job(j).group
       IN  IF ~Refreshes THEN UNCHANGED refresh /\ GoOn(j, AfterRefresh(j))
           ELSE IF g \in refresh.flight THEN refresh' = [refresh EXCEPT !.pending = @ \union {g}] /\ GoOn(j, AfterRefresh(j))
           ELSE refresh' = [refresh EXCEPT !.flight = @ \union {g}] /\ GoOn(j, "fetch")
    /\ LiveRest /\ UNCHANGED <<lists, cached, seeded, listLock, news>>
\* participant_pubkeys: the pubkeys the relay gave identities out for, each once.
ParticipantPubkeys(ids) == {i[1] : i \in {x \in ids : x[1] # Foreign}}
\* participants_from_response: a room that is gone has nobody in it.
ParticipantsFromResponse(r) == IF r = Gone THEN {} ELSE ParticipantPubkeys(r)
\* fetch_livekit_participants: what the room holds when the request arrives.
FetchParticipants(j) ==
    /\ Job(j).at = "fetch" /\ news' = news \ {Job(j).group}
    /\ rtask' = [rtask EXCEPT ![j].at = "answer", ![j].got = ParticipantsFromResponse(room[Job(j).group])]
    /\ LiveRest /\ UNCHANGED <<lists, cached, seeded, refresh, listLock>>
\* No answer, an error or a 404 that does not name the room: the list stays as it is.
FetchAnswer(j) ==
    /\ Job(j).at = "answer"
    /\ \E failed \in LiveFault("fetch") : GoOn(j, IF failed THEN "again" ELSE "lock")
    /\ LiveRest /\ UNCHANGED <<lists, cached, seeded, refresh, listLock, news>>
\* refresh_livekit_once under the lock: still a room, and a list that changed.
Compare(j) ==
    /\ Job(j).at = "lock" /\ Job(j).group \notin listLock
    /\ LET g == Job(j).group
           same == CachedList(g) = Job(j).got
           off == ~IsLivekitGroup(g)
       IN  /\ listLock' = IF off \/ same THEN listLock ELSE listLock \union {g}
           /\ GoOn(j, IF off \/ same THEN "again" ELSE "store")
    /\ LiveRest /\ UNCHANGED <<lists, cached, seeded, refresh, news>>
StoreList(j) ==
    /\ Job(j).at = "store"
    /\ LET g == Job(j).group
       IN  \E failed \in LiveFault("store") :
              /\ lists' = IF failed THEN lists ELSE [lists EXCEPT ![g] = Job(j).got]
              /\ GoOn(j, IF failed THEN "free" ELSE "cache")
    /\ LiveRest /\ UNCHANGED <<cached, seeded, refresh, listLock, news>>
CacheList(j) ==
    /\ Job(j).at = "cache"
    /\ LET g == Job(j).group IN cached' = (g :> Job(j).got) @@ cached
    /\ GoOn(j, "free") /\ LiveRest /\ UNCHANGED <<lists, seeded, refresh, listLock, news>>
LockFree(j) ==
    /\ Job(j).at = "free" /\ listLock' = listLock \ {Job(j).group} /\ GoOn(j, "again")
    /\ LiveRest /\ UNCHANGED <<lists, cached, seeded, refresh, news>>
\* A pass that was asked for meanwhile runs; otherwise the refresh ends.
AgainMutant(j) ==   \* mutant: the refresh ends and forgets who asked for another pass
    /\ Job(j).at = "again"
    /\ refresh' = [flight |-> refresh.flight \ {Job(j).group}, pending |-> refresh.pending \ {Job(j).group}] /\ GoOn(j, AfterRefresh(j))
    /\ LiveRest /\ UNCHANGED <<lists, cached, seeded, listLock, news>>
Again(j) ==
    /\ Job(j).at = "again"
    /\ LET g == Job(j).group
       IN  IF g \in refresh.pending THEN refresh' = [refresh EXCEPT !.pending = @ \ {g}] /\ GoOn(j, "fetch")
           ELSE refresh' = [refresh EXCEPT !.flight = @ \ {g}] /\ GoOn(j, AfterRefresh(j))
    /\ LiveRest /\ UNCHANGED <<lists, cached, seeded, listLock, news>>
\* LiveKitRefreshGuard: a task that unwinds gives its place back; the poll makes up for what it was asked.
Unwind(j) ==
    /\ j # 0 /\ Job(j).at = "answer" /\ "unwind" \in lmenu.faults
    /\ refresh' = [refresh EXCEPT !.flight = @ \ {Job(j).group}] /\ GoOn(j, "done")
    /\ news' = {g \in news : g = Job(j).group => Requested(g)}
    /\ LiveRest /\ UNCHANGED <<lists, cached, seeded, listLock>>

-----------------------------------------------------------------------------
(* The poll *)

\* poll_livekit_participants: the stale lists first, which need NIP-29 and the relay's key.
Poll ==
    /\ Job(0).at \in {"idle", "done"} /\ spent.polls < lmenu.polls
    /\ spent' = [spent EXCEPT !.polls = @ + 1]
    /\ LET clears == {"nip29", "selfkey"} \subseteq lmenu.config
       IN  /\ rtask' = [rtask EXCEPT ![0] = [NoJob EXCEPT !.at = IF ~clears THEN "clear" ELSE IF seeded THEN "snapshot" ELSE "scan"]]
           /\ seeded' = (seeded \/ clears)
    /\ UNCHANGED <<room, exists, enabled, lists, cached, refresh, listLock, news, issued, lmenu>>
\* clear_stale_livekit_lists: the first poll reads the stored lists into the cache; a failed scan is tried again.
SeedScan ==
    /\ Job(0).at = "scan"
    /\ \E failed \in LiveFault("scan") :
          /\ seeded' = ~failed
          /\ rtask' = [rtask EXCEPT ![0].at = IF failed THEN "snapshot" ELSE "seed", ![0].got = {<<g, lists[g]>> : g \in {h \in lmenu.groups : lists[h] # NoList}}]
    /\ LiveRest /\ UNCHANGED <<lists, cached, refresh, listLock, news>>
Seed ==
    /\ Job(0).at = "seed" /\ GoOn(0, "snapshot")
    /\ LET read == {x[1] : x \in Job(0).got} IN cached' = [g \in read |-> (CHOOSE x \in Job(0).got : x[1] = g)[2]] @@ cached
    /\ LiveRest /\ UNCHANGED <<lists, seeded, refresh, listLock, news>>
LiveSnapshot ==
    /\ Job(0).at = "snapshot"
    /\ rtask' = [rtask EXCEPT ![0].at = "clear", ![0].live = exists \intersect enabled, ![0].known = exists, ![0].todo = DOMAIN cached \ (exists \intersect enabled)]
    /\ LiveRest /\ UNCHANGED <<lists, cached, seeded, refresh, listLock, news>>
\* A group that has no room any more: an empty list is published if the group exists, and then its cached one goes.
Clear(g) ==
    /\ Job(0).at = "clear" /\ g \in Job(0).todo /\ g \notin listLock
    /\ rtask' = [rtask EXCEPT ![0].todo = @ \ {g}]
    /\ LET publish == ~IsLivekitGroup(g) /\ g \in Job(0).known
       IN  \E failed \in LiveFault("store") :
              /\ lists' = IF publish /\ ~failed THEN [lists EXCEPT ![g] = {}] ELSE lists
              /\ cached' = IF publish /\ failed THEN cached ELSE DropKey(cached, g)
    /\ LiveRest /\ UNCHANGED <<seeded, refresh, listLock, news>>
\* livekit_group_ids: the groups to poll, in any order.
LivekitGroupIds ==
    /\ Job(0).at = "clear" /\ Job(0).todo = {}
    /\ rtask' = [rtask EXCEPT ![0].at = "next", ![0].todo = IF ApiConfig THEN exists \intersect enabled ELSE {}]
    /\ LiveRest /\ UNCHANGED <<lists, cached, seeded, refresh, listLock, news>>
PollNext ==
    /\ Job(0).at = "next"
    /\ IF Job(0).todo = {} THEN GoOn(0, "done")
       ELSE \E g \in Job(0).todo : rtask' = [rtask EXCEPT ![0].at = "claim", ![0].group = g, ![0].todo = @ \ {g}]
    /\ LiveRest /\ UNCHANGED <<lists, cached, seeded, refresh, listLock, news>>

-----------------------------------------------------------------------------
(* The rest of the relay, and the room *)

\* apply_group_event, under the lock: a group enters or leaves LiveKit (an empty list is stored, and only then the cached one
\* goes), or is deleted (the cached one goes, then what is stored).  A rebuild switches LiveKit off without the lock.
EditGroup ==
    /\ spent.edits < Len(lmenu.edits)
    /\ LET e == lmenu.edits[spent.edits + 1]
           g == e.group
       IN  /\ e.what # "rebuild" => g \notin listLock
           /\ exists' = IF e.what = "delete" THEN exists \ {g} ELSE exists
           /\ enabled' = IF e.what = "enter" THEN enabled \union {g} ELSE enabled \ {g}
           /\ \E failed \in LiveFault("store") :
                 /\ lists' = IF failed \/ e.what \notin {"leave", "delete"} THEN lists
                             ELSE [lists EXCEPT ![g] = IF e.what = "leave" THEN {} ELSE NoList]
                 /\ cached' = IF e.what = "delete" \/ (e.what = "leave" /\ ~failed) THEN DropKey(cached, g) ELSE cached
           /\ spent' = [spent EXCEPT !.edits = @ + 1]
    /\ UNCHANGED <<room, seeded, refresh, listLock, rtask, news, issued, lmenu>>
Move ==
    /\ spent.moves < Len(lmenu.moves) /\ spent' = [spent EXCEPT !.moves = @ + 1]
    /\ LET m == lmenu.moves[spent.moves + 1] IN room' = [room EXCEPT ![m.group] = m.who]
    /\ UNCHANGED <<exists, enabled, lists, cached, seeded, refresh, listLock, rtask, news, issued, lmenu>>
LiveRestart ==
    /\ spent.starts < lmenu.starts /\ spent' = [spent EXCEPT !.starts = @ + 1]
    /\ cached' = <<>> /\ seeded' = FALSE /\ refresh' = [flight |-> {}, pending |-> {}] /\ listLock' = {} /\ news' = {}
    /\ rtask' = [j \in Jobs |-> IF j = 0 \/ Job(j).at = "idle" THEN NoJob ELSE [NoJob EXCEPT !.at = "done"]]
    /\ UNCHANGED <<room, exists, enabled, lists, issued, lmenu>>

LiveInit ==
    /\ lmenu \in LiveMenus
    /\ room = [g \in lmenu.groups |-> {}] /\ exists = lmenu.groups /\ enabled = lmenu.on /\ lists = lmenu.lists /\ cached = <<>> /\ seeded = FALSE
    /\ refresh = [flight |-> {}, pending |-> {}] /\ listLock = {} /\ rtask = [j \in Jobs |-> NoJob] /\ news = {}
    /\ issued = {} /\ spent = [polls |-> 0, moves |-> 0, edits |-> 0, tokens |-> 0, starts |-> 0]
LiveNext ==
    \/ Token \/ Poll \/ SeedScan \/ Seed \/ LiveSnapshot \/ LivekitGroupIds \/ PollNext \/ EditGroup \/ Move \/ LiveRestart
    \/ \E j \in Jobs : \/ Webhook(j) \/ Claim(j) \/ FetchParticipants(j) \/ FetchAnswer(j) \/ Compare(j) \/ StoreList(j) \/ CacheList(j) \/ LockFree(j) \/ Again(j) \/ Unwind(j)
    \/ \E g \in lmenu.groups : Clear(g)
LiveSpec == LiveInit /\ [][LiveNext]_lvars

-----------------------------------------------------------------------------
(* Properties *)

\* A webhook is never lost: once no refresh of its group is running or about to, the room has been asked after it
\* (refresh_livekit_participants: the pending mark is taken and the place given up in one step).
WebhookAnswered ==
    \A g \in news : g \in refresh.flight \/ Requested(g)

\* The cache has what is stored, except while a refresh of the group holds its lock: "Only a stored list is the current
\* one" (refresh_livekit_once).
CacheIsStored == \A g \in DOMAIN cached \ listLock : cached[g] = lists[g]

\* The inductive invariant behind WebhookAnswered: one refresh per group runs, under its mark, and what came in after it asked
\* the room has it marked for another pass.
Running(j) == Job(j).at \in {"fetch", "answer", "lock", "store", "cache", "free", "again"}
OneRefresh == /\ \A j \in Jobs : Running(j) => Job(j).group \in refresh.flight
              /\ \A i, j \in Jobs : Running(i) /\ Running(j) /\ Job(i).group = Job(j).group => i = j
ToAsk(g) == g \in refresh.pending \/ \E j \in Jobs : Job(j).at = "fetch" /\ Job(j).group = g
NewsFollowed == /\ \A g \in news : Requested(g) \/ (g \in refresh.flight /\ ToAsk(g))
                /\ ~Refreshes => news = {}
RefreshInv == OneRefresh /\ NewsFollowed
=============================================================================
