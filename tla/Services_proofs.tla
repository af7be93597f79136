-------------------------- MODULE Services_proofs ---------------------------
(***************************************************************************)
(* Proofs about the services beside the relay.                             *)
(*                                                                         *)
(* LiveKit: no webhook is lost, for any number of webhooks, groups, polls, *)
(* edits, faults and restarts.                                             *)
(*                                                                         *)
(* ReplayGuard: for every window, every limit and any set of signed        *)
(* authorizations and managers, a management authorization is remembered   *)
(* for as long as it verifies, in bounded memory.                          *)
(*                                                                         *)
(* Access: for any number of management calls, command line edits,         *)
(* reloads, write faults and restarts, an edit that was answered with      *)
(* success is in the journal's history, and no edit of that history is     *)
(* lost from the disk.                                                     *)
(*                                                                         *)
(* ConnAdmission: for every finite set of connections, every set of        *)
(* addresses and trusted proxies and every limit, the slots are accounted  *)
(* for and the budgets hold.                                               *)
(*                                                                         *)
(* WsSession: for any filters, events, limits and disturbances, the        *)
(* accounts of a connection are exact, and no subscription that was        *)
(* promised a complete history misses an event.                            *)
(***************************************************************************)
EXTENDS LiveKit, ReplayGuard, Access, ConnAdmission, WsSession, Sums_proofs, SequenceTheorems, FiniteSetTheorems, TLAPS

-----------------------------------------------------------------------------
(* The refreshes of LiveKit *)

\* The fields the proofs read.
Shape == /\ DOMAIN rtask = Jobs
         /\ \A j \in Jobs : {"at", "group"} \subseteq DOMAIN rtask[j]
         /\ {"flight", "pending"} \subseteq DOMAIN refresh

\* The job j is at s with group g, and every other one where it was.
OnlyMoves(j, s, g) ==
    /\ lmenu' = lmenu
    /\ \A i \in Jobs : /\ rtask'[i].at = IF i = j THEN s ELSE rtask[i].at
                       /\ rtask'[i].group = IF i = j THEN g ELSE rtask[i].group

\* The jobs and the configuration stay the same.
LEMMA SameJobs == lmenu' = lmenu => Jobs' = Jobs /\ (Refreshes' <=> Refreshes)
  BY DEF Jobs, Refreshes, ApiConfig

\* Going on changes the step of one job and nothing else.
LEMMA GoingOn ==
  ASSUME Shape, NEW j \in Jobs, NEW s, GoOn(j, s), UNCHANGED lmenu
  PROVE  /\ OnlyMoves(j, s, rtask[j].group)
         /\ DOMAIN rtask' = Jobs' /\ \A i \in Jobs' : {"at", "group"} \subseteq DOMAIN rtask'[i]
  BY SameJobs DEF Shape, GoOn, OnlyMoves

\* A job outside a refresh goes on outside of it or asks for one.
LEMMA MoveOutside ==
  ASSUME RefreshInv, NEW j \in Jobs, NEW s, NEW g, OnlyMoves(j, s, g), UNCHANGED <<refresh, news>>,
         ~Running(j), rtask[j].at # "claim", ~Running(j)'
  PROVE  RefreshInv'
  <1>1. Jobs' = Jobs /\ (Refreshes' <=> Refreshes)
    BY SameJobs DEF OnlyMoves
  <1>2. \A i \in Jobs : Running(i)' <=> Running(i) /\ i # j
    BY DEF OnlyMoves, Running, Job
  <1>3. OneRefresh'
    BY <1>1, <1>2 DEF OneRefresh, RefreshInv, OnlyMoves, Job
  <1>4. \A h : Requested(h) => Requested(h)'
    BY <1>1 DEF Requested, OnlyMoves, Job
  <1>5. \A h : ToAsk(h) => ToAsk(h)'
    BY <1>1 DEF ToAsk, OnlyMoves, Job, Running
  <1> QED BY <1>1, <1>3, <1>4, <1>5 DEF NewsFollowed, RefreshInv

\* A refresh that has asked the room goes on, still marked.
LEMMA MoveInside ==
  ASSUME RefreshInv, NEW j \in Jobs, NEW s, OnlyMoves(j, s, rtask[j].group), UNCHANGED <<refresh, news>>,
         Running(j), rtask[j].at # "fetch", Running(j)'
  PROVE  RefreshInv'
  <1>1. Jobs' = Jobs /\ (Refreshes' <=> Refreshes)
    BY SameJobs DEF OnlyMoves
  <1>2. \A i \in Jobs : (Running(i)' <=> Running(i)) /\ rtask'[i].group = rtask[i].group
    BY DEF OnlyMoves, Running, Job
  <1>3. OneRefresh'
    BY <1>1, <1>2 DEF OneRefresh, RefreshInv, Job
  <1>4. \A h : Requested(h) => Requested(h)'
    BY <1>1 DEF Requested, OnlyMoves, Job, Running
  <1>5. \A h : ToAsk(h) => ToAsk(h)'
    BY <1>1 DEF ToAsk, OnlyMoves, Job
  <1> QED BY <1>1, <1>3, <1>4, <1>5 DEF NewsFollowed, RefreshInv

\* Nothing of the refreshes changes.
LEMMA MoveNothing ==
  ASSUME RefreshInv, UNCHANGED <<lmenu, refresh, news, rtask>>
  PROVE  RefreshInv'
  BY SameJobs DEF RefreshInv, OneRefresh, NewsFollowed, Running, Requested, ToAsk, Job

\* livekit_webhook: a webhook goes on to claim its group, or ends.
LEMMA WebhookStep ==
  ASSUME Shape, RefreshInv, NEW j \in Jobs, Webhook(j)
  PROVE  Shape' /\ RefreshInv'
  <1>1. PICK s \in {"claim", "done"}, g \in {lmenu.hooks[j].group} :
        /\ rtask' = [rtask EXCEPT ![j].at = s, ![j].group = g] /\ rtask[j].at = "idle"
        /\ news' = (IF s = "claim" /\ Refreshes THEN news \union {g} ELSE news)
        /\ UNCHANGED <<refresh, lmenu>>
    BY DEF Webhook, Job
  <1>2. Jobs' = Jobs /\ (Refreshes' <=> Refreshes)
    BY <1>1, SameJobs
  <1>3. Shape' /\ OnlyMoves(j, s, g)
    BY <1>1, <1>2 DEF Shape, OnlyMoves
  <1>4. \A i \in Jobs : Running(i)' <=> Running(i) /\ i # j
    BY <1>1, <1>3 DEF OnlyMoves, Running, Job
  <1>5. OneRefresh'
    <2>1. \A i \in Jobs : Running(i)' => rtask'[i].group = rtask[i].group
      BY <1>3, <1>4 DEF OnlyMoves
    <2> QED BY <1>1, <1>2, <1>4, <2>1 DEF OneRefresh, RefreshInv, Job
  <1>6. \A h : Requested(h) => Requested(h)'
    BY <1>1, <1>2, <1>3 DEF Requested, OnlyMoves, Job
  <1>7. \A h : ToAsk(h) => ToAsk(h)'
    BY <1>1, <1>2, <1>3 DEF ToAsk, OnlyMoves, Job
  <1>8. s = "claim" => Requested(g)'
    BY <1>2, <1>3 DEF Requested, OnlyMoves, Job
  <1> QED BY <1>1, <1>2, <1>3, <1>5, <1>6, <1>7, <1>8 DEF NewsFollowed, RefreshInv

\* A job claims the refresh of its group, or leaves a note for the one that runs.
LEMMA ClaimStep ==
  ASSUME Shape, RefreshInv, NEW j \in Jobs, Claim(j)
  PROVE  Shape' /\ RefreshInv'
  <1> DEFINE g == rtask[j].group
  <1>1. /\ rtask[j].at = "claim" /\ UNCHANGED <<news, lmenu>>
        /\ \/ ~Refreshes /\ UNCHANGED refresh /\ GoOn(j, AfterRefresh(j))
           \/ Refreshes /\ g \in refresh.flight /\ refresh' = [refresh EXCEPT !.pending = @ \union {g}]
              /\ GoOn(j, AfterRefresh(j))
           \/ Refreshes /\ g \notin refresh.flight /\ refresh' = [refresh EXCEPT !.flight = @ \union {g}] /\ GoOn(j, "fetch")
    BY DEF Claim, Job, LiveRest
  <1>2. Jobs' = Jobs /\ (Refreshes' <=> Refreshes)
    BY <1>1, SameJobs
  <1>3. AfterRefresh(j) \in {"next", "done"}
    BY DEF AfterRefresh
  <1>4. PICK s \in {"next", "done", "fetch"} : GoOn(j, s) /\ s = IF Refreshes /\ g \notin refresh.flight THEN "fetch" ELSE AfterRefresh(j)
    BY <1>1, <1>3
  <1>5. OnlyMoves(j, s, g) /\ DOMAIN rtask' = Jobs' /\ \A i \in Jobs' : {"at", "group"} \subseteq DOMAIN rtask'[i]
    BY <1>1, <1>4, GoingOn
  <1>6. Shape'
    BY <1>1, <1>2, <1>5 DEF Shape
  <1>7. /\ refresh.flight \subseteq refresh'.flight /\ refresh.pending \subseteq refresh'.pending
        /\ s = "fetch" => g \in refresh'.flight
        /\ s # "fetch" /\ Refreshes => g \in refresh.flight /\ g \in refresh'.pending
    BY <1>1, <1>3, <1>4 DEF Shape
  <1>8. \A i \in Jobs \ {j} : (Running(i)' <=> Running(i)) /\ rtask'[i].group = rtask[i].group /\ rtask'[i].at = rtask[i].at
    BY <1>5 DEF OnlyMoves, Running, Job
  <1>9. (Running(j)' <=> s = "fetch") /\ rtask'[j].group = g /\ rtask'[j].at = s
    BY <1>5 DEF OnlyMoves, Running, Job
  <1>10. OneRefresh'
    <2>1. \A i \in Jobs : Running(i) => rtask[i].group \in refresh.flight
      BY DEF OneRefresh, RefreshInv, Job
    <2>2. \A i, k \in Jobs : Running(i) /\ Running(k) /\ rtask[i].group = rtask[k].group => i = k
      BY DEF OneRefresh, RefreshInv, Job
    <2>3. \A i \in Jobs : Running(i)' => rtask'[i].group \in refresh'.flight
      BY <2>1, <1>7, <1>8, <1>9
    <2>4. s = "fetch" => g \notin refresh.flight
      BY <1>3, <1>4
    <2>5. \A i, k \in Jobs : Running(i)' /\ Running(k)' /\ rtask'[i].group = rtask'[k].group => i = k
      BY <2>1, <2>2, <2>4, <1>8, <1>9
    <2> QED BY <1>2, <2>3, <2>5 DEF OneRefresh, Job
  <1>11. NewsFollowed'
    <2> SUFFICES ASSUME NEW h \in news, Refreshes
                 PROVE  Requested(h)' \/ (h \in refresh'.flight /\ ToAsk(h)')
      BY <1>1, <1>2 DEF NewsFollowed, RefreshInv
    <2>1. CASE h = g
      BY <2>1, <1>2, <1>7, <1>9 DEF ToAsk, Job
    <2>2. CASE h # g
      <3>1. Requested(h) => Requested(h)'
        BY <2>2, <1>2, <1>8 DEF Requested, Job
      <3>2. ToAsk(h) => ToAsk(h)'
        BY <2>2, <1>2, <1>7, <1>8 DEF ToAsk, Job
      <3> QED BY <3>1, <3>2, <1>7 DEF NewsFollowed, RefreshInv
    <2> QED BY <2>1, <2>2
  <1> QED BY <1>6, <1>10, <1>11 DEF RefreshInv

\* The participants are fetched; a note left meanwhile makes the job fetch again.
LEMMA FetchStep ==
  ASSUME Shape, RefreshInv, NEW j \in Jobs, FetchParticipants(j)
  PROVE  Shape' /\ RefreshInv'
  <1> DEFINE g == rtask[j].group
             got == ParticipantsFromResponse(room[Job(j).group])
  <1>1. /\ rtask[j].at = "fetch" /\ news' = news \ {g} /\ UNCHANGED <<refresh, lmenu>>
        /\ rtask' = [rtask EXCEPT ![j].at = "answer", ![j].got = got]
    BY DEF FetchParticipants, Job, LiveRest
  <1> HIDE DEF got
  <1>2. Jobs' = Jobs /\ (Refreshes' <=> Refreshes)
    BY <1>1, SameJobs
  <1>3. Shape' /\ OnlyMoves(j, "answer", g)
    BY <1>1, <1>2 DEF Shape, OnlyMoves
  <1>4. \A i \in Jobs : (Running(i)' <=> Running(i)) /\ rtask'[i].group = rtask[i].group
    BY <1>1, <1>3 DEF OnlyMoves, Running, Job
  <1>5. OneRefresh'
    <2>1. /\ \A i \in Jobs : Running(i) => rtask[i].group \in refresh.flight
          /\ \A i, k \in Jobs : Running(i) /\ Running(k) /\ rtask[i].group = rtask[k].group => i = k
      BY DEF OneRefresh, RefreshInv, Job
    <2>2. /\ \A i \in Jobs : Running(i)' => rtask'[i].group \in refresh'.flight
          /\ \A i, k \in Jobs : Running(i)' /\ Running(k)' /\ rtask'[i].group = rtask'[k].group => i = k
      BY <1>1, <1>4, <2>1
    <2> QED BY <1>2, <2>2 DEF OneRefresh, Job
  <1>6. \A h : Requested(h) => Requested(h)'
    BY <1>1, <1>2, <1>3 DEF Requested, OnlyMoves, Job
  <1>7. \A h : h # g /\ ToAsk(h) => ToAsk(h)'
    BY <1>1, <1>2, <1>3 DEF ToAsk, OnlyMoves, Job
  <1> QED BY <1>1, <1>2, <1>3, <1>5, <1>6, <1>7 DEF NewsFollowed, RefreshInv

\* The end of a refresh: another pass when one was asked for, or the mark goes.
LEMMA AgainStep ==
  ASSUME Shape, RefreshInv, NEW j \in Jobs, Again(j)
  PROVE  Shape' /\ RefreshInv'
  <1> DEFINE g == rtask[j].group
  <1>1. /\ rtask[j].at = "again" /\ UNCHANGED <<news, lmenu>>
        /\ \/ g \in refresh.pending /\ refresh' = [refresh EXCEPT !.pending = @ \ {g}] /\ GoOn(j, "fetch")
           \/ g \notin refresh.pending /\ refresh' = [refresh EXCEPT !.flight = @ \ {g}] /\ GoOn(j, AfterRefresh(j))
    BY DEF Again, Job, LiveRest
  <1>2. Jobs' = Jobs /\ (Refreshes' <=> Refreshes)
    BY <1>1, SameJobs
  <1>3. AfterRefresh(j) \in {"next", "done"}
    BY DEF AfterRefresh
  <1>4. /\ \A i \in Jobs : Running(i) => rtask[i].group \in refresh.flight
        /\ \A i, k \in Jobs : Running(i) /\ Running(k) /\ rtask[i].group = rtask[k].group => i = k
        /\ Running(j) /\ g \in refresh.flight
    BY <1>1 DEF OneRefresh, RefreshInv, Job, Running
  <1>5. CASE g \in refresh.pending /\ refresh' = [refresh EXCEPT !.pending = @ \ {g}] /\ GoOn(j, "fetch")
    <2>1. OnlyMoves(j, "fetch", g) /\ DOMAIN rtask' = Jobs' /\ \A i \in Jobs' : {"at", "group"} \subseteq DOMAIN rtask'[i]
      BY <1>1, <1>5, GoingOn
    <2>2. refresh'.flight = refresh.flight /\ refresh'.pending = refresh.pending \ {g} /\ Shape'
      BY <1>2, <1>5, <2>1 DEF Shape
    <2>3. \A i \in Jobs : (Running(i)' <=> Running(i)) /\ rtask'[i].group = rtask[i].group
      BY <1>4, <2>1 DEF OnlyMoves, Running, Job
    <2>4. OneRefresh'
      BY <1>2, <1>4, <2>2, <2>3 DEF OneRefresh, Job
    <2>5. \A h : Requested(h) => Requested(h)'
      BY <1>1, <1>2, <2>1 DEF Requested, OnlyMoves, Job
    <2>6. \A h : ToAsk(h) => ToAsk(h)'
      BY <1>1, <1>2, <2>1, <2>2 DEF ToAsk, OnlyMoves, Job
    <2> QED BY <1>1, <1>2, <2>2, <2>4, <2>5, <2>6 DEF NewsFollowed, RefreshInv
  <1>6. CASE g \notin refresh.pending /\ refresh' = [refresh EXCEPT !.flight = @ \ {g}] /\ GoOn(j, AfterRefresh(j))
    <2>1. OnlyMoves(j, AfterRefresh(j), g) /\ DOMAIN rtask' = Jobs' /\ \A i \in Jobs' : {"at", "group"} \subseteq DOMAIN rtask'[i]
      BY <1>1, <1>6, GoingOn
    <2>2. refresh'.flight = refresh.flight \ {g} /\ refresh'.pending = refresh.pending /\ Shape'
      BY <1>2, <1>6, <2>1 DEF Shape
    <2>3. \A i \in Jobs : (Running(i)' <=> Running(i) /\ i # j) /\ rtask'[i].group = rtask[i].group
      BY <1>3, <2>1 DEF OnlyMoves, Running, Job
    <2>4. OneRefresh'
      <3>1. \A i \in Jobs : Running(i)' => rtask'[i].group \in refresh'.flight
        BY <1>4, <2>2, <2>3
      <3> QED BY <1>2, <1>4, <2>3, <3>1 DEF OneRefresh, Job
    <2>5. \A h : Requested(h) => Requested(h)'
      BY <1>1, <1>2, <2>1 DEF Requested, OnlyMoves, Job
    <2>6. \A h : h # g /\ ToAsk(h) => ToAsk(h)'
      BY <1>1, <1>2, <2>1, <2>2 DEF ToAsk, OnlyMoves, Job
    <2>7. ~ToAsk(g)
      <3> SUFFICES ASSUME NEW i \in Jobs, rtask[i].at = "fetch", rtask[i].group = g PROVE FALSE
        BY <1>6 DEF ToAsk, Job
      <3>1. Running(i)
        BY DEF Running, Job
      <3> QED BY <1>1, <1>4, <3>1
    <2> QED BY <1>1, <1>2, <2>2, <2>4, <2>5, <2>6, <2>7 DEF NewsFollowed, RefreshInv
  <1> QED BY <1>1, <1>5, <1>6

\* A job that is dropped gives its claim back.
LEMMA UnwindStep ==
  ASSUME Shape, RefreshInv, NEW j \in Jobs, Unwind(j)
  PROVE  Shape' /\ RefreshInv'
  <1> DEFINE g == rtask[j].group
  <1>1. /\ rtask[j].at = "answer" /\ UNCHANGED lmenu /\ GoOn(j, "done")
        /\ refresh' = [refresh EXCEPT !.flight = @ \ {g}]
        /\ news' = {h \in news : h = g => Requested(h)}
    BY DEF Unwind, Job, LiveRest
  <1>2. Jobs' = Jobs /\ (Refreshes' <=> Refreshes)
    BY <1>1, SameJobs
  <1>3. OnlyMoves(j, "done", g) /\ DOMAIN rtask' = Jobs' /\ \A i \in Jobs' : {"at", "group"} \subseteq DOMAIN rtask'[i]
    BY <1>1, GoingOn
  <1>4. refresh'.flight = refresh.flight \ {g} /\ refresh'.pending = refresh.pending /\ Shape'
    BY <1>1, <1>2, <1>3 DEF Shape
  <1>5. /\ \A i \in Jobs : Running(i) => rtask[i].group \in refresh.flight
        /\ \A i, k \in Jobs : Running(i) /\ Running(k) /\ rtask[i].group = rtask[k].group => i = k
        /\ Running(j)
    BY <1>1 DEF OneRefresh, RefreshInv, Job, Running
  <1>6. \A i \in Jobs : (Running(i)' <=> Running(i) /\ i # j) /\ rtask'[i].group = rtask[i].group
    BY <1>3 DEF OnlyMoves, Running, Job
  <1>7. OneRefresh'
    <2>1. \A i \in Jobs : Running(i)' => rtask'[i].group \in refresh'.flight
      BY <1>4, <1>5, <1>6
    <2> QED BY <1>2, <1>5, <1>6, <2>1 DEF OneRefresh, Job
  <1>8. \A h : Requested(h) => Requested(h)'
    BY <1>1, <1>2, <1>3 DEF Requested, OnlyMoves, Job
  <1>9. \A h : ToAsk(h) => ToAsk(h)'
    BY <1>1, <1>2, <1>3, <1>4 DEF ToAsk, OnlyMoves, Job
  <1> QED BY <1>1, <1>2, <1>4, <1>7, <1>8, <1>9 DEF NewsFollowed, RefreshInv

\* A refresh between the answer of the room and its end.
LEMMA InsideStep ==
  ASSUME Shape, RefreshInv, NEW j \in Jobs,
         FetchAnswer(j) \/ Compare(j) \/ StoreList(j) \/ CacheList(j) \/ LockFree(j)
  PROVE  Shape' /\ RefreshInv'
  <1>1. /\ UNCHANGED <<refresh, news, lmenu>> /\ rtask[j].at \in {"answer", "lock", "store", "cache", "free"}
        /\ \E s \in {"again", "lock", "store", "cache", "free"} : GoOn(j, s)
    BY DEF FetchAnswer, Compare, StoreList, CacheList, LockFree, Job, LiveRest
  <1>2. PICK s \in {"again", "lock", "store", "cache", "free"} : GoOn(j, s)
    BY <1>1
  <1>3. /\ OnlyMoves(j, s, rtask[j].group)
        /\ DOMAIN rtask' = Jobs' /\ \A i \in Jobs' : {"at", "group"} \subseteq DOMAIN rtask'[i]
    BY <1>1, <1>2, GoingOn
  <1>4. Shape'
    BY <1>1, <1>3 DEF Shape
  <1>5. Running(j) /\ Running(j)' /\ rtask[j].at # "fetch"
    BY <1>1, <1>3 DEF Running, Job, OnlyMoves
  <1> QED BY <1>1, <1>3, <1>4, <1>5, MoveInside

\* The poll between two refreshes.
LEMMA PollStep ==
  ASSUME Shape, RefreshInv,
         \/ Poll \/ SeedScan \/ Seed \/ LiveSnapshot \/ LivekitGroupIds \/ PollNext
         \/ \E g \in lmenu.groups : Clear(g)
  PROVE  Shape' /\ RefreshInv'
  <1>1. 0 \in Jobs
    BY DEF Jobs
  <1>2. /\ UNCHANGED <<refresh, news, lmenu>>
        /\ rtask[0].at \in {"idle", "done", "scan", "seed", "snapshot", "clear", "next"}
    BY DEF Poll, SeedScan, Seed, LiveSnapshot, LivekitGroupIds, PollNext, Clear, Job, LiveRest
  <1>3. Jobs' = Jobs
    BY <1>2, SameJobs
  <1>4. \E s, g : /\ OnlyMoves(0, s, g) /\ s \in {"clear", "snapshot", "scan", "seed", "next", "claim", "done"}
                  /\ Shape'
    <2>1. CASE Poll
      <3>1. PICK s \in {"clear", "snapshot", "scan"} : rtask' = [rtask EXCEPT ![0] = [NoJob EXCEPT !.at = s]]
        BY <2>1 DEF Poll
      <3> QED BY <1>1, <1>2, <1>3, <3>1 DEF OnlyMoves, Shape, NoJob
    <2>2. CASE SeedScan
      <3>1. PICK s \in {"snapshot", "seed"} : \E x : rtask' = [rtask EXCEPT ![0].at = s, ![0].got = x]
        BY <2>2 DEF SeedScan
      <3> QED BY <1>1, <1>2, <1>3, <3>1 DEF OnlyMoves, Shape
    <2>3. CASE Seed
      BY <1>1, <1>2, <1>3, <2>3, GoingOn DEF Seed, Shape
    <2>4. CASE LiveSnapshot
      <3>1. PICK x, y, z : rtask' = [rtask EXCEPT ![0].at = "clear", ![0].live = x, ![0].known = y, ![0].todo = z]
        BY <2>4 DEF LiveSnapshot
      <3> QED BY <1>1, <1>2, <1>3, <3>1 DEF OnlyMoves, Shape
    <2>5. CASE LivekitGroupIds
      <3>1. PICK x : rtask' = [rtask EXCEPT ![0].at = "next", ![0].todo = x]
        BY <2>5 DEF LivekitGroupIds
      <3> QED BY <1>1, <1>2, <1>3, <3>1 DEF OnlyMoves, Shape
    <2>6. CASE PollNext
      <3>1. CASE GoOn(0, "done")
        BY <1>1, <1>2, <1>3, <3>1, GoingOn DEF Shape
      <3>2. CASE \E g, x : rtask' = [rtask EXCEPT ![0].at = "claim", ![0].group = g, ![0].todo = x]
        <4>1. PICK g, x : rtask' = [rtask EXCEPT ![0].at = "claim", ![0].group = g, ![0].todo = x]
          BY <3>2
        <4> QED BY <1>1, <1>2, <1>3, <4>1 DEF OnlyMoves, Shape
      <3> QED BY <2>6, <3>1, <3>2 DEF PollNext
    <2>7. CASE \E g \in lmenu.groups : Clear(g)
      <3>1. PICK x : rtask' = [rtask EXCEPT ![0].todo = x]
        BY <2>7 DEF Clear
      <3>2. rtask[0].at = "clear"
        BY <2>7 DEF Clear, Job
      <3> QED BY <1>1, <1>2, <1>3, <3>1, <3>2 DEF OnlyMoves, Shape
    <2> QED BY <2>1, <2>2, <2>3, <2>4, <2>5, <2>6, <2>7
  <1>5. PICK s, g : /\ OnlyMoves(0, s, g) /\ s \in {"clear", "snapshot", "scan", "seed", "next", "claim", "done"}
                    /\ Shape'
    BY <1>4
  <1>6. ~Running(0) /\ rtask[0].at # "claim" /\ ~Running(0)'
    BY <1>1, <1>2, <1>5 DEF Running, Job, OnlyMoves
  <1> QED BY <1>1, <1>2, <1>5, <1>6, MoveOutside

\* A restart ends every job.
LEMMA RestartStep ==
  ASSUME Shape, RefreshInv, LiveRestart
  PROVE  Shape' /\ RefreshInv'
  <1>1. /\ rtask' = [j \in Jobs |-> IF j = 0 \/ rtask[j].at = "idle" THEN NoJob ELSE [NoJob EXCEPT !.at = "done"]]
        /\ refresh' = [flight |-> {}, pending |-> {}] /\ news' = {} /\ lmenu' = lmenu
    BY DEF LiveRestart, Job
  <1>2. Jobs' = Jobs
    BY <1>1, SameJobs
  <1>3. Shape' /\ \A j \in Jobs : rtask'[j].at \in {"idle", "done"}
    BY <1>1, <1>2 DEF Shape, NoJob
  <1>4. \A j \in Jobs : ~Running(j)'
    BY <1>3 DEF Running, Job
  <1> QED BY <1>1, <1>2, <1>3, <1>4 DEF RefreshInv, OneRefresh, NewsFollowed

\* The invariant holds at the start,
LEMMA RefreshStart == LiveInit => Shape /\ RefreshInv
  <1> SUFFICES ASSUME LiveInit PROVE Shape /\ RefreshInv
    OBVIOUS
  <1>1. /\ rtask = [j \in Jobs |-> NoJob] /\ refresh = [flight |-> {}, pending |-> {}] /\ news = {}
    BY DEF LiveInit
  <1>2. Shape /\ \A j \in Jobs : rtask[j].at = "idle"
    BY <1>1 DEF Shape, NoJob
  <1>3. \A j \in Jobs : ~Running(j)
    BY <1>2 DEF Running, Job
  <1> QED BY <1>1, <1>2, <1>3 DEF RefreshInv, OneRefresh, NewsFollowed

\* and every step keeps it.
LEMMA RefreshStep == Shape /\ RefreshInv /\ [LiveNext]_lvars => Shape' /\ RefreshInv'
  <1> SUFFICES ASSUME Shape, RefreshInv, [LiveNext]_lvars PROVE Shape' /\ RefreshInv'
    OBVIOUS
  <1>1. CASE UNCHANGED <<rtask, refresh, news, lmenu>>
    BY <1>1, MoveNothing, SameJobs DEF Shape
  <1>2. CASE Token \/ EditGroup \/ Move \/ UNCHANGED lvars
    BY <1>1, <1>2 DEF Token, EditGroup, Move, lvars
  <1>3. CASE \E j \in Jobs : \/ Webhook(j) \/ Claim(j) \/ FetchParticipants(j) \/ FetchAnswer(j) \/ Compare(j)
                             \/ StoreList(j) \/ CacheList(j) \/ LockFree(j) \/ Again(j) \/ Unwind(j)
    BY <1>3, WebhookStep, ClaimStep, FetchStep, InsideStep, AgainStep, UnwindStep
  <1> QED BY <1>2, <1>3, PollStep, RestartStep DEF LiveNext

\* refresh_livekit_participants: whatever the order of the webhooks, the poll, the edits, the failures and the restarts,
\* a webhook a refresh can follow has one running for its group, or about to look, or the room was asked after it.
THEOREM WebhookCorrect == LiveSpec => []WebhookAnswered
  <1>1. Shape /\ RefreshInv => WebhookAnswered
    BY DEF RefreshInv, NewsFollowed, WebhookAnswered
  <1> QED BY <1>1, RefreshStart, RefreshStep, PTL DEF LiveSpec

-----------------------------------------------------------------------------
(* The replay guard *)

\* The entry an authorization gets when it is admitted as the n-th.
Entry(t, n) ==
    [token |-> t, expiry |-> Expiry(t), presented |-> n, protected |-> t.rpc /\ t.author \in Managers]
Admission(t, n) == [token |-> t, presented |-> n, protected |-> t.rpc /\ t.author \in Managers]

\* Whether an entry is protected follows from its token, and nothing was
\* admitted before its time: so an authorization that no longer verifies
\* never verifies again, and no entry outlives or precedes its token.
HistoryInv ==
    /\ order \in Nat /\ clock \in Nat
    /\ \A e \in seen : \E t \in Tokens, n \in 0..order : e = Entry(t, n)
    /\ \A a \in admitted : \E t \in Tokens, n \in 0..order :
          a = Admission(t, n) /\ t.created - clock <= Window

GuardInv == HistoryInv /\ CaptureRemembered /\ GuardBounded

\* What Present does, in terms of the entries that are not expired.
LiveEntries == {e \in seen : e.expiry > clock}
Protects(t) == t.rpc /\ t.author \in Managers

\* What presenting a token can do.
LEMMA PresentCases ==
  ASSUME NEW t \in Tokens, Present(t)
  PROVE  /\ Verifies(t) /\ order' = order + 1 /\ clock' = clock
         /\ \/ seen' = LiveEntries /\ admitted' = admitted
            \/ /\ seen' = (LiveEntries \ Evictable(LiveEntries, t, Protects(t))) \cup {Entry(t, order + 1)}
               /\ admitted' = admitted \cup {Admission(t, order + 1)}
               /\ MustEvict(LiveEntries, t, Protects(t)) => Evictable(LiveEntries, t, Protects(t)) # {}
  BY DEF Present, LiveEntries, Protects, Entry, Admission

\* An eviction takes an unprotected entry, or one of the same author for a
\* protected authorization.
LEMMA EvictionIsOwn ==
  ASSUME NEW live, NEW t, NEW p, NEW e \in Evictable(live, t, p)
  PROVE  e \in live /\ (~e.protected \/ (p /\ e.protected /\ e.token.author = t.author))
  BY DEF Evictable, Oldest, Own, OpenSlots

\* The history of admissions keeps its shape.
LEMMA HistoryStep ==
  ASSUME HistoryInv, [GuardNext]_gvars
  PROVE  HistoryInv'
  <1>1. CASE UNCHANGED gvars
    BY <1>1 DEF HistoryInv, gvars
  <1>2. CASE Tick
    <2>1. ASSUME NEW t \in Tokens, t.created - clock <= Window
          PROVE  t.created - clock' <= Window
      BY <1>2, <2>1, GuardType DEF Tick, HistoryInv
    <2> QED BY <1>2, <2>1 DEF Tick, HistoryInv
  <1>3. ASSUME NEW t \in Tokens, Present(t)
        PROVE  HistoryInv'
    <2>1. order' = order + 1 /\ clock' = clock /\ t.created - clock <= Window
      BY <1>3, PresentCases DEF Verifies
    <2>2. order' \in Nat /\ order + 1 \in 0..order' /\ \A n \in 0..order : n \in 0..order'
      BY <2>1 DEF HistoryInv
    <2>3. \A e \in seen' : e \in seen \/ e = Entry(t, order + 1)
      BY <1>3, PresentCases DEF LiveEntries
    <2>4. \A a \in admitted' : a \in admitted \/ a = Admission(t, order + 1)
      BY <1>3, PresentCases
    <2> QED BY <2>1, <2>2, <2>3, <2>4 DEF HistoryInv
  <1> QED BY <1>1, <1>2, <1>3 DEF GuardNext

\* Of an entry and an admission, the fields.
LEMMA EntryFields ==
  ASSUME NEW t, NEW n
  PROVE  /\ Entry(t, n).token = t /\ Entry(t, n).expiry = t.created + Window + 1
         /\ Entry(t, n).presented = n /\ Entry(t, n).protected = Protects(t)
         /\ Admission(t, n).token = t /\ Admission(t, n).presented = n
         /\ Admission(t, n).protected = Protects(t)
  BY DEF Entry, Admission, Expiry, Protects

\* A step forgets no admitted token that could still verify.
LEMMA RememberedStep ==
  ASSUME HistoryInv, CaptureRemembered, [GuardNext]_gvars
  PROVE  CaptureRemembered'
  <1>1. CASE UNCHANGED gvars
    BY <1>1 DEF CaptureRemembered, Verifies, gvars
  <1>2. CASE Tick
    <2>1. ASSUME NEW a \in admitted, Verifies(a.token)'
          PROVE  Verifies(a.token)
      <3>1. PICK t \in Tokens, n \in 0..order : a = Admission(t, n) /\ t.created - clock <= Window
        BY DEF HistoryInv
      <3>2. a.token = t
        BY <3>1, EntryFields
      <3> QED BY <1>2, <2>1, <3>1, <3>2, GuardType DEF Verifies, Tick, HistoryInv
    <2> QED BY <1>2, <2>1 DEF CaptureRemembered, Tick
  <1>3. ASSUME NEW t \in Tokens, Present(t)
        PROVE  CaptureRemembered'
    <2> SUFFICES ASSUME NEW a \in admitted', a.protected, Verifies(a.token)'
                 PROVE  \/ \E e \in seen' : e.token = a.token
                        \/ \E later \in admitted' : /\ later.protected
                                                    /\ later.token.author = a.token.author
                                                    /\ later.presented > a.presented
      BY DEF CaptureRemembered
    <2>0. order' = order + 1 /\ clock' = clock /\ admitted \subseteq admitted'
      BY <1>3, PresentCases
    <2>1. CASE a \notin admitted
      <3>1. a = Admission(t, order + 1) /\ Entry(t, order + 1) \in seen'
        BY <1>3, <2>1, PresentCases
      <3> QED BY <3>1, EntryFields
    <2>2. CASE a \in admitted
      <3>1. Verifies(a.token)
        BY <2>0 DEF Verifies
      <3>2. PICK b \in Tokens, k \in 0..order : a = Admission(b, k)
        BY <2>2 DEF HistoryInv
      <3>3. CASE \E later \in admitted : /\ later.protected
                                         /\ later.token.author = a.token.author
                                         /\ later.presented > a.presented
        BY <2>0, <3>3
      <3>4. CASE \E e \in seen : e.token = a.token
        <4>1. PICK e \in seen : e.token = a.token
          BY <3>4
        <4>2. PICK u \in Tokens, n \in 0..order : e = Entry(u, n)
          BY DEF HistoryInv
        <4>3. e.token = u /\ a.token = b /\ u = b /\ a.presented = k
          BY <3>2, <4>1, <4>2, EntryFields
        <4>4. e.expiry = u.created + Window + 1 /\ e.protected
          BY <3>2, <4>2, <4>3, EntryFields
        <4>5. e \in LiveEntries
          BY <3>1, <4>3, <4>4, GuardType DEF LiveEntries, Verifies, HistoryInv
        <4>6. CASE e \in seen'
          BY <4>1, <4>6
        <4>7. CASE e \notin seen'
          <5>1. /\ e \in Evictable(LiveEntries, t, Protects(t))
                /\ Admission(t, order + 1) \in admitted'
            BY <1>3, <4>5, <4>7, PresentCases
          <5>2. Protects(t) /\ e.token.author = t.author
            BY <4>4, <5>1, EvictionIsOwn
          <5>3. order + 1 > a.presented
            BY <4>3 DEF HistoryInv
          <5> QED BY <4>3, <5>1, <5>2, <5>3, EntryFields
        <4> QED BY <4>6, <4>7
      <3> QED BY <2>2, <3>1, <3>3, <3>4 DEF CaptureRemembered
    <2> QED BY <2>1, <2>2
  <1> QED BY <1>1, <1>2, <1>3 DEF GuardNext

\* A set that gives up some of its elements and takes one is no larger.
LEMMA Replaced ==
  ASSUME NEW S, IsFiniteSet(S), NEW V, NEW x
  PROVE  /\ IsFiniteSet((S \ V) \cup {x})
         /\ Cardinality((S \ V) \cup {x}) \in Nat /\ Cardinality(S) \in Nat
         /\ Cardinality((S \ V) \cup {x}) <= Cardinality(S) + 1
         /\ V \cap S # {} => Cardinality((S \ V) \cup {x}) <= Cardinality(S)
  <1>1. IsFiniteSet(S \ V) /\ Cardinality(S \ V) \in Nat /\ Cardinality(S) \in Nat
        /\ Cardinality(S \ V) <= Cardinality(S)
    BY FS_Subset, FS_CardinalityType
  <1>2. IsFiniteSet((S \ V) \cup {x}) /\ Cardinality((S \ V) \cup {x}) \in Nat
        /\ Cardinality((S \ V) \cup {x}) <= Cardinality(S \ V) + 1
    <2> DEFINE R == S \ V
    <2>1. IsFiniteSet(R) /\ Cardinality(R) \in Nat
      BY <1>1
    <2> HIDE DEF R
    <2>2. IsFiniteSet(R \cup {x})
      BY <2>1, FS_AddElement
    <2>3. Cardinality(R \cup {x}) = IF x \in R THEN Cardinality(R) ELSE Cardinality(R) + 1
      BY <2>1, FS_AddElement
    <2> QED BY <2>1, <2>2, <2>3 DEF R
  <1>3. V \cap S # {} => Cardinality(S \ V) < Cardinality(S)
    <2>1. V \cap S # {} => S \ V # S
      OBVIOUS
    <2> QED BY <1>1, <2>1, FS_Subset
  <1> QED BY <1>1, <1>2, <1>3

\* A step keeps the guard within its capacity.
LEMMA BoundedStep ==
  ASSUME HistoryInv, GuardBounded, [GuardNext]_gvars
  PROVE  GuardBounded'
  <1>1. CASE UNCHANGED seen
    BY <1>1 DEF GuardBounded, Own
  <1>2. ASSUME NEW t \in Tokens, Present(t)
        PROVE  GuardBounded'
    <2> DEFINE V == Evictable(LiveEntries, t, Protects(t))
    <2>1. /\ IsFiniteSet(LiveEntries) /\ Cardinality(LiveEntries) \in Nat
          /\ Cardinality(LiveEntries) <= MaxSeen
      <3>1. LiveEntries \subseteq seen /\ IsFiniteSet(seen) /\ Cardinality(seen) <= MaxSeen
        BY DEF LiveEntries, GuardBounded
      <3> QED BY <3>1, FS_Subset, FS_CardinalityType, GuardType
    <2>2. ASSUME NEW u \in Tokens
          PROVE  /\ IsFiniteSet(Own(LiveEntries, u)) /\ Cardinality(Own(LiveEntries, u)) \in Nat
                 /\ Cardinality(Own(LiveEntries, u)) <= MaxOwn
      <3>1. Own(LiveEntries, u) \subseteq Own(seen, u) /\ Own(seen, u) \subseteq seen
        BY DEF LiveEntries, Own
      <3>2. IsFiniteSet(Own(seen, u)) /\ Cardinality(Own(seen, u)) <= MaxOwn
        BY <3>1, FS_Subset DEF GuardBounded
      <3> QED BY <3>1, <3>2, FS_Subset, FS_CardinalityType, GuardType
    <2>3. CASE seen' = LiveEntries
      BY <2>1, <2>2, <2>3 DEF GuardBounded, Own
    <2>4. CASE /\ seen' = (LiveEntries \ V) \cup {Entry(t, order + 1)}
               /\ MustEvict(LiveEntries, t, Protects(t)) => V # {}
      <3>1. V \subseteq LiveEntries
        BY DEF Evictable, Oldest, Own, OpenSlots
      <3>2. V \cap LiveEntries # {} \/ Cardinality(LiveEntries) < MaxSeen
        BY <2>1, <2>4, <3>1, GuardType DEF MustEvict
      <3>3. IsFiniteSet(seen') /\ Cardinality(seen') <= MaxSeen
        <4> DEFINE x == Entry(t, order + 1)
        <4>1. seen' = (LiveEntries \ V) \cup {x}
          BY <2>4
        <4> HIDE DEF V, x
        <4>2. /\ IsFiniteSet((LiveEntries \ V) \cup {x})
              /\ Cardinality((LiveEntries \ V) \cup {x}) \in Nat
              /\ Cardinality((LiveEntries \ V) \cup {x}) <= Cardinality(LiveEntries) + 1
              /\ V \cap LiveEntries # {} =>
                   Cardinality((LiveEntries \ V) \cup {x}) <= Cardinality(LiveEntries)
          BY <2>1, Replaced
        <4> QED BY <2>1, <3>2, <4>1, <4>2, GuardType
      <3>4. ASSUME NEW u \in Tokens
            PROVE  Cardinality(Own(seen', u)) <= MaxOwn
        <4> DEFINE O == Own(LiveEntries, u)
        <4>1. CASE Protects(t) /\ t.author = u.author
          <5>1. Own(LiveEntries, t) = O
            BY <4>1 DEF Own
          <5> DEFINE x == Entry(t, order + 1)
          <5>2. Own(seen', u) = (O \ V) \cup {x}
            <6>1. seen' = (LiveEntries \ V) \cup {x}
              BY <2>4
            <6>2. x.protected /\ x.token.author = u.author
              BY <4>1, EntryFields
            <6> HIDE DEF V, x
            <6> QED BY <6>1, <6>2 DEF Own
          <5>3. V \cap O # {} \/ Cardinality(O) < MaxOwn
            <6>1. CASE Cardinality(O) >= MaxOwn
              <7>1. V = Oldest(O) /\ V # {}
                BY <2>4, <4>1, <5>1, <6>1 DEF Evictable, MustEvict
              <7> QED BY <7>1 DEF Oldest
            <6>2. CASE ~(Cardinality(O) >= MaxOwn)
              BY <2>2, <6>2, GuardType
            <6> QED BY <6>1, <6>2
          <5>4. IsFiniteSet(O) /\ Cardinality(O) \in Nat /\ Cardinality(O) <= MaxOwn
            BY <2>2
          <5> HIDE DEF V, O, x
          <5>5. /\ Cardinality((O \ V) \cup {x}) \in Nat
                /\ Cardinality((O \ V) \cup {x}) <= Cardinality(O) + 1
                /\ V \cap O # {} => Cardinality((O \ V) \cup {x}) <= Cardinality(O)
            BY <5>4, Replaced
          <5> QED BY <5>2, <5>3, <5>4, <5>5, GuardType
        <4>2. CASE ~(Protects(t) /\ t.author = u.author)
          <5>1. Own(seen', u) \subseteq O
            BY <2>4, <4>2, EntryFields DEF Own
          <5> QED BY <2>2, <5>1, FS_Subset, FS_CardinalityType, GuardType
        <4> QED BY <4>1, <4>2
      <3> QED BY <3>3, <3>4 DEF GuardBounded
    <2> QED BY <1>2, <2>3, <2>4, PresentCases
  <1> QED BY <1>1, <1>2 DEF GuardNext, Tick, gvars

\* The invariant holds at the start.
LEMMA GuardStart == GuardInit => GuardInv
  <1> SUFFICES ASSUME GuardInit PROVE GuardInv
    OBVIOUS
  <1>1. seen = {} /\ admitted = {} /\ order = 0 /\ clock = 0
    BY DEF GuardInit
  <1>2. HistoryInv /\ CaptureRemembered
    BY <1>1 DEF HistoryInv, CaptureRemembered
  <1>3. Cardinality({}) = 0 /\ IsFiniteSet({})
    BY FS_EmptySet
  <1>4. \A t : Own(seen, t) = {}
    BY <1>1 DEF Own
  <1> QED BY <1>1, <1>2, <1>3, <1>4, GuardType DEF GuardInv, GuardBounded

\* NIP-98, accept_as: every behaviour of the guard keeps its invariant.
LEMMA GuardKeepsInv == GuardSpec => []GuardInv
  <1>1. GuardInv /\ [GuardNext]_gvars => GuardInv'
    BY HistoryStep, RememberedStep, BoundedStep DEF GuardInv
  <1> QED BY GuardStart, <1>1, PTL DEF GuardSpec

\* accept_as, sweep and evict: a management authorization that was admitted
\* and still verifies is found in the guard when it is presented again, or
\* its own author has had a later one admitted, whatever anybody else
\* presents and however full the guard is.
THEOREM CaptureCorrect == GuardSpec => []CaptureRemembered
  <1>1. GuardInv => CaptureRemembered
    BY DEF GuardInv
  <1> QED BY <1>1, GuardKeepsInv, PTL

\* accept_as: the guard holds at most MAX_ENTRIES entries and at most
\* MAX_PROTECTED_PER_AUTHOR of one management identity.
THEOREM BoundedCorrect == GuardSpec => []GuardBounded
  <1>1. GuardInv => GuardBounded
    BY DEF GuardInv
  <1> QED BY <1>1, GuardKeepsInv, PTL

-----------------------------------------------------------------------------
(* The access lists and their journal *)

\* The steps of a call before it takes a number, those that hold persist_lock, those that hold the state lock.
Early == {"idle", "moderate", "room", "apply", "field", "file", "rollback", "blossom", "list", "save"}
Taking == {"state", "take", "append", "load", "merge", "seal"}
Writing == {"take", "append", "load", "merge", "seal", "list", "save"}

\* Every operation of ops is in the history of the journal.
Logged(ops) == \A i \in 1..Len(ops) : \E j \in 1..Len(log) : log[j] = ops[i]

\* The number of an operation: how many were queued up to it.  Operations are committed in the order of their numbers.
Past == queue.seq - Len(queue.ops)
Waiting(o, n) == \E i \in 1..Len(queue.ops) : queue.ops[i] = o /\ Past + i <= n
InHand(d, o, n) == call[d].at = "append" /\ \E i \in 1..Len(call[d].batch) : call[d].batch[i] = o /\ call[d].seq - Len(call[d].batch) + i <= n
Owed(o, n) == (\E j \in 1..Len(log) : log[j] = o) \/ Waiting(o, n) \/ \E d \in Callers : InHand(d, o, n)

\* What a call holds.
ShapeOf(c) ==
    /\ {"at", "ops", "target", "batch", "seq", "loaded", "prev", "ok"} \subseteq DOMAIN call[c]
    /\ call[c].ops \in Seq(AccessOp) /\ call[c].batch \in Seq(AccessOp) /\ call[c].target \in Nat /\ call[c].seq \in Nat

\* What the access part of the relay holds.
AccessTypeOK ==
    /\ amenu \in AccessMenus /\ log \in Seq(AccessOp)
    /\ queue \in [ops : Seq(AccessOp), seq : Nat, persisted : Nat]
    /\ disk \in [base : AccessLists \cup {NoKey}, journal : Seq(AccessOp)]
    /\ {"persist", "state", "blossom"} \subseteq DOMAIN locks /\ {"at", "n", "loaded"} \subseteq DOMAIN cli
    /\ {"at", "lists", "ops"} \subseteq DOMAIN hup /\ cli.n \in Nat
    /\ DOMAIN call = Callers /\ \A c \in Callers : ShapeOf(c)

\* Who takes and writes operations holds the locks, and the command line edits what it loaded.
LockOf(c) == (call[c].at \in Taking => locks.persist = c) /\ (call[c].at \in Writing => locks.state = c)
LockInv ==
    /\ \A c \in Callers : LockOf(c)
    /\ cli.at \in {"load", "save", "signal"} => locks.state = Cli /\ cli.n < Len(amenu.cli)
    /\ hup.at \in {"clone", "replace"} => locks.persist = Cli
    /\ cli.at = "save" => {"access", "had", "allow"} \subseteq DOMAIN cli.loaded /\ cli.loaded.access = Resolve(disk)

\* A call that is past its write, or was told so, has its operations in the history.
Told(c) == call[c].ok = TRUE
CallOf(c) ==
    /\ call[c].at \in Early => call[c].ops = <<>>
    /\ call[c].at \in {"room", "apply"} => Request(c).key # NoKey
    /\ call[c].at # "done" => ~Told(c)
    /\ call[c].at \in {"load", "merge", "seal"} => Logged(call[c].ops)
    /\ call[c].at = "done" /\ Told(c) => Logged(call[c].ops)

CallInv == \A c \in Callers : CallOf(c)

\* What a call still has to see written is queued or in a writer's hand, with a number it waits for.
QueueOf(c) ==
    /\ call[c].at \in {"append", "load", "merge", "seal"} => call[c].seq = Past
    /\ call[c].at = "append" => queue.persisted <= call[c].seq - Len(call[c].batch) /\ call[c].target <= call[c].seq
    /\ call[c].at \in {"lock", "state", "take"} => call[c].target <= queue.seq
    /\ call[c].at = "persist" => \A i \in 1..Len(call[c].ops) : Owed(call[c].ops[i], queue.seq)
    /\ call[c].at \in {"lock", "state", "take", "append"} => \A i \in 1..Len(call[c].ops) : Owed(call[c].ops[i], call[c].target)
QueueInv == queue.persisted <= Past /\ \A c \in Callers : QueueOf(c)
AccessInv == AccessTypeOK /\ LockInv /\ CallInv /\ QueueInv /\ NoEditLost

-----------------------------------------------------------------------------
(* Replaying operations *)

\* A run of operations has a state after each of them.
LEMMA RunExists ==
  ASSUME NEW s, NEW ops \in Seq(AccessOp)
  PROVE  \E f : f = [n \in 0..Len(ops) |-> IF n = 0 THEN s ELSE ApplyOp(f[n - 1], ops[n])]
  <1> DEFINE P(m) == \E f : f = [n \in 0..m |-> IF n = 0 THEN s ELSE ApplyOp(f[n - 1], ops[n])]
             Bad == {m \in Nat : ~P(m)}
  <1>1. P(0)
    <2> DEFINE g == [n \in 0..0 |-> s]
    <2>1. g = [n \in 0..0 |-> IF n = 0 THEN s ELSE ApplyOp(g[n - 1], ops[n])]
      OBVIOUS
    <2> HIDE DEF g
    <2> QED BY <2>1
  <1>2. ASSUME NEW m \in Nat, P(m) PROVE P(m + 1)
    <2>1. PICK f : f = [n \in 0..m |-> IF n = 0 THEN s ELSE ApplyOp(f[n - 1], ops[n])]
      BY <1>2
    <2> DEFINE g == [n \in 0..(m + 1) |-> IF n = m + 1 THEN ApplyOp(f[m], ops[n]) ELSE f[n]]
    <2>2. ASSUME NEW n \in 0..(m + 1) PROVE g[n] = IF n = 0 THEN s ELSE ApplyOp(g[n - 1], ops[n])
      <3>1. CASE n = m + 1
        BY <3>1
      <3>2. CASE n # m + 1
        <4>1. n \in 0..m /\ g[n] = f[n]
          BY <3>2
        <4>2. n # 0 => g[n - 1] = f[n - 1]
          BY <4>1
        <4>3. f[n] = IF n = 0 THEN s ELSE ApplyOp(f[n - 1], ops[n])
          BY <2>1, <4>1
        <4> HIDE DEF g
        <4> QED BY <4>1, <4>2, <4>3
      <3> QED BY <3>1, <3>2
    <2>3. g = [n \in 0..(m + 1) |-> g[n]]
      OBVIOUS
    <2> HIDE DEF g
    <2>4. g = [n \in 0..(m + 1) |-> IF n = 0 THEN s ELSE ApplyOp(g[n - 1], ops[n])]
      BY <2>2, <2>3
    <2> QED BY <2>4
  <1> HIDE DEF P
  <1>3. Bad = {}
    <2> SUFFICES ASSUME Bad # {} PROVE FALSE
      OBVIOUS
    <2>1. PICK m \in Bad : \A y \in Bad : m <= y
      BY LeastNumber
    <2>2. m # 0 /\ m \in Nat
      BY <1>1
    <2>3. m - 1 \in Nat /\ m - 1 \notin Bad
      BY <2>1, <2>2
    <2> QED BY <1>2, <2>2, <2>3
  <1>4. Len(ops) \in Nat
    BY LenProperties
  <1>5. P(Len(ops))
    BY <1>3, <1>4
  <1> QED BY <1>5 DEF P

\* f is the run of ops from s: the state after each of them.
RunOf(f, s, ops) == f = [n \in 0..Len(ops) |-> IF n = 0 THEN s ELSE ApplyOp(f[n - 1], ops[n])]

\* Replay reads the last state of a run, and there is one.
LEMMA RunKnown ==
  ASSUME NEW s, NEW ops \in Seq(AccessOp)
  PROVE  \E f : RunOf(f, s, ops) /\ Replay(s, ops) = f[Len(ops)]
  <1> DEFINE f == CHOOSE f : f = [n \in 0..Len(ops) |-> IF n = 0 THEN s ELSE ApplyOp(f[n - 1], ops[n])]
  <1>1. RunOf(f, s, ops)
    BY RunExists DEF RunOf
  <1>2. Replay(s, ops) = f[Len(ops)]
    BY DEF Replay
  <1> QED BY <1>1, <1>2

\* What a run says of each of its states.
LEMMA RunSteps ==
  ASSUME NEW f, NEW s, NEW ops \in Seq(AccessOp), RunOf(f, s, ops)
  PROVE  f[0] = s /\ \A n \in 1..Len(ops) : f[n] = ApplyOp(f[n - 1], ops[n])
  <1>1. Len(ops) \in Nat
    BY LenProperties
  <1> QED BY <1>1 DEF RunOf

\* Two runs over the same operations from the same state go through the same states.
LEMMA SameRun ==
  ASSUME NEW m \in Nat, NEW f, NEW g, NEW ops, f[0] = g[0],
         \A n \in 1..m : f[n] = ApplyOp(f[n - 1], ops[n]),
         \A n \in 1..m : g[n] = ApplyOp(g[n - 1], ops[n])
  PROVE  f[m] = g[m]
  <1> DEFINE Bad == {n \in Nat : n <= m /\ f[n] # g[n]}
  <1>1. Bad = {}
    <2> SUFFICES ASSUME Bad # {} PROVE FALSE
      OBVIOUS
    <2>1. PICK k \in Bad : \A y \in Bad : k <= y
      BY LeastNumber
    <2>2. k \in 1..m /\ k - 1 \in Nat /\ k - 1 \notin Bad
      BY <2>1
    <2>3. f[k - 1] = g[k - 1]
      BY <2>2
    <2> QED BY <2>2, <2>3
  <1> QED BY <1>1

\* Replaying nothing changes nothing.
LEMMA ReplayNothing ==
  ASSUME NEW s
  PROVE  Replay(s, <<>>) = s
  <1>1. <<>> \in Seq(AccessOp) /\ Len(<<>>) = 0
    OBVIOUS
  <1>2. PICK f : RunOf(f, s, <<>>) /\ Replay(s, <<>>) = f[Len(<<>>)]
    BY <1>1, RunKnown
  <1> QED BY <1>1, <1>2, RunSteps

\* Replaying one sequence after another is replaying them in a row.
LEMMA ReplayConcat ==
  ASSUME NEW s, NEW a \in Seq(AccessOp), NEW b \in Seq(AccessOp)
  PROVE  Replay(s, a \o b) = Replay(Replay(s, a), b)
  <1>1. a \o b \in Seq(AccessOp) /\ Len(a) \in Nat /\ Len(b) \in Nat /\ Len(a \o b) = Len(a) + Len(b)
    BY ConcatProperties, LenProperties
  <1>2. PICK f : RunOf(f, s, a \o b) /\ Replay(s, a \o b) = f[Len(a \o b)]
    BY <1>1, RunKnown
  <1>3. PICK g : RunOf(g, s, a) /\ Replay(s, a) = g[Len(a)]
    BY RunKnown
  <1>4. PICK h : RunOf(h, g[Len(a)], b) /\ Replay(g[Len(a)], b) = h[Len(b)]
    BY RunKnown
  <1>5. f[0] = s /\ \A n \in 1..(Len(a) + Len(b)) : f[n] = ApplyOp(f[n - 1], (a \o b)[n])
    BY <1>1, <1>2, RunSteps
  <1>6. g[0] = s /\ \A n \in 1..Len(a) : g[n] = ApplyOp(g[n - 1], a[n])
    BY <1>3, RunSteps
  <1>7. h[0] = g[Len(a)] /\ \A n \in 1..Len(b) : h[n] = ApplyOp(h[n - 1], b[n])
    BY <1>4, RunSteps
  <1>8. f[Len(a)] = g[Len(a)]
    <2>1. \A n \in 1..Len(a) : (a \o b)[n] = a[n]
      BY ConcatProperties
    <2>2. \A n \in 1..Len(a) : f[n] = ApplyOp(f[n - 1], a[n])
      BY <1>1, <1>5, <2>1
    <2> QED BY <1>1, <1>5, <1>6, <2>2, SameRun
  <1>9. f[Len(a) + Len(b)] = h[Len(b)]
    <2> DEFINE k == [n \in 0..Len(b) |-> f[Len(a) + n]]
    <2>1. k[0] = h[0]
      BY <1>1, <1>7, <1>8
    <2>2. ASSUME NEW n \in 1..Len(b) PROVE k[n] = ApplyOp(k[n - 1], b[n])
      <3>1. (a \o b)[Len(a) + n] = b[n]
        BY <1>1, ConcatProperties
      <3>2. Len(a) + n \in 1..(Len(a) + Len(b)) /\ (Len(a) + n) - 1 = Len(a) + (n - 1) /\ n - 1 \in 0..Len(b) /\ n \in 0..Len(b)
        BY <1>1
      <3>3. f[Len(a) + n] = ApplyOp(f[(Len(a) + n) - 1], (a \o b)[Len(a) + n])
        BY <1>5, <3>2
      <3> QED BY <3>1, <3>2, <3>3
    <2>3. k[Len(b)] = f[Len(a) + Len(b)]
      BY <1>1
    <2> HIDE DEF k
    <2>4. \A n \in 1..Len(b) : k[n] = ApplyOp(k[n - 1], b[n])
      BY <2>2
    <2>5. \A n \in 1..Len(b) : h[n] = ApplyOp(h[n - 1], b[n])
      BY <1>7
    <2>6. Len(b) \in Nat
      BY <1>1
    <2>7. k[Len(b)] = h[Len(b)]
      BY <2>1, <2>4, <2>5, <2>6, SameRun
    <2> QED BY <2>3, <2>7
  <1> QED BY <1>1, <1>2, <1>3, <1>4, <1>9

\* An operation makes lists of lists.
LEMMA ApplyType ==
  ASSUME NEW s \in AccessLists, NEW o \in AccessOp
  PROVE  ApplyOp(s, o) \in AccessLists
  <1>1. o.op \in OpKinds /\ {o.key} \subseteq Params
    BY DEF AccessOp
  <1> QED BY <1>1 DEF ApplyOp, AccessLists, OpKinds

\* So does a replay.
LEMMA ReplayType ==
  ASSUME NEW s \in AccessLists, NEW ops \in Seq(AccessOp)
  PROVE  Replay(s, ops) \in AccessLists
  <1>1. PICK f : RunOf(f, s, ops) /\ Replay(s, ops) = f[Len(ops)]
    BY RunKnown
  <1>2. f[0] = s /\ \A n \in 1..Len(ops) : f[n] = ApplyOp(f[n - 1], ops[n])
    BY <1>1, RunSteps
  <1>3. Len(ops) \in Nat /\ \A n \in 1..Len(ops) : ops[n] \in AccessOp
    BY LenProperties, ElementOfSeq
  <1> DEFINE Bad == {n \in Nat : n <= Len(ops) /\ f[n] \notin AccessLists}
  <1>4. Bad = {}
    <2> SUFFICES ASSUME Bad # {} PROVE FALSE
      OBVIOUS
    <2>1. PICK k \in Bad : \A y \in Bad : k <= y
      BY LeastNumber
    <2>2. k \in 1..Len(ops) /\ k - 1 \in Nat /\ k - 1 \notin Bad
      BY <1>2, <1>3, <2>1
    <2>3. f[k - 1] \in AccessLists
      BY <1>3, <2>2
    <2> QED BY <1>2, <1>3, <2>2, <2>3, ApplyType
  <1> QED BY <1>1, <1>3, <1>4

-----------------------------------------------------------------------------
(* Shapes *)

\* Every method and command queues operations.
LEMMA OpsTyped ==
  ASSUME NEW s, NEW r, NEW c \in Nat, r.key \in Params
  PROVE  MethodOps(s, r, c) \in Seq(AccessOp)
  <1>1. \A k \in OpKinds : Op(k, r.key, c) \in AccessOp
    BY DEF Op, AccessOp
  <1>2. PubkeyOps(s, r, c) \in Seq(AccessOp)
    BY <1>1 DEF PubkeyOps, OpKinds
  <1>3. KindOps(s, r, c) \in Seq(AccessOp)
    BY <1>1 DEF KindOps, OpKinds
  <1>4. IpOps(s, r, c) \in Seq(AccessOp)
    BY <1>1 DEF IpOps, OpKinds
  <1>5. GrantOps(s, r, c) \in Seq(AccessOp)
    BY <1>1 DEF GrantOps, OpKinds
  <1>6. CommandOps(s, r, c) \in Seq(AccessOp)
    BY <1>1 DEF CommandOps, OpKinds
  <1> QED BY <1>2, <1>3, <1>4, <1>5, <1>6 DEF MethodOps

\* The stored state resolves to lists.
LEMMA ResolveType ==
  ASSUME NEW d \in [base : AccessLists \cup {NoKey}, journal : Seq(AccessOp)]
  PROVE  Resolve(d) \in AccessLists
  <1>1. NoLists \in AccessLists
    BY DEF NoLists, AccessLists
  <1> QED BY <1>1, ReplayType DEF Resolve

\* A start queues operations.
LEMMA StartTyped ==
  ASSUME amenu \in AccessMenus, disk \in [base : AccessLists \cup {NoKey}, journal : Seq(AccessOp)]
  PROVE  StartOps \in Seq(AccessOp)
  <1>1. SeedOps \in Seq(AccessOp)
    BY AccessMenuType DEF SeedOps
  <1>2. Started.kinds \subseteq Params
    <2>1. PICK x : x = Replay(Resolve(disk), SeedOps)
      OBVIOUS
    <2>2. x \in AccessLists
      BY <2>1, <1>1, ResolveType, ReplayType
    <2>3. Started = [x EXCEPT !.deny = Resolve(disk).deny, !.allow = Resolve(disk).allow]
      BY <2>1 DEF Started
    <2> QED BY <2>2, <2>3 DEF AccessLists
  <1>3. StaleKinds \subseteq Params
    BY <1>2 DEF StaleKinds
  <1> DEFINE S == {Op("unallowkind", k, Cli) : k \in StaleKinds}
  <1>4. S \subseteq AccessOp
    BY <1>3 DEF Op, AccessOp, OpKinds, Cli
  <1>5. IsFiniteSet(S)
    <2>1. IsFiniteSet(StaleKinds)
      BY <1>3, AccessKeys, FS_Subset
    <2> DEFINE h == [k \in StaleKinds |-> Op("unallowkind", k, Cli)]
    <2>2. h \in Surjection(StaleKinds, S)
      BY DEF Surjection
    <2> HIDE DEF h, S
    <2> QED BY <2>1, <2>2, FS_Surjection
  <1>6. SetToSeq(S) \in Seq(S)
    <2> HIDE DEF S
    <2>1. Cardinality(S) \in Nat /\ \E f : f \in Bijection(1..Cardinality(S), S)
      BY <1>5, FS_CardinalityType DEF ExistsBijection
    <2>2. PICK f : f \in Bijection(1..Cardinality(S), S)
      BY <2>1
    <2>3. f \in [1..Cardinality(S) -> S] /\ IsInjective(f)
      BY <2>2 DEF Bijection, Injection, IsInjective
    <2>4. SetToSeq(S) \in [1..Cardinality(S) -> S]
      BY <2>3 DEF SetToSeq
    <2> QED BY <2>1, <2>4
  <1>7. SetToSeq(S) \in Seq(AccessOp)
    <2> HIDE DEF S
    <2> QED BY <1>4, <1>6, SeqMonotonic
  <1> QED BY <1>1, <1>7 DEF StartOps

-----------------------------------------------------------------------------
(* Steps of a call *)

\* Only the call c moves.
OnlyCall(c) == DOMAIN call' = DOMAIN call /\ \A d \in Callers \ {c} : call'[d] = call[d]
Steady == UNCHANGED <<amenu, queue, log, disk, cli, hup>>

\* A lock is kept, taken by the call or given back by it.
Keeps(l, m, c) == m = l \/ l = NoKey \/ l = c
LockMoves(c) ==
    /\ {"persist", "state", "blossom"} \subseteq DOMAIN locks'
    /\ Keeps(locks.persist, locks'.persist, c) /\ Keeps(locks.state, locks'.state, c)

\* Callers are numbers from 1 on, the command line is 0 and nobody neither.
LEMMA Holders ==
  ASSUME amenu \in AccessMenus
  PROVE  /\ Callers \subseteq Nat \ {0} /\ Cli \notin Callers /\ NoKey \notin Callers /\ NoKey # Cli
         /\ \A c \in Callers : Request(c).key \in Params \cup {NoKey}
  BY AccessKeys, AccessMenuType DEF Callers, Cli, Request

\* What is owed to a call stays owed while nothing is queued, taken or written.
LEMMA OwedKept ==
  ASSUME NEW c \in Callers, OnlyCall(c), UNCHANGED <<amenu, queue, log>>, call[c].at # "append", NEW o, NEW n, Owed(o, n)
  PROVE  Owed(o, n)'
  <1>1. CASE \E d \in Callers : InHand(d, o, n)
    <2>1. PICK d \in Callers : InHand(d, o, n)
      BY <1>1
    <2>2. d # c /\ call'[d] = call[d]
      BY <2>1 DEF InHand, OnlyCall
    <2>3. d \in Callers' /\ InHand(d, o, n)'
      BY <2>1, <2>2 DEF InHand, Callers
    <2> QED BY <2>3 DEF Owed
  <1>2. CASE ~ \E d \in Callers : InHand(d, o, n)
    BY <1>2 DEF Owed, Waiting, Past
  <1> QED BY <1>1, <1>2

\* A step of a call that neither queues nor writes keeps the invariant when it keeps what is said of that call.
LEMMA QuietStep ==
  ASSUME AccessInv, NEW c \in Callers, Steady, OnlyCall(c), LockMoves(c), call[c].at # "append",
         ShapeOf(c)', LockOf(c)', CallOf(c)', QueueOf(c)'
  PROVE  AccessInv'
  <1> USE DEF AccessInv, Steady
  <1>1. Callers' = Callers /\ c \in Callers'
    BY DEF Callers
  <1>2. AccessTypeOK'
    <2>1. ASSUME NEW d \in Callers \ {c} PROVE ShapeOf(d)'
      BY DEF AccessTypeOK, OnlyCall, ShapeOf
    <2> QED BY <1>1, <2>1 DEF AccessTypeOK, OnlyCall, LockMoves
  <1>3. ASSUME NEW d \in Callers \ {c} PROVE LockOf(d)'
    <2>1. d # NoKey /\ call'[d] = call[d]
      BY Holders DEF AccessTypeOK, OnlyCall
    <2> QED BY <2>1 DEF LockInv, LockOf, LockMoves, Keeps
  <1>4. LockInv'
    <2>1. Cli # NoKey /\ Cli # c
      BY Holders DEF AccessTypeOK
    <2>2. \A d \in Callers' : LockOf(d)'
      BY <1>1, <1>3
    <2>3. (cli.at \in {"load", "save", "signal"} => locks.state = Cli /\ cli.n < Len(amenu.cli))'
      BY <2>1 DEF LockInv, LockMoves, Keeps
    <2>4. (hup.at \in {"clone", "replace"} => locks.persist = Cli)'
      BY <2>1 DEF LockInv, LockMoves, Keeps
    <2>5. (cli.at = "save" => {"access", "had", "allow"} \subseteq DOMAIN cli.loaded /\ cli.loaded.access = Resolve(disk))'
      BY DEF LockInv
    <2> QED BY <2>2, <2>3, <2>4, <2>5 DEF LockInv
  <1>5. CallInv'
    <2>1. ASSUME NEW d \in Callers \ {c} PROVE CallOf(d)'
      <3>1. call'[d] = call[d] /\ CallOf(d)
        BY DEF OnlyCall, CallInv
      <3>2. Told(d)' => Told(d)
        BY <3>1 DEF Told
      <3> QED BY <3>1, <3>2 DEF CallOf, Logged, Request
    <2> QED BY <1>1, <2>1 DEF CallInv
  <1>6. QueueInv'
    <2>1. ASSUME NEW d \in Callers \ {c} PROVE QueueOf(d)'
      <3>1. call'[d] = call[d] /\ QueueOf(d)
        BY DEF OnlyCall, QueueInv
      <3>2. (call[d].at = "persist" => \A i \in 1..Len(call[d].ops) : Owed(call[d].ops[i], queue.seq))'
        BY <3>1, OwedKept DEF QueueOf
      <3>3. (call[d].at \in {"lock", "state", "take", "append"} => \A i \in 1..Len(call[d].ops) : Owed(call[d].ops[i], call[d].target))'
        BY <3>1, OwedKept DEF QueueOf
      <3> QED BY <3>1, <3>2, <3>3 DEF QueueOf, Past
    <2>2. (queue.persisted <= Past)'
      BY DEF QueueInv, Past
    <2> QED BY <1>1, <2>1, <2>2 DEF QueueInv
  <1>7. NoEditLost'
    BY DEF NoEditLost
  <1> QED BY <1>2, <1>4, <1>5, <1>6, <1>7

\* A call before its edit goes on before it or ends.
EarlyMove(c) ==
    /\ OnlyCall(c) /\ {"at", "ops", "target", "batch", "seq", "loaded", "prev", "ok"} \subseteq DOMAIN call'[c]
    /\ call'[c].ops = call[c].ops /\ call'[c].batch = call[c].batch /\ call'[c].target = call[c].target /\ call'[c].seq = call[c].seq
    /\ \/ call'[c].at = "done"
       \/ call'[c].at \in Early /\ call'[c].ok = call[c].ok

\* Moving a call to another step, or replying to it.
LEMMA StepIs ==
  ASSUME AccessTypeOK, NEW c \in Callers, NEW s, Step(c, s)
  PROVE  /\ OnlyCall(c) /\ {"at", "ops", "target", "batch", "seq", "loaded", "prev", "ok"} \subseteq DOMAIN call'[c]
         /\ call'[c].ops = call[c].ops /\ call'[c].batch = call[c].batch /\ call'[c].target = call[c].target /\ call'[c].seq = call[c].seq
         /\ call'[c].at = s /\ call'[c].ok = call[c].ok
  BY DEF AccessTypeOK, ShapeOf, Step, OnlyCall

\* The same for a reply.
LEMMA ReplyIs ==
  ASSUME AccessTypeOK, NEW c \in Callers, NEW ok, Reply(c, ok)
  PROVE  /\ OnlyCall(c) /\ {"at", "ops", "target", "batch", "seq", "loaded", "prev", "ok"} \subseteq DOMAIN call'[c]
         /\ call'[c].ops = call[c].ops /\ call'[c].batch = call[c].batch /\ call'[c].target = call[c].target /\ call'[c].seq = call[c].seq
         /\ call'[c].at = "done" /\ call'[c].ok = ok
  <1>1. {"at", "ops", "target", "batch", "seq", "loaded", "prev", "ok"} \subseteq DOMAIN call[c] /\ DOMAIN call = Callers
    BY DEF AccessTypeOK, ShapeOf
  <1>2. PICK r : r = [[call[c] EXCEPT !.at = "done"] EXCEPT !.ok = ok]
    OBVIOUS
  <1>3. call' = [call EXCEPT ![c] = r]
    BY <1>1, <1>2 DEF Reply
  <1> QED BY <1>1, <1>2, <1>3 DEF OnlyCall

\* A step before the edit keeps the invariant.
LEMMA EarlyStep ==
  ASSUME AccessInv, NEW c \in Callers, Steady, EarlyMove(c), LockMoves(c), call[c].at \in Early,
         call'[c].at \in {"list", "save"} => locks'.state = c,
         call'[c].at \in {"room", "apply"} => Request(c).key # NoKey
  PROVE  AccessInv'
  <1>1. call[c].ops = <<>> /\ ~Told(c) /\ call[c].at # "append"
    BY DEF AccessInv, CallInv, CallOf, Early
  <1>2. ShapeOf(c)'
    BY DEF EarlyMove, ShapeOf, AccessInv, AccessTypeOK
  <1>3. LockOf(c)'
    BY DEF EarlyMove, LockOf, Early, Taking, Writing
  <1>4. CallOf(c)'
    <2>1. Told(c)' => call'[c].at = "done"
      BY <1>1 DEF EarlyMove, Told
    <2> QED BY <1>1, <2>1 DEF EarlyMove, CallOf, Early, Logged, Steady, Request
  <1>5. QueueOf(c)'
    BY DEF EarlyMove, QueueOf, Early
  <1>6. OnlyCall(c)
    BY DEF EarlyMove
  <1> QED BY <1>1, <1>2, <1>3, <1>4, <1>5, <1>6, QuietStep

\* A step or a reply before the edit is an early move.
LEMMA EarlyMoves ==
  ASSUME AccessInv, NEW c \in Callers
  PROVE  /\ \A s \in Early : Step(c, s) => EarlyMove(c) /\ call'[c].at = s
         /\ \A ok : Reply(c, ok) => EarlyMove(c) /\ call'[c].at = "done"
  <1>1. AccessTypeOK
    BY DEF AccessInv
  <1>2. ASSUME NEW s \in Early, Step(c, s) PROVE EarlyMove(c) /\ call'[c].at = s
    BY <1>1, <1>2, StepIs DEF EarlyMove
  <1>3. ASSUME NEW ok, Reply(c, ok) PROVE EarlyMove(c) /\ call'[c].at = "done"
    BY <1>1, <1>3, ReplyIs DEF EarlyMove
  <1> QED BY <1>2, <1>3

\* The steps before the edit, and those of the calls that edit no list, keep the invariant.
LEMMA EarlySteps ==
  ASSUME AccessInv, NEW c \in Callers,
         \/ Enter(c) \/ Moderate(c) \/ Room(c) \/ FieldSet(c) \/ FieldPersist(c) \/ FieldRollback(c)
         \/ BlossomLock(c) \/ BlossomMerge(c) \/ BlossomSave(c)
  PROVE  AccessInv'
  <1> USE DEF Standing
  <1>0. {"persist", "state", "blossom"} \subseteq DOMAIN locks /\ DOMAIN call = Callers
    BY DEF AccessInv, AccessTypeOK
  <1>a. locks' = locks => LockMoves(c)
    BY <1>0 DEF LockMoves, Keeps
  <1>1. CASE Enter(c)
    <2>1. Steady /\ locks' = locks /\ call[c].at \in Early
      BY <1>1 DEF Enter, Steady, Early
    <2>2. CASE Reply(c, FALSE)
      BY <1>a, <2>1, <2>2, EarlyMoves, EarlyStep
    <2>3. CASE ~Reply(c, FALSE)
      <3>1. Request(c).key # NoKey /\ \E s \in {"blossom", "field", "moderate", "room"} : Step(c, s)
        BY <1>1, <2>3 DEF Enter, WellFormed
      <3>2. PICK s \in {"blossom", "field", "moderate", "room"} : Step(c, s)
        BY <3>1
      <3>3. EarlyMove(c) /\ call'[c].at = s
        BY <3>2, EarlyMoves DEF Early
      <3> QED BY <1>a, <2>1, <3>1, <3>3, EarlyStep
    <2> QED BY <2>2, <2>3
  <1>2. CASE Moderate(c)
    <2>1. Steady /\ locks' = locks /\ call[c].at \in Early /\ \E ok : Reply(c, ok)
      BY <1>2 DEF Moderate, Steady, Early
    <2> QED BY <1>a, <2>1, EarlyMoves, EarlyStep
  <1>3. CASE Room(c)
    <2>1. Steady /\ locks' = locks /\ call[c].at \in Early /\ call[c].at = "room" /\ (Reply(c, FALSE) \/ Step(c, "apply"))
      BY <1>3 DEF Room, Steady, Early
    <2>2. Request(c).key # NoKey
      BY <2>1 DEF AccessInv, CallInv, CallOf
    <2>3. EarlyMove(c) /\ call'[c].at \in {"done", "apply"}
      BY <2>1, EarlyMoves DEF Early
    <2> QED BY <1>a, <2>1, <2>2, <2>3, EarlyStep
  <1>4. CASE FieldSet(c)
    <2>1. Steady /\ locks' = locks /\ call[c].at \in Early
      BY <1>4 DEF FieldSet, Steady, Early
    <2>2. EarlyMove(c) /\ call'[c].at = "file"
      <3>1. {"at", "ops", "target", "batch", "seq", "loaded", "prev", "ok"} \subseteq DOMAIN call[c]
        BY DEF AccessInv, AccessTypeOK, ShapeOf
      <3>2. PICK r : r = [[call[c] EXCEPT !.at = "file"] EXCEPT !.prev = field.mem]
        OBVIOUS
      <3>3. call' = [call EXCEPT ![c] = r]
        BY <1>0, <1>4, <3>1, <3>2 DEF FieldSet
      <3> QED BY <1>0, <3>1, <3>2, <3>3 DEF EarlyMove, OnlyCall, Early
    <2> QED BY <1>a, <2>1, <2>2, EarlyStep
  <1>5. CASE FieldPersist(c)
    <2>1. Steady /\ locks' = locks /\ call[c].at \in Early /\ (Reply(c, TRUE) \/ Step(c, "rollback"))
      BY <1>5 DEF FieldPersist, Steady, Early
    <2>2. EarlyMove(c) /\ call'[c].at \in {"done", "rollback"}
      BY <2>1, EarlyMoves DEF Early
    <2> QED BY <1>a, <2>1, <2>2, EarlyStep
  <1>6. CASE FieldRollback(c)
    <2>1. Steady /\ locks' = locks /\ call[c].at \in Early /\ Reply(c, FALSE)
      BY <1>6 DEF FieldRollback, Steady, Early
    <2>2. EarlyMove(c) /\ call'[c].at = "done"
      BY <2>1, EarlyMoves
    <2> QED BY <1>a, <2>1, <2>2, EarlyStep
  <1>7. CASE BlossomLock(c)
    <2>1. Steady /\ call[c].at \in Early
      BY <1>7 DEF BlossomLock, Steady, Early
    <2>2. CASE locks.state = NoKey /\ locks' = [locks EXCEPT !.blossom = c, !.state = c] /\ Step(c, "list")
      <3>1. EarlyMove(c) /\ call'[c].at = "list"
        BY <2>2, EarlyMoves DEF Early
      <3>2. LockMoves(c) /\ locks'.state = c
        BY <1>0, <2>2 DEF LockMoves, Keeps
      <3> QED BY <2>1, <3>1, <3>2, EarlyStep
    <2>3. CASE Reply(c, FALSE) /\ UNCHANGED locks
      <3>1. EarlyMove(c) /\ call'[c].at = "done"
        BY <2>3, EarlyMoves
      <3> QED BY <1>a, <2>1, <2>3, <3>1, EarlyStep
    <2> QED BY <1>7, <2>2, <2>3 DEF BlossomLock
  <1>8. CASE BlossomMerge(c)
    <2>1. Steady /\ locks' = locks /\ call[c].at = "list" /\ Step(c, "save")
      BY <1>8 DEF BlossomMerge, Steady
    <2>2. EarlyMove(c) /\ call'[c].at = "save" /\ call[c].at \in Early
      BY <2>1, EarlyMoves DEF Early
    <2>3. locks'.state = c
      BY <2>1 DEF AccessInv, LockInv, LockOf, Writing
    <2> QED BY <1>a, <2>1, <2>2, <2>3, EarlyStep
  <1>9. CASE BlossomSave(c)
    <2>1. Steady /\ locks' = [locks EXCEPT !.blossom = NoKey, !.state = NoKey] /\ call[c].at = "save" /\ \E ok : Reply(c, ok)
      BY <1>9 DEF BlossomSave, Steady
    <2>2. EarlyMove(c) /\ call'[c].at = "done" /\ call[c].at \in Early
      BY <2>1, EarlyMoves DEF Early
    <2>3. LockMoves(c)
      <3>1. locks.state = c
        BY <2>1 DEF AccessInv, LockInv, LockOf, Writing
      <3> QED BY <1>0, <2>1, <3>1 DEF LockMoves, Keeps
    <2> QED BY <2>1, <2>2, <2>3, EarlyStep
  <1> QED BY <1>1, <1>2, <1>3, <1>4, <1>5, <1>6, <1>7, <1>8, <1>9

\* What was owed up to a number that counts as persisted is in the history.
LEMMA OwedIsLogged ==
  ASSUME AccessInv, NEW n \in Nat, queue.persisted >= n, NEW o, Owed(o, n)
  PROVE  \E j \in 1..Len(log) : log[j] = o
  <1>1. queue.persisted \in Nat /\ queue.seq \in Nat /\ Len(queue.ops) \in Nat /\ queue.persisted <= Past
    BY LenProperties DEF AccessInv, AccessTypeOK, QueueInv
  <1>2. ~Waiting(o, n)
    BY <1>1 DEF Waiting, Past
  <1>3. ASSUME NEW d \in Callers, InHand(d, o, n) PROVE FALSE
    <2>1. call[d].at = "append" /\ call[d].seq \in Nat /\ Len(call[d].batch) \in Nat
      BY <1>3, LenProperties DEF InHand, AccessInv, AccessTypeOK, ShapeOf
    <2>2. queue.persisted <= call[d].seq - Len(call[d].batch)
      BY <2>1 DEF AccessInv, QueueInv, QueueOf
    <2> QED BY <1>1, <1>3, <2>1, <2>2 DEF InHand
  <1> QED BY <1>2, <1>3 DEF Owed

\* A call goes on from one step of its write to another.
MiddleMove(c) ==
    /\ OnlyCall(c) /\ {"at", "ops", "target", "batch", "seq", "loaded", "prev", "ok"} \subseteq DOMAIN call'[c]
    /\ call'[c].ops = call[c].ops /\ call'[c].batch = call[c].batch /\ call'[c].target = call[c].target /\ call'[c].seq = call[c].seq
    /\ call'[c].ok = call[c].ok

\* Going on with a write keeps the invariant, when the locks are there.
LEMMA MiddleKept ==
  ASSUME AccessInv, NEW c \in Callers, Steady, LockMoves(c), MiddleMove(c),
         \/ call[c].at \in {"lock", "state"} /\ call'[c].at \in {"state", "take"}
         \/ call[c].at \in {"load", "merge"} /\ call'[c].at \in {"merge", "seal"},
         locks'.persist = c, call'[c].at # "state" => locks'.state = c
  PROVE  AccessInv'
  <1>0. ShapeOf(c) /\ LockOf(c) /\ CallOf(c) /\ QueueOf(c)
    BY DEF AccessInv, AccessTypeOK, LockInv, CallInv, QueueInv
  <1>1. ShapeOf(c)'
    BY <1>0 DEF MiddleMove, ShapeOf
  <1>2. LockOf(c)'
    BY DEF LockOf, Taking, Writing
  <1>3. CallOf(c)'
    <2>1. ~Told(c)'
      BY <1>0 DEF CallOf, MiddleMove, Told
    <2> QED BY <1>0, <2>1 DEF CallOf, MiddleMove, Early, Logged, Steady
  <1>4. QueueOf(c)'
    <2>1. CASE call[c].at \in {"load", "merge"}
      BY <1>0, <2>1 DEF QueueOf, MiddleMove, Past, Steady
    <2>2. CASE call[c].at \in {"lock", "state"}
      <3>1. ASSUME NEW i \in 1..Len(call[c].ops) PROVE Owed(call[c].ops[i], call[c].target)'
        <4>1. Owed(call[c].ops[i], call[c].target)
          BY <1>0, <2>2 DEF QueueOf
        <4>2. PICK o, n : o = call[c].ops[i] /\ n = call[c].target
          OBVIOUS
        <4>3. Owed(o, n)'
          BY <2>2, <4>1, <4>2, OwedKept DEF Steady, MiddleMove
        <4>4. call'[c].ops[i] = o /\ call'[c].target = n
          BY <4>2 DEF MiddleMove
        <4> QED BY <4>3, <4>4
      <3> QED BY <1>0, <2>2, <3>1 DEF QueueOf, MiddleMove, Steady
    <2> QED BY <2>1, <2>2
  <1>5. OnlyCall(c)
    BY DEF MiddleMove
  <1> QED BY <1>1, <1>2, <1>3, <1>4, <1>5, QuietStep

\* The same for a plain step.
LEMMA MiddleStep ==
  ASSUME AccessInv, NEW c \in Callers, Steady, LockMoves(c), NEW s, Step(c, s),
         \/ call[c].at \in {"lock", "state"} /\ s \in {"state", "take"}
         \/ call[c].at \in {"load", "merge"} /\ s \in {"merge", "seal"},
         locks'.persist = c, s # "state" => locks'.state = c
  PROVE  AccessInv'
  <1>1. MiddleMove(c) /\ call'[c].at = s
    BY StepIs DEF AccessInv, MiddleMove
  <1> QED BY <1>1, MiddleKept

\* A refused write promises nothing.
LEMMA Refusal ==
  ASSUME AccessInv, NEW c \in Callers, Steady, LockMoves(c), Reply(c, FALSE), call[c].at # "append"
  PROVE  AccessInv'
  <1>0. ShapeOf(c) /\ AccessTypeOK
    BY DEF AccessInv, AccessTypeOK
  <1>1. /\ OnlyCall(c) /\ {"at", "ops", "target", "batch", "seq", "loaded", "prev", "ok"} \subseteq DOMAIN call'[c]
        /\ call'[c].ops = call[c].ops /\ call'[c].batch = call[c].batch /\ call'[c].target = call[c].target /\ call'[c].seq = call[c].seq
        /\ call'[c].at = "done"
    BY <1>0, ReplyIs
  <1>2. ~Told(c)'
    <2>1. call'[c].ok = FALSE
      BY <1>0, ReplyIs
    <2> QED BY <2>1 DEF Told
  <1>3. ShapeOf(c)'
    BY <1>0, <1>1 DEF ShapeOf
  <1>4. LockOf(c)' /\ QueueOf(c)'
    BY <1>1 DEF LockOf, QueueOf, Taking, Writing
  <1>5. CallOf(c)'
    BY <1>1, <1>2 DEF CallOf, Early
  <1> QED BY <1>1, <1>3, <1>4, <1>5, QuietStep

\* The first steps of persist_access keep the invariant.
LEMMA PersistSteps ==
  ASSUME AccessInv, NEW c \in Callers, PersistStart(c) \/ PersistLock(c) \/ StateLock(c) \/ LoadMerged(c) \/ Merge(c)
  PROVE  AccessInv'
  <1> USE DEF Standing
  <1>0. /\ {"persist", "state", "blossom"} \subseteq DOMAIN locks /\ DOMAIN call = Callers /\ AccessTypeOK
        /\ queue.seq \in Nat /\ queue.persisted \in Nat /\ ShapeOf(c)
    BY DEF AccessInv, AccessTypeOK
  <1>a. locks' = locks => LockMoves(c)
    BY <1>0 DEF LockMoves, Keeps
  <1>b. LockOf(c) /\ CallOf(c) /\ QueueOf(c)
    BY DEF AccessInv, LockInv, CallInv, QueueInv
  <1>c. c # NoKey
    BY Holders DEF AccessInv, AccessTypeOK
  <1>1. CASE PersistStart(c)
    <2>1. Steady /\ locks' = locks /\ call[c].at = "persist" /\ LockMoves(c)
      BY <1>1, <1>a DEF PersistStart, Steady
    <2>2. CASE queue.persisted >= queue.seq
      <3>1. Reply(c, TRUE)
        BY <1>1, <2>2 DEF PersistStart
      <3>2. /\ OnlyCall(c) /\ {"at", "ops", "target", "batch", "seq", "loaded", "prev", "ok"} \subseteq DOMAIN call'[c]
            /\ call'[c].ops = call[c].ops /\ call'[c].batch = call[c].batch /\ call'[c].target = call[c].target /\ call'[c].seq = call[c].seq
            /\ call'[c].at = "done"
        BY <1>0, <3>1, ReplyIs
      <3>3. Logged(call[c].ops)
        BY <1>0, <1>b, <2>1, <2>2, OwedIsLogged DEF QueueOf, Logged
      <3>4. ShapeOf(c)'
        BY <1>0, <3>2 DEF ShapeOf
      <3>5. LockOf(c)' /\ QueueOf(c)'
        BY <3>2 DEF LockOf, QueueOf, Taking, Writing
      <3>6. CallOf(c)'
        BY <2>1, <3>2, <3>3 DEF CallOf, Early, Logged, Steady
      <3> QED BY <2>1, <3>2, <3>4, <3>5, <3>6, QuietStep
    <2>3. CASE ~(queue.persisted >= queue.seq)
      <3>1. call' = [call EXCEPT ![c].at = "lock", ![c].target = queue.seq]
        BY <1>1, <2>3 DEF PersistStart
      <3>2. PICK r : r = [[call[c] EXCEPT !.at = "lock"] EXCEPT !.target = queue.seq]
        OBVIOUS
      <3>3. call' = [call EXCEPT ![c] = r]
        BY <1>0, <3>1, <3>2
      <3>4. /\ {"at", "ops", "target", "batch", "seq", "loaded", "prev", "ok"} \subseteq DOMAIN r /\ r.at = "lock" /\ r.target = queue.seq
            /\ r.ops = call[c].ops /\ r.batch = call[c].batch /\ r.seq = call[c].seq /\ r.ok = call[c].ok
        BY <1>0, <3>2 DEF ShapeOf
      <3>5. OnlyCall(c) /\ call'[c] = r
        BY <1>0, <3>3 DEF OnlyCall
      <3>6. ShapeOf(c)'
        BY <1>0, <3>4, <3>5 DEF ShapeOf
      <3>7. LockOf(c)'
        BY <3>4, <3>5 DEF LockOf, Taking, Writing
      <3>8. CallOf(c)'
        <4>1. ~Told(c)'
          BY <1>b, <2>1, <3>4, <3>5 DEF CallOf, Told
        <4> QED BY <4>1, <3>4, <3>5 DEF CallOf, Early
      <3>9. QueueOf(c)'
        <4>1. ASSUME NEW i \in 1..Len(call[c].ops) PROVE Owed(call[c].ops[i], queue.seq)'
          <5>1. Owed(call[c].ops[i], queue.seq)
            BY <1>b, <2>1 DEF QueueOf
          <5>2. PICK o : o = call[c].ops[i]
            OBVIOUS
          <5>3. PICK n : n = queue.seq
            OBVIOUS
          <5>4. Owed(o, n)'
            BY <2>1, <3>5, <5>1, <5>2, <5>3, OwedKept DEF Steady
          <5>5. r.ops[i] = o /\ queue'.seq = n
            BY <2>1, <3>4, <5>2, <5>3 DEF Steady
          <5> QED BY <3>5, <5>4, <5>5
        <4> QED BY <1>0, <2>1, <3>4, <3>5, <4>1 DEF QueueOf, Steady
      <3> QED BY <2>1, <3>5, <3>6, <3>7, <3>8, <3>9, QuietStep
    <2> QED BY <2>2, <2>3
  <1>2. CASE PersistLock(c)
    <2>1. Steady /\ call[c].at = "lock" /\ locks.persist = NoKey
      BY <1>2 DEF PersistLock, Steady
    <2>2. CASE queue.persisted >= call[c].target
      <3>1. Reply(c, TRUE) /\ LockMoves(c)
        BY <1>2, <1>a, <2>2 DEF PersistLock
      <3>2. /\ OnlyCall(c) /\ {"at", "ops", "target", "batch", "seq", "loaded", "prev", "ok"} \subseteq DOMAIN call'[c]
            /\ call'[c].ops = call[c].ops /\ call'[c].batch = call[c].batch /\ call'[c].target = call[c].target /\ call'[c].seq = call[c].seq
            /\ call'[c].at = "done"
        BY <1>0, <3>1, ReplyIs
      <3>3. Logged(call[c].ops)
        BY <1>0, <1>b, <2>1, <2>2, OwedIsLogged DEF QueueOf, Logged, ShapeOf
      <3>4. ShapeOf(c)'
        BY <1>0, <3>2 DEF ShapeOf
      <3>5. LockOf(c)' /\ QueueOf(c)'
        BY <3>2 DEF LockOf, QueueOf, Taking, Writing
      <3>6. CallOf(c)'
        BY <2>1, <3>2, <3>3 DEF CallOf, Early, Logged, Steady
      <3> QED BY <2>1, <3>1, <3>2, <3>4, <3>5, <3>6, QuietStep
    <2>3. CASE ~(queue.persisted >= call[c].target)
      <3>1. Step(c, "state") /\ locks' = [locks EXCEPT !.persist = c]
        BY <1>2, <2>3 DEF PersistLock
      <3>2. LockMoves(c) /\ locks'.persist = c
        BY <1>0, <2>1, <3>1 DEF LockMoves, Keeps
      <3> QED BY <1>0, <1>b, <2>1, <3>1, <3>2, MiddleStep
    <2> QED BY <2>2, <2>3
  <1>3. CASE StateLock(c)
    <2>1. Steady /\ call[c].at = "state"
      BY <1>3 DEF StateLock, Steady
    <2>2. locks.persist = c
      BY <1>b, <2>1 DEF LockOf, Taking
    <2>3. CASE locks.state = NoKey /\ locks' = [locks EXCEPT !.state = c] /\ Step(c, "take")
      <3>1. LockMoves(c) /\ locks'.persist = c /\ locks'.state = c
        BY <1>0, <2>2, <2>3 DEF LockMoves, Keeps
      <3> QED BY <1>0, <1>b, <2>1, <2>3, <3>1, MiddleStep
    <2>4. CASE locks' = [locks EXCEPT !.persist = NoKey] /\ Reply(c, FALSE)
      <3>1. LockMoves(c)
        BY <1>0, <2>2, <2>4 DEF LockMoves, Keeps
      <3> QED BY <1>0, <2>1, <2>4, <3>1, Refusal
    <2> QED BY <1>3, <2>3, <2>4 DEF StateLock
  <1>4. CASE LoadMerged(c)
    <2>1. Steady /\ call[c].at = "load" /\ locks' = locks /\ LockMoves(c)
      BY <1>4, <1>a DEF LoadMerged, Steady
    <2>2. CASE Step(c, "seal")
      BY <1>0, <1>b, <2>1, <2>2, MiddleStep DEF LockOf, Taking, Writing
    <2>3. CASE call' = [call EXCEPT ![c].at = "merge", ![c].loaded = Resolve(disk)]
      <3>1. PICK r : r = [[call[c] EXCEPT !.at = "merge"] EXCEPT !.loaded = Resolve(disk)]
        OBVIOUS
      <3>2. call' = [call EXCEPT ![c] = r]
        BY <1>0, <2>3, <3>1
      <3>3. /\ {"at", "ops", "target", "batch", "seq", "loaded", "prev", "ok"} \subseteq DOMAIN r /\ r.at = "merge" /\ r.target = call[c].target
            /\ r.ops = call[c].ops /\ r.batch = call[c].batch /\ r.seq = call[c].seq /\ r.ok = call[c].ok
        BY <1>0, <3>1 DEF ShapeOf
      <3>4. OnlyCall(c) /\ call'[c] = r
        BY <1>0, <3>2 DEF OnlyCall
      <3>5. MiddleMove(c)
        BY <3>3, <3>4 DEF MiddleMove
      <3> QED BY <1>0, <1>b, <2>1, <3>3, <3>4, <3>5, MiddleKept DEF LockOf, Taking, Writing
    <2> QED BY <1>4, <2>2, <2>3 DEF LoadMerged
  <1>5. CASE Merge(c)
    <2>1. Steady /\ call[c].at = "merge" /\ locks' = locks /\ LockMoves(c) /\ Step(c, "seal")
      BY <1>5, <1>a DEF Merge, Steady
    <2> QED BY <1>0, <1>b, <2>1, MiddleStep DEF LockOf, Taking, Writing
  <1> QED BY <1>1, <1>2, <1>3, <1>4, <1>5

\* The history only grows.
Grows == \A j \in 1..Len(log) : \E k \in 1..Len(log') : log'[k] = log[j]

\* What is said of the other calls and of the locks holds on while only c moves and the history grows.
LEMMA OthersKept ==
  ASSUME AccessInv, NEW c \in Callers, OnlyCall(c), LockMoves(c), UNCHANGED <<amenu, cli, hup>>, Grows, LockOf(c)', CallOf(c)', ShapeOf(c)'
  PROVE  /\ Callers' = Callers /\ CallInv' /\ \A d \in Callers' : ShapeOf(d)' /\ LockOf(d)'
         /\ (cli.at \in {"load", "save", "signal"} => locks.state = Cli /\ cli.n < Len(amenu.cli))'
         /\ (hup.at \in {"clone", "replace"} => locks.persist = Cli)'
  <1> USE DEF AccessInv
  <1>1. Callers' = Callers
    BY DEF Callers
  <1>2. ASSUME NEW d \in Callers \ {c} PROVE LockOf(d)' /\ ShapeOf(d)' /\ CallOf(d)'
    <2>1. d # NoKey /\ call'[d] = call[d] /\ CallOf(d) /\ LockOf(d) /\ ShapeOf(d)
      BY Holders DEF AccessTypeOK, OnlyCall, CallInv, LockInv
    <2>2. LockOf(d)'
      BY <2>1 DEF LockOf, LockMoves, Keeps
    <2>3. ShapeOf(d)'
      BY <2>1 DEF ShapeOf
    <2>4. Told(d)' => Told(d)
      BY <2>1 DEF Told
    <2>5. Logged(call[d].ops) => Logged(call[d].ops)'
      BY <2>1 DEF Logged, Grows
    <2> QED BY <2>1, <2>2, <2>3, <2>4, <2>5 DEF CallOf, Request
  <1>3. Cli # NoKey /\ Cli # c
    BY Holders DEF AccessTypeOK
  <1>4. (cli.at \in {"load", "save", "signal"} => locks.state = Cli /\ cli.n < Len(amenu.cli))'
    BY <1>3 DEF LockInv, LockMoves, Keeps
  <1>5. (hup.at \in {"clone", "replace"} => locks.persist = Cli)'
    BY <1>3 DEF LockInv, LockMoves, Keeps
  <1> QED BY <1>1, <1>2, <1>4, <1>5 DEF CallInv

\* Only one call writes at a time.
LEMMA OneWriter ==
  ASSUME AccessInv, NEW c \in Callers, NEW d \in Callers, call[c].at \in Taking, call[d].at \in Taking
  PROVE  c = d
  BY DEF AccessInv, LockInv, LockOf

\* An edit queues its operations behind the others.
LEMMA EditStep ==
  ASSUME AccessInv, NEW c \in Callers, Edit(c)
  PROVE  AccessInv'
  <1> USE DEF Standing
  <1>0. /\ {"persist", "state", "blossom"} \subseteq DOMAIN locks /\ DOMAIN call = Callers /\ AccessTypeOK
        /\ queue \in [ops : Seq(AccessOp), seq : Nat, persisted : Nat] /\ ShapeOf(c) /\ CallOf(c) /\ c \in Nat /\ amenu \in AccessMenus
    BY Holders DEF AccessInv, AccessTypeOK, CallInv
  <1>1. PICK ops : ops = MethodOps(mem, Request(c), c)
    OBVIOUS
  <1>2. /\ call[c].at = "apply" /\ queue' = [queue EXCEPT !.ops = @ \o ops, !.seq = @ + Len(ops)]
        /\ call' = [call EXCEPT ![c].at = "persist", ![c].ops = ops]
        /\ UNCHANGED <<disk, locks, cli, hup, log, amenu>>
    BY <1>1 DEF Edit
  <1>3. ops \in Seq(AccessOp)
    <2>1. Request(c).key \in Params
      BY <1>0, <1>2, Holders DEF CallOf
    <2> QED BY <1>0, <1>1, <2>1, OpsTyped
  <1>4. /\ Len(ops) \in Nat /\ Len(queue.ops) \in Nat /\ queue'.ops = queue.ops \o ops /\ queue'.seq = queue.seq + Len(ops)
        /\ queue'.persisted = queue.persisted /\ queue' \in [ops : Seq(AccessOp), seq : Nat, persisted : Nat]
        /\ Len(queue'.ops) = Len(queue.ops) + Len(ops)
    <2>1. PICK q \in Seq(AccessOp) : q = queue.ops
      BY <1>0
    <2>2. q \o ops \in Seq(AccessOp) /\ Len(q \o ops) = Len(q) + Len(ops) /\ Len(ops) \in Nat /\ Len(q) \in Nat
      BY <1>3, <2>1, LenProperties, ConcatProperties
    <2>3. queue' = [queue EXCEPT !.ops = q \o ops, !.seq = queue.seq + Len(ops)]
      BY <1>2, <2>1
    <2>4. PICK qo \in Seq(AccessOp) : qo = q \o ops
      BY <2>2
    <2>5. PICK n \in Nat : n = queue.seq + Len(ops)
      BY <1>0, <2>2
    <2>6. queue' = [queue EXCEPT !.ops = qo, !.seq = n]
      <3>1. queue' = [queue EXCEPT !.ops = qo, !.seq = queue.seq + Len(ops)]
        BY <2>3, <2>4
      <3> QED BY <2>5, <3>1
    <2>7. /\ queue'.ops = qo /\ queue'.seq = n /\ queue'.persisted = queue.persisted
          /\ queue' \in [ops : Seq(AccessOp), seq : Nat, persisted : Nat]
      BY <1>0, <2>6
    <2> QED BY <2>1, <2>2, <2>4, <2>5, <2>7
  <1>5. Past' = Past
    BY <1>0, <1>4 DEF Past
  <1>6. PICK r : r = [[call[c] EXCEPT !.at = "persist"] EXCEPT !.ops = ops]
    OBVIOUS
  <1>7. call' = [call EXCEPT ![c] = r]
    BY <1>0, <1>2, <1>6
  <1>8. /\ {"at", "ops", "target", "batch", "seq", "loaded", "prev", "ok"} \subseteq DOMAIN r /\ r.at = "persist" /\ r.target = call[c].target
        /\ r.ops = ops /\ r.batch = call[c].batch /\ r.seq = call[c].seq /\ r.ok = call[c].ok
    BY <1>0, <1>6 DEF ShapeOf
  <1>9. OnlyCall(c) /\ call'[c] = r
    BY <1>0, <1>7 DEF OnlyCall
  <1>10. LockMoves(c) /\ Grows
    BY <1>0, <1>2 DEF LockMoves, Keeps, Grows
  <1>11. ShapeOf(c)'
    BY <1>0, <1>3, <1>8, <1>9 DEF ShapeOf
  <1>12. LockOf(c)'
    BY <1>8, <1>9 DEF LockOf, Taking, Writing
  <1>13. CallOf(c)'
    <2>1. ~Told(c)'
      BY <1>0, <1>2, <1>8, <1>9 DEF CallOf, Told
    <2> QED BY <2>1, <1>8, <1>9 DEF CallOf, Early
  <1>14. ASSUME NEW o, NEW n \in Int, NEW m \in Int, n <= m, Owed(o, n) PROVE Owed(o, m)'
    <2>1. CASE \E j \in 1..Len(log) : log[j] = o
      BY <1>2, <2>1 DEF Owed
    <2>2. CASE Waiting(o, n)
      <3>1. PICK i \in 1..Len(queue.ops) : queue.ops[i] = o /\ Past + i <= n
        BY <2>2 DEF Waiting
      <3>2. i \in 1..Len(queue'.ops) /\ queue'.ops[i] = o
        BY <1>0, <1>3, <1>4, <3>1, ConcatProperties
      <3>3. Past + i <= m
        BY <1>0, <1>4, <1>14, <3>1 DEF Past
      <3>4. Waiting(o, m)'
        BY <1>5, <3>2, <3>3 DEF Waiting
      <3> QED BY <3>4 DEF Owed
    <2>3. CASE \E d \in Callers : InHand(d, o, n)
      <3>1. PICK d \in Callers : InHand(d, o, n)
        BY <2>3
      <3>2. d # c /\ call'[d] = call[d] /\ d \in Callers'
        BY <1>2, <1>9, <3>1 DEF InHand, OnlyCall, Callers
      <3>3. ShapeOf(d)
        BY <1>0 DEF AccessTypeOK
      <3>4. call[d].seq \in Nat /\ Len(call[d].batch) \in Nat
        BY <3>3, LenProperties DEF ShapeOf
      <3>5. InHand(d, o, m)'
        BY <1>14, <3>1, <3>2, <3>4 DEF InHand
      <3> QED BY <3>2, <3>5 DEF Owed
    <2> QED BY <1>14, <2>1, <2>2, <2>3 DEF Owed
  <1>15. QueueOf(c)'
    <2>1. ASSUME NEW i \in 1..Len(ops) PROVE Owed(ops[i], queue.seq)'
      <3>1. Len(queue.ops) + i \in 1..Len(queue'.ops) /\ queue'.ops[Len(queue.ops) + i] = ops[i]
        BY <1>0, <1>3, <1>4, ConcatProperties
      <3>2. Past' + (Len(queue.ops) + i) <= queue'.seq
        BY <1>0, <1>4, <1>5 DEF Past
      <3>3. PICK o : o = ops[i]
        OBVIOUS
      <3>4. PICK n : n = queue'.seq
        OBVIOUS
      <3>5. Waiting(o, n)'
        BY <3>1, <3>2, <3>3, <3>4 DEF Waiting
      <3> QED BY <3>3, <3>4, <3>5 DEF Owed
    <2> QED BY <1>8, <1>9, <2>1 DEF QueueOf
  <1>16. ASSUME NEW d \in Callers \ {c} PROVE QueueOf(d)'
    <2>1. call'[d] = call[d] /\ QueueOf(d) /\ ShapeOf(d)
      BY <1>0, <1>9 DEF OnlyCall, AccessInv, QueueInv, AccessTypeOK
    <2>2. (call[d].at = "persist" => \A i \in 1..Len(call[d].ops) : Owed(call[d].ops[i], queue.seq))'
      <3>1. queue.seq \in Int /\ queue'.seq \in Int /\ queue.seq <= queue'.seq
        BY <1>0, <1>4
      <3> QED BY <2>1, <3>1, <1>14 DEF QueueOf
    <2>3. (call[d].at \in {"lock", "state", "take", "append"} => \A i \in 1..Len(call[d].ops) : Owed(call[d].ops[i], call[d].target))'
      <3>1. call[d].target \in Int /\ call[d].target <= call[d].target
        BY <2>1 DEF ShapeOf
      <3> QED BY <2>1, <3>1, <1>14 DEF QueueOf
    <2>4. queue.seq <= queue'.seq /\ queue.seq \in Nat /\ queue'.seq \in Nat /\ call[d].target \in Nat
      BY <1>0, <1>4, <2>1 DEF ShapeOf
    <2> QED BY <1>4, <1>5, <2>1, <2>2, <2>3, <2>4 DEF QueueOf
  <1>17. /\ Callers' = Callers /\ CallInv' /\ \A d \in Callers' : ShapeOf(d)' /\ LockOf(d)'
         /\ (cli.at \in {"load", "save", "signal"} => locks.state = Cli /\ cli.n < Len(amenu.cli))'
         /\ (hup.at \in {"clone", "replace"} => locks.persist = Cli)'
    BY <1>2, <1>9, <1>10, <1>11, <1>12, <1>13, OthersKept
  <1>18. AccessTypeOK'
    BY <1>0, <1>2, <1>4, <1>9, <1>17 DEF AccessTypeOK, OnlyCall
  <1>19. LockInv'
    <2>1. (cli.at = "save" => {"access", "had", "allow"} \subseteq DOMAIN cli.loaded /\ cli.loaded.access = Resolve(disk))'
      BY <1>2 DEF AccessInv, LockInv
    <2> QED BY <1>17, <2>1 DEF LockInv
  <1>20. QueueInv'
    <2>1. (queue.persisted <= Past)'
      BY <1>4, <1>5 DEF AccessInv, QueueInv
    <2> QED BY <1>15, <1>16, <1>17, <2>1 DEF QueueInv
  <1>21. NoEditLost'
    BY <1>2 DEF AccessInv, NoEditLost
  <1> QED BY <1>17, <1>18, <1>19, <1>20, <1>21 DEF AccessInv

\* While a writer moves, what the other calls wait for stays owed to them.
LEMMA OthersQueue ==
  ASSUME AccessInv, NEW c \in Callers, OnlyCall(c), call[c].at \in Taking, queue'.seq = queue.seq,
         \A o : \A n \in Int : Owed(o, n) => Owed(o, n)', NEW d \in Callers \ {c}
  PROVE  QueueOf(d)'
  <1>1. call'[d] = call[d] /\ QueueOf(d) /\ ShapeOf(d) /\ queue.seq \in Int
    BY DEF OnlyCall, AccessInv, QueueInv, AccessTypeOK
  <1>2. call[d].at \notin Taking
    BY OneWriter
  <1>3. (call[d].at = "persist" => \A i \in 1..Len(call[d].ops) : Owed(call[d].ops[i], queue.seq))'
    BY <1>1 DEF QueueOf
  <1>4. (call[d].at \in {"lock", "state", "take", "append"} => \A i \in 1..Len(call[d].ops) : Owed(call[d].ops[i], call[d].target))'
    <2>1. call[d].target \in Int
      BY <1>1 DEF ShapeOf
    <2> QED BY <1>1, <2>1 DEF QueueOf
  <1> QED BY <1>1, <1>2, <1>3, <1>4 DEF QueueOf, Taking

\* The parts put together, for a step of a writer.
LEMMA WriterStep ==
  ASSUME AccessInv, NEW c \in Callers, OnlyCall(c), LockMoves(c), UNCHANGED <<amenu, cli, hup>>, Grows, call[c].at \in Taking,
         LockOf(c)', CallOf(c)', ShapeOf(c)', QueueOf(c)',
         queue' \in [ops : Seq(AccessOp), seq : Nat, persisted : Nat], queue'.seq = queue.seq, queue'.persisted <= Past',
         disk' \in [base : AccessLists \cup {NoKey}, journal : Seq(AccessOp)], log' \in Seq(AccessOp),
         \A o : \A n \in Int : Owed(o, n) => Owed(o, n)',
         disk' = disk \/ locks.state = c, NoEditLost'
  PROVE  AccessInv'
  <1>1. /\ Callers' = Callers /\ CallInv' /\ \A d \in Callers' : ShapeOf(d)' /\ LockOf(d)'
        /\ (cli.at \in {"load", "save", "signal"} => locks.state = Cli /\ cli.n < Len(amenu.cli))'
        /\ (hup.at \in {"clone", "replace"} => locks.persist = Cli)'
    BY OthersKept
  <1>2. AccessTypeOK'
    BY <1>1 DEF AccessInv, AccessTypeOK, OnlyCall, LockMoves
  <1>3. LockInv'
    <2>1. (cli.at = "save" => {"access", "had", "allow"} \subseteq DOMAIN cli.loaded /\ cli.loaded.access = Resolve(disk))'
      <3>1. CASE disk' = disk
        BY <3>1 DEF AccessInv, LockInv
      <3>2. CASE locks.state = c
        <4>1. c # Cli
          BY Holders DEF AccessInv, AccessTypeOK
        <4>2. cli.at # "save"
          BY <3>2, <4>1 DEF AccessInv, LockInv
        <4> QED BY <4>2
      <3> QED BY <3>1, <3>2
    <2> QED BY <1>1, <2>1 DEF LockInv
  <1>4. QueueInv'
    <2>1. \A d \in Callers \ {c} : QueueOf(d)'
      BY OthersQueue
    <2> QED BY <1>1, <2>1 DEF QueueInv
  <1> QED BY <1>1, <1>2, <1>3, <1>4 DEF AccessInv

\* What a writer is known to hold.
LEMMA WriterKnown ==
  ASSUME AccessInv, NEW c \in Callers, call[c].at \in Taking
  PROVE  /\ {"persist", "state", "blossom"} \subseteq DOMAIN locks /\ DOMAIN call = Callers /\ AccessTypeOK
         /\ queue \in [ops : Seq(AccessOp), seq : Nat, persisted : Nat] /\ ShapeOf(c) /\ CallOf(c) /\ QueueOf(c) /\ LockOf(c)
         /\ Len(queue.ops) \in Nat /\ Len(call[c].batch) \in Nat /\ queue.persisted <= Past /\ Past \in Int /\ log \in Seq(AccessOp)
         /\ disk \in [base : AccessLists \cup {NoKey}, journal : Seq(AccessOp)] /\ NoEditLost /\ locks.persist = c /\ c # NoKey
         /\ call[c].at # "state" => locks.state = c
  BY LenProperties, Holders DEF AccessInv, AccessTypeOK, CallInv, QueueInv, LockInv, LockOf, ShapeOf, Past, Taking, Writing

\* Taking the operations moves them into the writer's hand, with their numbers.
LEMMA TakeStep ==
  ASSUME AccessInv, NEW c \in Callers, TakeOps(c)
  PROVE  AccessInv'
  <1>1. /\ call[c].at = "take" /\ queue' = [queue EXCEPT !.ops = <<>>] /\ UNCHANGED <<disk, locks, cli, hup, log, amenu>>
        /\ call' = [call EXCEPT ![c].at = "append", ![c].batch = queue.ops, ![c].seq = queue.seq]
    BY DEF TakeOps, Standing
  <1>2. call[c].at \in Taking
    BY <1>1 DEF Taking
  <1>3. /\ {"persist", "state", "blossom"} \subseteq DOMAIN locks /\ DOMAIN call = Callers /\ AccessTypeOK
        /\ queue \in [ops : Seq(AccessOp), seq : Nat, persisted : Nat] /\ ShapeOf(c) /\ CallOf(c) /\ QueueOf(c) /\ LockOf(c)
        /\ Len(queue.ops) \in Nat /\ Len(call[c].batch) \in Nat /\ queue.persisted <= Past /\ Past \in Int /\ log \in Seq(AccessOp)
        /\ disk \in [base : AccessLists \cup {NoKey}, journal : Seq(AccessOp)] /\ NoEditLost /\ locks.persist = c /\ c # NoKey
        /\ locks.state = c
    BY <1>1, <1>2, WriterKnown
  <1>4. /\ queue'.ops = <<>> /\ queue'.seq = queue.seq /\ queue'.persisted = queue.persisted
        /\ queue' \in [ops : Seq(AccessOp), seq : Nat, persisted : Nat]
    <2>1. PICK e \in Seq(AccessOp) : e = <<>>
      BY EmptySeq
    <2>2. queue' = [queue EXCEPT !.ops = e]
      BY <1>1, <2>1
    <2>3. /\ queue'.ops = e /\ queue'.seq = queue.seq /\ queue'.persisted = queue.persisted
          /\ queue' \in [ops : Seq(AccessOp), seq : Nat, persisted : Nat]
      BY <1>3, <2>2
    <2> QED BY <2>1, <2>3
  <1>5. Past' = queue.seq /\ Len(queue'.ops) = 0
    BY <1>3, <1>4 DEF Past
  <1>6. PICK r : r = [[[call[c] EXCEPT !.at = "append"] EXCEPT !.batch = queue.ops] EXCEPT !.seq = queue.seq]
    OBVIOUS
  <1>7. call' = [call EXCEPT ![c] = r]
    BY <1>1, <1>3, <1>6
  <1>8. /\ {"at", "ops", "target", "batch", "seq", "loaded", "prev", "ok"} \subseteq DOMAIN r /\ r.at = "append" /\ r.target = call[c].target
        /\ r.ops = call[c].ops /\ r.batch = queue.ops /\ r.seq = queue.seq /\ r.ok = call[c].ok
    BY <1>3, <1>6 DEF ShapeOf
  <1>9. OnlyCall(c) /\ call'[c] = r /\ Callers' = Callers
    BY <1>1, <1>3, <1>7 DEF OnlyCall, Callers
  <1>10. LockMoves(c) /\ Grows
    BY <1>1, <1>3 DEF LockMoves, Keeps, Grows
  <1>11. ASSUME NEW o, NEW n \in Int, Owed(o, n) PROVE Owed(o, n)'
    <2>1. CASE \E j \in 1..Len(log) : log[j] = o
      BY <1>1, <2>1 DEF Owed
    <2>2. CASE Waiting(o, n)
      <3>1. PICK i \in 1..Len(queue.ops) : queue.ops[i] = o /\ Past + i <= n
        BY <2>2 DEF Waiting
      <3>2. queue.seq - Len(queue.ops) + i <= n
        BY <3>1 DEF Past
      <3>3. InHand(c, o, n)'
        BY <1>8, <1>9, <3>1, <3>2 DEF InHand
      <3> QED BY <1>9, <3>3 DEF Owed
    <2>3. CASE \E d \in Callers : InHand(d, o, n)
      <3>1. PICK d \in Callers : InHand(d, o, n)
        BY <2>3
      <3>2. d = c
        BY <1>2, <3>1, OneWriter DEF InHand, Taking
      <3> QED BY <1>1, <3>1, <3>2 DEF InHand
    <2> QED BY <1>11, <2>1, <2>2, <2>3 DEF Owed
  <1>12. ShapeOf(c)'
    BY <1>3, <1>8, <1>9 DEF ShapeOf
  <1>13. LockOf(c)'
    BY <1>1, <1>3 DEF LockOf
  <1>14. CallOf(c)'
    <2>1. ~Told(c)'
      BY <1>1, <1>3, <1>8, <1>9 DEF CallOf, Told
    <2> QED BY <2>1, <1>8, <1>9 DEF CallOf, Early
  <1>15. QueueOf(c)'
    <2>1. ASSUME NEW i \in 1..Len(call[c].ops) PROVE Owed(call[c].ops[i], call[c].target)'
      <3>1. PICK o : o = call[c].ops[i]
        OBVIOUS
      <3>2. PICK n \in Int : n = call[c].target
        BY <1>3 DEF ShapeOf
      <3>3. Owed(o, n)
        BY <1>1, <1>3, <3>1, <3>2 DEF QueueOf
      <3>4. Owed(o, n)'
        BY <1>11, <3>3
      <3>5. call'[c].ops[i] = o /\ call'[c].target = n
        BY <1>8, <1>9, <3>1, <3>2
      <3> QED BY <3>4, <3>5
    <2>2. queue.persisted <= queue.seq - Len(queue.ops) /\ call[c].target <= queue.seq
      BY <1>1, <1>3 DEF Past, QueueOf
    <2>3. call'[c].at = "append" /\ call'[c].seq = Past' /\ queue'.persisted <= call'[c].seq - Len(call'[c].batch) /\ call'[c].target <= call'[c].seq
      BY <1>4, <1>5, <1>8, <1>9, <2>2
    <2>4. \A i \in 1..Len(call'[c].ops) : Owed(call[c].ops[i], call[c].target)'
      BY <1>8, <1>9, <2>1
    <2> QED BY <2>3, <2>4 DEF QueueOf
  <1>16. queue'.persisted <= Past'
    BY <1>3, <1>4, <1>5 DEF Past
  <1>17. NoEditLost'
    BY <1>1, <1>3 DEF NoEditLost
  <1> QED BY <1>1, <1>2, <1>3, <1>4, <1>9, <1>10, <1>11, <1>12, <1>13, <1>14, <1>15, <1>16, <1>17, WriterStep

\* Appending to the stored state, compacted or not, is replaying onto what it resolves to.
LEMMA AppendedResolves ==
  ASSUME NEW d \in [base : AccessLists \cup {NoKey}, journal : Seq(AccessOp)], NEW ops \in Seq(AccessOp)
  PROVE  /\ Appended(d, ops) \in [base : AccessLists \cup {NoKey}, journal : Seq(AccessOp)]
         /\ Resolve(Appended(d, ops)) = Replay(Resolve(d), ops)
  <1>1. CASE ops = <<>>
    <2>1. Appended(d, ops) = d
      BY <1>1 DEF Appended
    <2>2. Replay(Resolve(d), ops) = Resolve(d)
      BY <1>1, ReplayNothing
    <2> QED BY <2>1, <2>2
  <1>2. CASE ops # <<>>
    <2>1. PICK j \in Seq(AccessOp) : j = d.journal \o ops
      BY ConcatProperties
    <2>2. PICK g : g = [d EXCEPT !.journal = j]
      OBVIOUS
    <2>3. g \in [base : AccessLists \cup {NoKey}, journal : Seq(AccessOp)] /\ g.base = d.base /\ g.journal = j
      BY <2>2
    <2>4. Resolve(g) = Replay(Resolve(d), ops)
      <3>1. PICK b : b = IF d.base = NoKey THEN NoLists ELSE d.base
        OBVIOUS
      <3>2. Resolve(g) = Replay(b, j) /\ Resolve(d) = Replay(b, d.journal)
        BY <2>3, <3>1 DEF Resolve
      <3> QED BY <2>1, <3>2, ReplayConcat
    <2>5. Appended(d, ops) = IF Len(j) >= CompactAfter THEN Compact(g) ELSE g
      BY <1>2, <2>1, <2>2, <2>3 DEF Appended
    <2>6. CASE Len(j) >= CompactAfter
      <3>1. PICK x : x = Resolve(g)
        OBVIOUS
      <3>2. x \in AccessLists /\ x # NoKey
        BY <2>3, <3>1, ResolveType, AccessKeys
      <3>3. Appended(d, ops) = [base |-> x, journal |-> <<>>]
        BY <2>5, <2>6, <3>1 DEF Compact
      <3>4. Resolve(Appended(d, ops)) = x
        BY <3>2, <3>3, ReplayNothing DEF Resolve
      <3> QED BY <2>4, <3>1, <3>2, <3>3, <3>4
    <2>7. CASE ~(Len(j) >= CompactAfter)
      BY <2>3, <2>4, <2>5, <2>7
    <2> QED BY <2>6, <2>7
  <1> QED BY <1>1, <1>2

\* A write that commits puts the operations of the batch into the history.
LEMMA CommitStep ==
  ASSUME AccessInv, NEW c \in Callers, Standing(c, "append"), disk' = Appended(disk, call[c].batch), log' = log \o call[c].batch,
         Step(c, "load"), UNCHANGED <<queue, locks, cli, hup, amenu>>
  PROVE  AccessInv'
  <1>1. call[c].at = "append"
    BY DEF Standing
  <1>2. call[c].at \in Taking
    BY <1>1 DEF Taking
  <1>3. /\ {"persist", "state", "blossom"} \subseteq DOMAIN locks /\ DOMAIN call = Callers /\ AccessTypeOK
        /\ queue \in [ops : Seq(AccessOp), seq : Nat, persisted : Nat] /\ ShapeOf(c) /\ CallOf(c) /\ QueueOf(c) /\ LockOf(c)
        /\ Len(queue.ops) \in Nat /\ Len(call[c].batch) \in Nat /\ queue.persisted <= Past /\ Past \in Int /\ log \in Seq(AccessOp)
        /\ disk \in [base : AccessLists \cup {NoKey}, journal : Seq(AccessOp)] /\ NoEditLost /\ locks.persist = c /\ c # NoKey
        /\ locks.state = c
    BY <1>1, <1>2, WriterKnown
  <1>4. PICK b \in Seq(AccessOp) : b = call[c].batch
    BY <1>3 DEF ShapeOf
  <1>5. /\ OnlyCall(c) /\ {"at", "ops", "target", "batch", "seq", "loaded", "prev", "ok"} \subseteq DOMAIN call'[c]
        /\ call'[c].ops = call[c].ops /\ call'[c].batch = call[c].batch /\ call'[c].target = call[c].target /\ call'[c].seq = call[c].seq
        /\ call'[c].at = "load" /\ call'[c].ok = call[c].ok
    BY <1>3, StepIs
  <1>6. Callers' = Callers /\ Past' = Past /\ queue' = queue
    BY DEF Callers, Past
  <1>7. log' \in Seq(AccessOp) /\ log' = log \o b /\ Len(log') = Len(log) + Len(b) /\ Len(log) \in Nat /\ Len(b) \in Nat
    BY <1>3, <1>4, ConcatProperties, LenProperties
  <1>8. \A j \in 1..Len(log) : j \in 1..Len(log') /\ log'[j] = log[j]
    BY <1>3, <1>4, <1>7, ConcatProperties
  <1>9. \A i \in 1..Len(b) : Len(log) + i \in 1..Len(log') /\ log'[Len(log) + i] = b[i]
    BY <1>3, <1>4, <1>7, ConcatProperties
  <1>10. LockMoves(c) /\ Grows
    BY <1>3, <1>8 DEF LockMoves, Keeps, Grows
  <1>11. ASSUME NEW o, NEW n, Owed(o, n) PROVE Owed(o, n)' /\ (~Waiting(o, n) => \E j \in 1..Len(log') : log'[j] = o)
    <2>1. CASE \E j \in 1..Len(log) : log[j] = o
      BY <1>8, <2>1 DEF Owed
    <2>2. CASE Waiting(o, n)
      BY <1>6, <2>2 DEF Owed, Waiting
    <2>3. CASE \E d \in Callers : InHand(d, o, n)
      <3>1. PICK d \in Callers : InHand(d, o, n)
        BY <2>3
      <3>2. d = c
        BY <1>2, <3>1, OneWriter DEF InHand, Taking
      <3>3. PICK i \in 1..Len(b) : b[i] = o
        BY <1>4, <3>1, <3>2 DEF InHand
      <3> QED BY <1>9, <3>3 DEF Owed
    <2> QED BY <1>11, <2>1, <2>2, <2>3 DEF Owed
  <1>12. ShapeOf(c)'
    BY <1>3, <1>5 DEF ShapeOf
  <1>13. LockOf(c)'
    BY <1>3 DEF LockOf
  <1>14. CallOf(c)'
    <2>1. ~Told(c)'
      BY <1>1, <1>3, <1>5 DEF CallOf, Told
    <2>2. ASSUME NEW i \in 1..Len(call[c].ops) PROVE \E j \in 1..Len(log') : log'[j] = call[c].ops[i]
      <3>1. Owed(call[c].ops[i], call[c].target)
        BY <1>1, <1>3 DEF QueueOf
      <3>2. call[c].target <= call[c].seq /\ call[c].seq = Past /\ call[c].target \in Nat
        BY <1>1, <1>3 DEF QueueOf, ShapeOf
      <3>3. ~Waiting(call[c].ops[i], call[c].target)
        BY <1>3, <3>2 DEF Waiting
      <3> QED BY <1>11, <3>1, <3>3
    <2> QED BY <1>5, <2>1, <2>2 DEF CallOf, Early, Logged
  <1>15. QueueOf(c)'
    BY <1>1, <1>3, <1>5, <1>6 DEF QueueOf
  <1>16. queue'.persisted <= Past'
    BY <1>3, <1>6
  <1>17. /\ disk' \in [base : AccessLists \cup {NoKey}, journal : Seq(AccessOp)]
         /\ Resolve(disk') = Replay(Resolve(disk), b)
    BY <1>3, <1>4, AppendedResolves
  <1>18. NoEditLost'
    <2>1. PICK s : s = IF amenu.base = NoKey THEN NoLists ELSE amenu.base
      OBVIOUS
    <2>2. Resolve(disk) = Replay(s, log)
      BY <1>3, <2>1 DEF NoEditLost
    <2>3. Replay(s, log \o b) = Replay(Replay(s, log), b)
      BY <1>3, <1>4, ReplayConcat
    <2> QED BY <1>7, <1>17, <2>1, <2>2, <2>3 DEF NoEditLost
  <1> QED BY <1>2, <1>3, <1>5, <1>6, <1>7, <1>10, <1>11, <1>12, <1>13, <1>14, <1>15, <1>16, <1>17, <1>18, WriterStep

\* A write that fails puts the operations back in front of the others, with their numbers.
LEMMA PutBackStep ==
  ASSUME AccessInv, NEW c \in Callers, Standing(c, "append"), queue' = PutBack(c), locks' = Unlocked(c), Reply(c, FALSE),
         UNCHANGED <<disk, log, cli, hup, amenu>>
  PROVE  AccessInv'
  <1>1. call[c].at = "append"
    BY DEF Standing
  <1>2. call[c].at \in Taking
    BY <1>1 DEF Taking
  <1>3. /\ {"persist", "state", "blossom"} \subseteq DOMAIN locks /\ DOMAIN call = Callers /\ AccessTypeOK
        /\ queue \in [ops : Seq(AccessOp), seq : Nat, persisted : Nat] /\ ShapeOf(c) /\ CallOf(c) /\ QueueOf(c) /\ LockOf(c)
        /\ Len(queue.ops) \in Nat /\ Len(call[c].batch) \in Nat /\ queue.persisted <= Past /\ Past \in Int /\ log \in Seq(AccessOp)
        /\ disk \in [base : AccessLists \cup {NoKey}, journal : Seq(AccessOp)] /\ NoEditLost /\ locks.persist = c /\ c # NoKey
        /\ locks.state = c
    BY <1>1, <1>2, WriterKnown
  <1>4. PICK b \in Seq(AccessOp) : b = call[c].batch
    BY <1>3 DEF ShapeOf
  <1>5. PICK q \in Seq(AccessOp) : q = queue.ops
    BY <1>3
  <1>6. PICK p \in Seq(AccessOp) : p = b \o q
    BY ConcatProperties
  <1>7. Len(b) \in Nat /\ Len(q) \in Nat /\ Len(p) = Len(b) + Len(q)
    BY <1>6, ConcatProperties, LenProperties
  <1>8. /\ queue'.ops = p /\ queue'.seq = queue.seq /\ queue'.persisted = queue.persisted
        /\ queue' \in [ops : Seq(AccessOp), seq : Nat, persisted : Nat]
    <2>1. queue' = [queue EXCEPT !.ops = p]
      BY <1>4, <1>5, <1>6 DEF PutBack
    <2> QED BY <1>3, <2>1
  <1>9. /\ OnlyCall(c) /\ {"at", "ops", "target", "batch", "seq", "loaded", "prev", "ok"} \subseteq DOMAIN call'[c]
        /\ call'[c].ops = call[c].ops /\ call'[c].batch = call[c].batch /\ call'[c].target = call[c].target /\ call'[c].seq = call[c].seq
        /\ call'[c].at = "done"
    BY <1>3, ReplyIs
  <1>10. Callers' = Callers /\ call[c].seq = queue.seq - Len(q) /\ queue.persisted <= call[c].seq - Len(b)
    BY <1>1, <1>3, <1>4, <1>5 DEF Callers, QueueOf, Past
  <1>11. Past' = (queue.seq - Len(q)) - Len(b) /\ Past = queue.seq - Len(q)
    BY <1>3, <1>5, <1>7, <1>8 DEF Past
  <1>12. /\ \A i \in 1..Len(b) : i \in 1..Len(p) /\ p[i] = b[i]
         /\ \A i \in 1..Len(q) : Len(b) + i \in 1..Len(p) /\ p[Len(b) + i] = q[i]
    BY <1>6, <1>7, ConcatProperties
  <1>13. LockMoves(c) /\ Grows
    BY <1>3 DEF LockMoves, Keeps, Grows, Unlocked
  <1>14. ASSUME NEW o, NEW n \in Int, Owed(o, n) PROVE Owed(o, n)'
    <2>1. CASE \E j \in 1..Len(log) : log[j] = o
      BY <2>1 DEF Owed
    <2>2. CASE Waiting(o, n)
      <3>1. PICK i \in 1..Len(q) : q[i] = o /\ Past + i <= n
        BY <1>5, <2>2 DEF Waiting
      <3>2. Past' + (Len(b) + i) <= n
        BY <1>3, <1>7, <1>11, <3>1
      <3>3. Waiting(o, n)'
        BY <1>8, <1>12, <3>1, <3>2 DEF Waiting
      <3> QED BY <3>3 DEF Owed
    <2>3. CASE \E d \in Callers : InHand(d, o, n)
      <3>1. PICK d \in Callers : InHand(d, o, n)
        BY <2>3
      <3>2. d = c
        BY <1>2, <3>1, OneWriter DEF InHand, Taking
      <3>3. PICK i \in 1..Len(b) : b[i] = o /\ call[c].seq - Len(b) + i <= n
        BY <1>4, <3>1, <3>2 DEF InHand
      <3>4. Past' + i <= n
        BY <1>3, <1>7, <1>10, <1>11, <3>3
      <3>5. Waiting(o, n)'
        BY <1>8, <1>12, <3>3, <3>4 DEF Waiting
      <3> QED BY <3>5 DEF Owed
    <2> QED BY <1>14, <2>1, <2>2, <2>3 DEF Owed
  <1>15. ShapeOf(c)'
    BY <1>3, <1>9 DEF ShapeOf
  <1>16. LockOf(c)' /\ QueueOf(c)'
    BY <1>9 DEF LockOf, QueueOf, Taking, Writing
  <1>17. CallOf(c)'
    <2>1. call'[c].ok = FALSE
      BY <1>3, ReplyIs
    <2>2. ~Told(c)'
      BY <2>1 DEF Told
    <2> QED BY <1>9, <2>2 DEF CallOf, Early
  <1>18. queue'.persisted <= Past'
    BY <1>8, <1>10, <1>11
  <1>19. NoEditLost'
    BY <1>3 DEF NoEditLost
  <1> QED BY <1>2, <1>3, <1>8, <1>9, <1>13, <1>14, <1>15, <1>16, <1>17, <1>18, <1>19, WriterStep

\* Sealing counts as persisted what the batch had, and no more.
LEMMA SealStep ==
  ASSUME AccessInv, NEW c \in Callers, Seal(c)
  PROVE  AccessInv'
  <1>1. /\ call[c].at = "seal" /\ queue' = [queue EXCEPT !.persisted = PersistedUpTo(c)] /\ locks' = Unlocked(c) /\ Reply(c, TRUE)
        /\ UNCHANGED <<disk, cli, hup, log, amenu>>
    BY DEF Seal, Standing
  <1>2. call[c].at \in Taking
    BY <1>1 DEF Taking
  <1>3. /\ {"persist", "state", "blossom"} \subseteq DOMAIN locks /\ DOMAIN call = Callers /\ AccessTypeOK
        /\ queue \in [ops : Seq(AccessOp), seq : Nat, persisted : Nat] /\ ShapeOf(c) /\ CallOf(c) /\ QueueOf(c) /\ LockOf(c)
        /\ Len(queue.ops) \in Nat /\ Len(call[c].batch) \in Nat /\ queue.persisted <= Past /\ Past \in Int /\ log \in Seq(AccessOp)
        /\ disk \in [base : AccessLists \cup {NoKey}, journal : Seq(AccessOp)] /\ NoEditLost /\ locks.persist = c /\ c # NoKey
        /\ locks.state = c
    BY <1>1, <1>2, WriterKnown
  <1>4. PICK n \in Nat : n = PersistedUpTo(c)
    BY <1>3 DEF PersistedUpTo, ShapeOf
  <1>5. n <= Past
    BY <1>1, <1>3, <1>4 DEF PersistedUpTo, QueueOf
  <1>6. /\ queue'.ops = queue.ops /\ queue'.seq = queue.seq /\ queue'.persisted = n
        /\ queue' \in [ops : Seq(AccessOp), seq : Nat, persisted : Nat]
    BY <1>1, <1>3, <1>4
  <1>7. /\ OnlyCall(c) /\ {"at", "ops", "target", "batch", "seq", "loaded", "prev", "ok"} \subseteq DOMAIN call'[c]
        /\ call'[c].ops = call[c].ops /\ call'[c].batch = call[c].batch /\ call'[c].target = call[c].target /\ call'[c].seq = call[c].seq
        /\ call'[c].at = "done"
    BY <1>1, <1>3, ReplyIs
  <1>8. Callers' = Callers /\ Past' = Past
    BY <1>1, <1>6 DEF Callers, Past
  <1>9. LockMoves(c) /\ Grows
    BY <1>1, <1>3 DEF LockMoves, Keeps, Grows, Unlocked
  <1>10. ASSUME NEW o, NEW m, Owed(o, m) PROVE Owed(o, m)'
    <2>1. CASE \E j \in 1..Len(log) : log[j] = o
      BY <1>1, <2>1 DEF Owed
    <2>2. CASE Waiting(o, m)
      BY <1>6, <1>8, <2>2 DEF Owed, Waiting
    <2>3. CASE \E d \in Callers : InHand(d, o, m)
      <3>1. PICK d \in Callers : InHand(d, o, m)
        BY <2>3
      <3>2. d = c
        BY <1>2, <3>1, OneWriter DEF InHand, Taking
      <3> QED BY <1>1, <3>1, <3>2 DEF InHand
    <2> QED BY <1>10, <2>1, <2>2, <2>3 DEF Owed
  <1>11. ShapeOf(c)'
    BY <1>3, <1>7 DEF ShapeOf
  <1>12. LockOf(c)' /\ QueueOf(c)'
    BY <1>7 DEF LockOf, QueueOf, Taking, Writing
  <1>13. CallOf(c)'
    <2>1. Logged(call[c].ops)
      BY <1>1, <1>3 DEF CallOf
    <2> QED BY <1>1, <1>7, <2>1 DEF CallOf, Early, Logged
  <1>14. NoEditLost'
    BY <1>1, <1>3 DEF NoEditLost
  <1>15. queue'.persisted <= Past'
    BY <1>5, <1>6, <1>8
  <1> QED BY <1>1, <1>2, <1>3, <1>6, <1>7, <1>9, <1>10, <1>11, <1>12, <1>13, <1>14, <1>15, WriterStep

-----------------------------------------------------------------------------
(* The command line, the reload and a restart *)

\* What is said of the calls and the queue holds on while no call moves, nothing is queued and the history grows.
LEMMA CallsKept ==
  ASSUME AccessInv, UNCHANGED <<call, queue, amenu>>, Grows, log' \in Seq(AccessOp)
  PROVE  /\ Callers' = Callers /\ DOMAIN call' = Callers' /\ (\A c \in Callers : ShapeOf(c))' /\ CallInv' /\ QueueInv'
  <1>1. Callers' = Callers
    BY DEF Callers
  <1>2. \A o, n : Owed(o, n) => Owed(o, n)'
    <2> SUFFICES ASSUME NEW o, NEW n, Owed(o, n) PROVE Owed(o, n)'
      OBVIOUS
    <2>1. CASE \E j \in 1..Len(log) : log[j] = o
      BY <2>1 DEF Owed, Grows
    <2>2. CASE Waiting(o, n)
      BY <2>2 DEF Owed, Waiting, Past
    <2>3. CASE \E d \in Callers : InHand(d, o, n)
      BY <1>1, <2>3 DEF Owed, InHand
    <2> QED BY <2>1, <2>2, <2>3 DEF Owed
  <1>3. ASSUME NEW c \in Callers PROVE ShapeOf(c)' /\ CallOf(c)' /\ QueueOf(c)'
    <2>1. ShapeOf(c) /\ CallOf(c) /\ QueueOf(c)
      BY DEF AccessInv, AccessTypeOK, CallInv, QueueInv
    <2>2. Logged(call[c].ops) => Logged(call[c].ops)'
      <3>1. ASSUME NEW o, \E j \in 1..Len(log) : log[j] = o PROVE (\E j \in 1..Len(log) : log[j] = o)'
        BY <3>1 DEF Grows
      <3> QED BY <3>1 DEF Logged
    <2>3. Told(c)' => Told(c)
      BY DEF Told
    <2>4. CallOf(c)'
      BY <2>1, <2>2, <2>3 DEF CallOf, Request
    <2>5. QueueOf(c)'
      BY <1>2, <2>1 DEF QueueOf, Past
    <2> QED BY <2>1, <2>4, <2>5 DEF ShapeOf
  <1> QED BY <1>1, <1>3 DEF AccessInv, AccessTypeOK, CallInv, QueueInv, Past

\* An order of the command line yields operations.
LEMMA CliOpsTyped ==
  ASSUME AccessInv, cli.at = "save"
  PROVE  CliOps \in Seq(AccessOp)
  <1>1. amenu.cli \in Seq([verb : STRING, key : Params]) /\ cli.n + 1 \in 1..Len(amenu.cli)
    <2>1. amenu.cli \in Seq([verb : STRING, key : Params]) /\ cli.n \in Nat /\ cli.n < Len(amenu.cli)
      BY AccessMenuType DEF AccessInv, AccessTypeOK, LockInv
    <2> QED BY <2>1, LenProperties
  <1>2. Order.key \in Params
    <2>1. PICK x : x = amenu.cli
      OBVIOUS
    <2>2. PICK k : k = cli.n + 1
      OBVIOUS
    <2>3. x[k] \in [verb : STRING, key : Params]
      BY <1>1, <2>1, <2>2, ElementOfSeq
    <2>4. Order = x[k]
      BY <2>1, <2>2 DEF Order
    <2> QED BY <2>3, <2>4
  <1>3. \A k \in OpKinds : Op(k, Order.key, Cli) \in AccessOp
    BY <1>2 DEF Op, AccessOp, Cli
  <1> QED BY <1>3 DEF CliOps, OpKinds

\* The steps of the command line keep the invariant.
LEMMA CliSteps ==
  ASSUME AccessInv, CliLock \/ CliLoad \/ CliSave \/ CliSignal
  PROVE  AccessInv'
  <1>0. /\ {"persist", "state", "blossom"} \subseteq DOMAIN locks /\ {"at", "n", "loaded"} \subseteq DOMAIN cli /\ log \in Seq(AccessOp)
        /\ {"at", "lists", "ops"} \subseteq DOMAIN hup /\ cli.n \in Nat /\ amenu \in AccessMenus
        /\ queue \in [ops : Seq(AccessOp), seq : Nat, persisted : Nat]
        /\ disk \in [base : AccessLists \cup {NoKey}, journal : Seq(AccessOp)] /\ LockInv /\ NoEditLost
    BY DEF AccessInv, AccessTypeOK
  <1>a. \A c \in Callers : c # NoKey /\ c # Cli
    BY <1>0, Holders
  <1>1. CASE CliLock
    <2>1. /\ cli.at = "idle" /\ cli.n < Len(amenu.cli) /\ locks.state = NoKey /\ locks' = [locks EXCEPT !.state = Cli]
          /\ cli' = [cli EXCEPT !.at = "load"] /\ UNCHANGED <<call, queue, amenu, log, disk, hup>>
      BY <1>1 DEF CliLock
    <2>2. Grows
      BY <2>1 DEF Grows
    <2>3. Callers' = Callers /\ DOMAIN call' = Callers' /\ (\A c \in Callers : ShapeOf(c))' /\ CallInv' /\ QueueInv'
      BY <1>0, <2>1, <2>2, CallsKept
    <2>4. AccessTypeOK'
      BY <1>0, <2>1, <2>3 DEF AccessTypeOK
    <2>5. LockInv'
      BY <1>0, <1>a, <2>1, <2>3 DEF LockInv, LockOf
    <2>6. NoEditLost'
      BY <1>0, <2>1 DEF NoEditLost
    <2> QED BY <2>3, <2>4, <2>5, <2>6 DEF AccessInv
  <1>2. CASE CliLoad
    <2>1. PICK l : l = [access |-> Resolve(disk), had |-> StoredAccess(disk), allow |-> allow.disk]
      OBVIOUS
    <2>2. cli.at = "load" /\ cli' = [cli EXCEPT !.at = "save", !.loaded = l] /\ UNCHANGED <<call, queue, amenu, log, disk, hup, locks>>
      BY <1>2, <2>1 DEF CliLoad
    <2>3. Grows
      BY <2>2 DEF Grows
    <2>4. Callers' = Callers /\ DOMAIN call' = Callers' /\ (\A c \in Callers : ShapeOf(c))' /\ CallInv' /\ QueueInv'
      BY <1>0, <2>2, <2>3, CallsKept
    <2>5. /\ cli'.at = "save" /\ cli'.n = cli.n /\ cli'.loaded = l /\ {"at", "n", "loaded"} \subseteq DOMAIN cli'
          /\ {"access", "had", "allow"} \subseteq DOMAIN l /\ l.access = Resolve(disk)
      BY <1>0, <2>1, <2>2
    <2>6. AccessTypeOK'
      BY <1>0, <2>2, <2>4, <2>5 DEF AccessTypeOK
    <2>7. LockInv'
      BY <1>0, <2>2, <2>4, <2>5 DEF LockInv, LockOf
    <2>8. NoEditLost'
      BY <1>0, <2>2 DEF NoEditLost
    <2> QED BY <2>4, <2>6, <2>7, <2>8 DEF AccessInv
  <1>3. CASE CliSave
    <2>1. PICK o \in Seq(AccessOp) : o = CliOps
      BY <1>3, CliOpsTyped DEF CliSave
    <2>2. cli.at = "save" /\ cli.loaded.access = Resolve(disk) /\ cli' = [cli EXCEPT !.at = "signal"] /\ UNCHANGED <<call, queue, amenu, hup, locks>>
      BY <1>0, <1>3 DEF CliSave, LockInv
    <2>3. PICK e : e = Replay(Resolve(disk), o)
      OBVIOUS
    <2>4. e \in AccessLists /\ e # NoKey
      BY <1>0, <2>3, ResolveType, ReplayType, AccessKeys
    <2>5. \/ UNCHANGED <<disk, log>>
          \/ disk' = [base |-> e, journal |-> <<>>] /\ log' = log \o o
      BY <1>3, <2>1, <2>2, <2>3 DEF CliSave
    <2>6. /\ disk' \in [base : AccessLists \cup {NoKey}, journal : Seq(AccessOp)] /\ log' \in Seq(AccessOp) /\ Grows
          /\ NoEditLost'
      <3>1. CASE UNCHANGED <<disk, log>>
        BY <1>0, <2>2, <3>1 DEF Grows, NoEditLost
      <3>2. CASE disk' = [base |-> e, journal |-> <<>>] /\ log' = log \o o
        <4>1. disk' \in [base : AccessLists \cup {NoKey}, journal : Seq(AccessOp)]
          BY <2>4, <3>2
        <4>2. log' \in Seq(AccessOp) /\ Grows
          BY <1>0, <3>2, ConcatProperties, LenProperties DEF Grows
        <4>3. Resolve(disk') = e
          BY <2>4, <3>2, ReplayNothing DEF Resolve
        <4>4. PICK s : s = IF amenu.base = NoKey THEN NoLists ELSE amenu.base
          OBVIOUS
        <4>5. Resolve(disk) = Replay(s, log)
          BY <1>0, <4>4 DEF NoEditLost
        <4>6. Replay(s, log \o o) = Replay(Replay(s, log), o)
          BY <1>0, ReplayConcat
        <4>7. NoEditLost'
          BY <2>2, <2>3, <3>2, <4>3, <4>4, <4>5, <4>6 DEF NoEditLost
        <4> QED BY <4>1, <4>2, <4>7
      <3> QED BY <2>5, <3>1, <3>2
    <2>7. Callers' = Callers /\ DOMAIN call' = Callers' /\ (\A c \in Callers : ShapeOf(c))' /\ CallInv' /\ QueueInv'
      BY <2>2, <2>6, CallsKept
    <2>8. cli'.at = "signal" /\ cli'.n = cli.n /\ {"at", "n", "loaded"} \subseteq DOMAIN cli'
      BY <1>0, <2>2
    <2>9. AccessTypeOK'
      BY <1>0, <2>2, <2>6, <2>7, <2>8 DEF AccessTypeOK
    <2>10. LockInv'
      BY <1>0, <2>2, <2>7, <2>8 DEF LockInv, LockOf
    <2> QED BY <2>6, <2>7, <2>9, <2>10 DEF AccessInv
  <1>4. CASE CliSignal
    <2>1. /\ cli.at = "signal" /\ locks' = [locks EXCEPT !.state = NoKey] /\ cli' = [cli EXCEPT !.at = "idle", !.n = cli.n + 1]
          /\ UNCHANGED <<call, queue, amenu, log, disk>>
      BY <1>4 DEF CliSignal
    <2>0. hup' = hup \/ hup' = [hup EXCEPT !.at = "lock"]
      BY <1>4 DEF CliSignal
    <2>2. Grows
      BY <2>1 DEF Grows
    <2>3. Callers' = Callers /\ DOMAIN call' = Callers' /\ (\A c \in Callers : ShapeOf(c))' /\ CallInv' /\ QueueInv'
      BY <1>0, <2>1, <2>2, CallsKept
    <2>4. /\ {"at", "lists", "ops"} \subseteq DOMAIN hup' /\ (hup'.at \in {"clone", "replace"} => hup.at \in {"clone", "replace"})
          /\ cli'.at = "idle" /\ cli'.n \in Nat /\ {"at", "n", "loaded"} \subseteq DOMAIN cli'
          /\ locks.state = Cli /\ locks'.persist = locks.persist /\ {"persist", "state", "blossom"} \subseteq DOMAIN locks'
      BY <1>0, <2>0, <2>1 DEF LockInv
    <2>5. AccessTypeOK'
      BY <1>0, <2>1, <2>3, <2>4 DEF AccessTypeOK
    <2>6. LockInv'
      BY <1>0, <1>a, <2>1, <2>3, <2>4 DEF LockInv, LockOf
    <2>7. NoEditLost'
      BY <1>0, <2>1 DEF NoEditLost
    <2> QED BY <2>3, <2>5, <2>6, <2>7 DEF AccessInv
  <1> QED BY <1>1, <1>2, <1>3, <1>4

\* The steps of a reload keep the invariant.
LEMMA ReloadSteps ==
  ASSUME AccessInv, ReloadList \/ ReloadLoad \/ ReloadClone \/ ReloadReplace
  PROVE  AccessInv'
  <1>0. /\ {"persist", "state", "blossom"} \subseteq DOMAIN locks /\ log \in Seq(AccessOp)
        /\ {"at", "lists", "ops"} \subseteq DOMAIN hup /\ amenu \in AccessMenus /\ LockInv /\ NoEditLost
    BY DEF AccessInv, AccessTypeOK
  <1>a. \A c \in Callers : c # NoKey /\ c # Cli
    BY <1>0, Holders
  <1>1. UNCHANGED <<call, queue, amenu, log, disk, cli>>
    BY DEF ReloadList, ReloadLoad, ReloadClone, ReloadReplace
  <1>2. Grows
    BY <1>1 DEF Grows
  <1>3. Callers' = Callers /\ DOMAIN call' = Callers' /\ (\A c \in Callers : ShapeOf(c))' /\ CallInv' /\ QueueInv'
    BY <1>0, <1>1, <1>2, CallsKept
  <1>4. /\ {"at", "lists", "ops"} \subseteq DOMAIN hup' /\ {"persist", "state", "blossom"} \subseteq DOMAIN locks' /\ locks'.state = locks.state
        /\ \/ locks'.persist = locks.persist /\ (hup'.at \in {"clone", "replace"} => hup.at \in {"clone", "replace"})
           \/ locks.persist = NoKey /\ locks'.persist = Cli
           \/ locks.persist = Cli /\ hup'.at = "idle"
    <2>1. CASE ReloadList
      BY <1>0, <2>1 DEF ReloadList
    <2>2. CASE ReloadLoad
      BY <1>0, <2>2 DEF ReloadLoad
    <2>3. CASE ReloadClone
      BY <1>0, <2>3 DEF ReloadClone
    <2>4. CASE ReloadReplace
      BY <1>0, <2>4 DEF ReloadReplace, LockInv
    <2> QED BY <2>1, <2>2, <2>3, <2>4
  <1>5. AccessTypeOK'
    BY <1>1, <1>3, <1>4 DEF AccessInv, AccessTypeOK
  <1>6. LockInv'
    BY <1>0, <1>a, <1>1, <1>3, <1>4 DEF LockInv, LockOf
  <1>7. NoEditLost'
    BY <1>0, <1>1 DEF NoEditLost
  <1> QED BY <1>3, <1>5, <1>6, <1>7 DEF AccessInv

\* A queue that starts with the operations of a start owes nobody anything.
LEMMA FreshQueue ==
  ASSUME amenu \in AccessMenus, disk \in [base : AccessLists \cup {NoKey}, journal : Seq(AccessOp)],
         NEW q, q = [ops |-> StartOps, seq |-> Len(StartOps), persisted |-> 0]
  PROVE  q \in [ops : Seq(AccessOp), seq : Nat, persisted : Nat] /\ q.persisted <= q.seq - Len(q.ops)
  <1>1. PICK o \in Seq(AccessOp) : o = StartOps
    BY StartTyped
  <1>2. Len(o) \in Nat
    BY LenProperties
  <1> QED BY <1>1, <1>2

\* A crash loses the queue and what was in hand; the calls it cut off were told nothing.
LEMMA CrashStep ==
  ASSUME AccessInv, Crash
  PROVE  AccessInv'
  <1>0. /\ {"persist", "state", "blossom"} \subseteq DOMAIN locks /\ log \in Seq(AccessOp) /\ DOMAIN call = Callers
        /\ {"at", "lists", "ops"} \subseteq DOMAIN hup /\ amenu \in AccessMenus /\ LockInv /\ NoEditLost
        /\ disk \in [base : AccessLists \cup {NoKey}, journal : Seq(AccessOp)]
    BY DEF AccessInv, AccessTypeOK
  <1>1. /\ queue' = [ops |-> StartOps, seq |-> Len(StartOps), persisted |-> 0] /\ UNCHANGED <<disk, cli, log, amenu>>
        /\ locks' = [persist |-> NoKey, state |-> IF locks.state = Cli THEN Cli ELSE NoKey, blossom |-> NoKey]
        /\ call' = [c \in Callers |-> IF Standing(c, "idle") \/ Standing(c, "done") THEN call[c] ELSE [call[c] EXCEPT !.at = "done"]]
        /\ hup' = [hup EXCEPT !.at = "idle"]
    BY DEF Crash
  <1>2. queue' \in [ops : Seq(AccessOp), seq : Nat, persisted : Nat] /\ queue'.persisted <= queue'.seq - Len(queue'.ops)
    BY <1>0, <1>1, FreshQueue
  <1>3. Callers' = Callers /\ DOMAIN call' = Callers
    BY <1>1 DEF Callers
  <1>4. ASSUME NEW c \in Callers PROVE ShapeOf(c)' /\ CallOf(c)' /\ LockOf(c)' /\ QueueOf(c)'
    <2>1. ShapeOf(c) /\ CallOf(c)
      BY DEF AccessInv, AccessTypeOK, CallInv
    <2>2. CASE Standing(c, "idle") \/ Standing(c, "done")
      <3>1. call'[c] = call[c]
        BY <1>1, <2>2
      <3>2. Told(c)' => Told(c)
        BY <3>1 DEF Told
      <3>3. Logged(call[c].ops) => Logged(call[c].ops)'
        BY <1>1, <3>1 DEF Logged
      <3>4. CallOf(c)'
        BY <1>1, <2>1, <3>1, <3>2, <3>3 DEF CallOf, Request
      <3> QED BY <2>1, <2>2, <3>1, <3>4 DEF ShapeOf, LockOf, QueueOf, Standing, Taking, Writing
    <2>3. CASE ~(Standing(c, "idle") \/ Standing(c, "done"))
      <3>1. call'[c] = [call[c] EXCEPT !.at = "done"]
        BY <1>1, <2>3
      <3>2. /\ {"at", "ops", "target", "batch", "seq", "loaded", "prev", "ok"} \subseteq DOMAIN call'[c] /\ call'[c].at = "done"
            /\ call'[c].ops = call[c].ops /\ call'[c].batch = call[c].batch /\ call'[c].target = call[c].target
            /\ call'[c].seq = call[c].seq /\ call'[c].ok = call[c].ok
        BY <2>1, <3>1 DEF ShapeOf
      <3>3. ~Told(c)'
        <4>1. ~Told(c)
          BY <2>1, <2>3 DEF CallOf, Standing
        <4> QED BY <3>2, <4>1 DEF Told
      <3>4. CallOf(c)'
        BY <3>2, <3>3 DEF CallOf, Early
      <3> QED BY <2>1, <3>2, <3>4 DEF ShapeOf, LockOf, QueueOf, Taking, Writing
    <2> QED BY <2>2, <2>3
  <1>5. AccessTypeOK'
    BY <1>0, <1>1, <1>2, <1>3, <1>4 DEF AccessInv, AccessTypeOK
  <1>6. LockInv'
    <2>1. hup'.at = "idle"
      BY <1>0, <1>1
    <2>2. locks.state = Cli => locks'.state = Cli
      BY <1>1
    <2> QED BY <1>0, <1>1, <1>3, <1>4, <2>1, <2>2 DEF LockInv
  <1>7. CallInv' /\ QueueInv'
    BY <1>2, <1>3, <1>4 DEF CallInv, QueueInv, Past
  <1>8. NoEditLost'
    BY <1>0, <1>1 DEF NoEditLost
  <1> QED BY <1>5, <1>6, <1>7, <1>8 DEF AccessInv

-----------------------------------------------------------------------------
(* The theorem *)

\* The first state has the invariant.
LEMMA AccessStart == AccessInit => AccessInv
  <1> SUFFICES ASSUME AccessInit PROVE AccessInv
    OBVIOUS
  <1>1. amenu \in AccessMenus /\ disk = [base |-> amenu.base, journal |-> <<>>] /\ amenu.base \in AccessLists \cup {NoKey}
    BY AccessMenuType DEF AccessInit
  <1>2. disk \in [base : AccessLists \cup {NoKey}, journal : Seq(AccessOp)]
    BY <1>1
  <1>3. queue \in [ops : Seq(AccessOp), seq : Nat, persisted : Nat] /\ queue.persisted <= Past
    BY <1>1, <1>2, FreshQueue DEF AccessInit, Past
  <1>4. ASSUME NEW c \in Callers PROVE call[c] = FreshState /\ ShapeOf(c) /\ CallOf(c) /\ LockOf(c) /\ QueueOf(c)
    <2>1. call[c] = FreshState
      BY DEF AccessInit
    <2>2. ~Told(c)
      <3>1. call[c].ok = NoKey
        BY <2>1 DEF FreshState
      <3>2. NoKey # TRUE
        BY AccessKeys
      <3> QED BY <3>1, <3>2 DEF Told
    <2>3. call[c].at = "idle" /\ call[c].ops = <<>> /\ call[c].batch = <<>> /\ call[c].target = 0 /\ call[c].seq = 0
      BY <2>1 DEF FreshState
    <2>4. {"at", "ops", "target", "batch", "seq", "loaded", "prev", "ok"} \subseteq DOMAIN call[c]
      BY <2>1 DEF FreshState
    <2> QED BY <2>1, <2>2, <2>3, <2>4 DEF ShapeOf, CallOf, LockOf, QueueOf, Taking, Writing
  <1>5. AccessTypeOK
    BY <1>1, <1>2, <1>3, <1>4 DEF AccessInit, AccessTypeOK
  <1>6. LockInv
    BY <1>4 DEF AccessInit, LockInv
  <1>7. NoEditLost
    <2>1. PICK s : s = IF amenu.base = NoKey THEN NoLists ELSE amenu.base
      OBVIOUS
    <2>2. Resolve(disk) = Replay(s, <<>>) /\ log = <<>>
      BY <1>1, <2>1 DEF Resolve, AccessInit
    <2> QED BY <2>1, <2>2 DEF NoEditLost
  <1> QED BY <1>3, <1>4, <1>5, <1>6, <1>7 DEF AccessInv, CallInv, QueueInv

\* Every step keeps it.
LEMMA AccessStep == AccessInv /\ [AccessNext]_avars => AccessInv'
  <1> SUFFICES ASSUME AccessInv, [AccessNext]_avars PROVE AccessInv'
    OBVIOUS
  <1>1. CASE UNCHANGED avars
    <2>1. UNCHANGED <<call, queue, amenu, log, disk, cli, hup, locks>>
      BY <1>1 DEF avars
    <2>2. Grows /\ log' \in Seq(AccessOp)
      BY <2>1 DEF Grows, AccessInv, AccessTypeOK
    <2>3. Callers' = Callers /\ DOMAIN call' = Callers' /\ (\A c \in Callers : ShapeOf(c))' /\ CallInv' /\ QueueInv'
      BY <2>1, <2>2, CallsKept
    <2>4. AccessTypeOK'
      BY <2>1, <2>3 DEF AccessInv, AccessTypeOK
    <2>5. LockInv'
      BY <2>1, <2>3 DEF AccessInv, LockInv, LockOf
    <2>6. NoEditLost'
      BY <2>1 DEF AccessInv, NoEditLost
    <2> QED BY <2>3, <2>4, <2>5, <2>6 DEF AccessInv
  <1>2. ASSUME NEW c \in Callers, CallStep(c) PROVE AccessInv'
    <2>1. CASE Append_(c)
      <3>1. Standing(c, "append") /\ UNCHANGED <<cli, hup, amenu>>
        BY <2>1 DEF Append_
      <3>2. CASE disk' = Appended(disk, call[c].batch) /\ log' = log \o call[c].batch /\ Step(c, "load") /\ UNCHANGED <<queue, locks>>
        BY <3>1, <3>2, CommitStep
      <3>3. CASE queue' = PutBack(c) /\ locks' = Unlocked(c) /\ Reply(c, FALSE) /\ UNCHANGED <<disk, log>>
        BY <3>1, <3>3, PutBackStep
      <3> QED BY <2>1, <3>2, <3>3 DEF Append_
    <2> QED BY <1>2, <2>1, EarlySteps, PersistSteps, EditStep, TakeStep, SealStep DEF CallStep
  <1> QED BY <1>1, <1>2, CliSteps, ReloadSteps, CrashStep DEF AccessNext

\* For any lists, callers, orders of the command line, faults and crashes: the database resolves to every committed edit in
\* the order of their commits, and what a caller was told is persisted is among them (persist_access, append_access_ops,
\* unwrite_access_ops, save_access_state).
THEOREM AccessCorrect == AccessSpec => []EditsDurable
  <1>1. AccessInv => EditsDurable
    <2> SUFFICES ASSUME AccessInv PROVE EditsDurable
      OBVIOUS
    <2>1. ASSUME NEW c \in Callers, Standing(c, "done"), call[c].ok = TRUE PROVE ToSet(call[c].ops) \subseteq ToSet(log)
      <3>1. Told(c) /\ CallOf(c) /\ call[c].at = "done"
        BY <2>1 DEF Told, AccessInv, CallInv, Standing
      <3>2. Logged(call[c].ops)
        BY <3>1 DEF CallOf
      <3>3. call[c].ops \in Seq(AccessOp) /\ log \in Seq(AccessOp)
        BY DEF AccessInv, AccessTypeOK, ShapeOf
      <3>4. DOMAIN (call[c].ops) = 1..Len(call[c].ops) /\ DOMAIN log = 1..Len(log)
        BY <3>3, LenProperties
      <3> QED BY <3>2, <3>4 DEF ToSet, Logged
    <2> QED BY <2>1 DEF EditsDurable, AckedDurable, AccessInv
  <1> QED BY <1>1, AccessStart, AccessStep, PTL DEF AccessSpec

-----------------------------------------------------------------------------
(* ConnAdmission: where a slot is *)

\* Where a slot is, by the tasks that serve the connection: the HTTP task
\* holds it until a handler claims it, then the claim, then the WebSocket.
SlotOK(c) ==
    \/ /\ phase[c] \in {"idle", "first", "again", "serving", "ending"}
       /\ ws[c] = "none" /\ slot[c] = "PENDING"
    \/ phase[c] = "upgrading" /\ ws[c] = "handler" /\ slot[c] = "OWNED"
    \/ phase[c] \in {"upgraded", "closed"} /\ ws[c] = "task" /\ slot[c] = "OWNED"
    \/ phase[c] \in {"upgraded", "closed"} /\ ws[c] = "none" /\ slot[c] = "RELEASED"

\* Only a released slot has releases outstanding, and only its own.
DueOK(c) == due[c] \subseteq Owes(c) /\ (due[c] # {} => slot[c] = "RELEASED")

\* The accept loop's checked budget still holds when it registers: no one
\* else raises the global count.
AcceptOK ==
    accepting # NotAccepting =>
        /\ phase[accepting.conn] = "closed" /\ ws[accepting.conn] = "none"
        /\ due[accepting.conn] = {} /\ active < MaxConnections

GlobalInv ==
    /\ \A c \in Conn : SlotOK(c) /\ DueOK(c)
    /\ AcceptOK
    /\ GlobalCountExact
    /\ active <= MaxConnections

\* Dropping a reference leaves the addresses.
LEMMA UnrefProps ==
  ASSUME TypeOK, NEW c \in Conn, NEW H, client' = Unref(c, H)
  PROVE  client' \in [Conn -> Client] /\ \A d \in Conn : client'[d].ip = client[d].ip
  BY DEF TypeOK, Unref, Client

\* Taking and giving back a slot keep the counts natural.
LEMMA CountTypes ==
  ASSUME NEW n \in [Addr -> Nat], NEW a \in Addr, NEW m \in Nat
  PROVE  Take(n, a, m) \in [Addr -> Nat] /\ Give(n, a) \in [Addr -> Nat]
  BY DEF Take, Give

\* Giving back an address that is not a key leaves the counts as they are.
LEMMA GiveType ==
  ASSUME NEW n \in [Addr -> Nat], NEW a
  PROVE  Give(n, a) \in [Addr -> Nat]
<1> DEFINE v == IF n[a] > 0 THEN n[a] - 1 ELSE 0
<1>1. Give(n, a) = [b \in Addr |-> IF b = a THEN v ELSE n[b]]
  BY DEF Give
<1>2. ASSUME NEW b \in Addr PROVE (IF b = a THEN v ELSE n[b]) \in Nat
  BY <1>2
<1> QED BY <1>1, <1>2

\* The limit before the request head is at least one.
LEMMA PreHeadLimitType == PreHeadLimit \in Nat \ {0}
<1>1. MaxConnections \div 4 \in Nat
  BY LimitsType
<1> QED BY <1>1 DEF PreHeadLimit

\* The set of counted connections is finite.
LEMMA CountedFinite == IsFiniteSet(Counted)
  BY ConnFinite, FS_Subset DEF Counted

USE DEF counters, guards

\* Steps that leave the global count, the slots and the debts alone.
LEMMA SameSlots ==
  ASSUME UNCHANGED <<active, slot, due>>, GlobalInv
  PROVE  GlobalCountExact' /\ active' <= MaxConnections
  BY DEF GlobalInv, GlobalCountExact, Counted

\* Letting go of a slot moves its count from the slot to the debt.
LEMMA ReleaseFromProps ==
  ASSUME TypeOK, GlobalInv, NEW c \in Conn, NEW s \in {"PENDING", "OWNED"},
         ReleaseFrom(c, s), UNCHANGED active
  PROVE  /\ slot' \in [Conn -> {"PENDING", "OWNED", "RELEASED"}]
         /\ due' \in [Conn -> SUBSET {"global", "ip"}]
         /\ \A d \in Conn : d # c => slot'[d] = slot[d] /\ due'[d] = due[d]
         /\ slot[c] = s => slot'[c] = "RELEASED" /\ due'[c] = Owes(c)
         /\ slot[c] # s => slot'[c] = slot[c] /\ due'[c] = due[c]
         /\ GlobalCountExact' /\ active' <= MaxConnections
<1>1. Owes(c) \subseteq {"global", "ip"} /\ "global" \in Owes(c)
  BY DEF Owes
<1>2. /\ slot' \in [Conn -> {"PENDING", "OWNED", "RELEASED"}]
      /\ due' \in [Conn -> SUBSET {"global", "ip"}]
      /\ \A d \in Conn : d # c => slot'[d] = slot[d] /\ due'[d] = due[d]
      /\ slot[c] = s => slot'[c] = "RELEASED" /\ due'[c] = Owes(c)
      /\ slot[c] # s => slot'[c] = slot[c] /\ due'[c] = due[c]
  BY <1>1 DEF ReleaseFrom, TypeOK
<1>3. Counted' = Counted
  BY <1>1, <1>2 DEF Counted
<1> QED BY <1>2, <1>3 DEF GlobalInv, GlobalCountExact

\* Every step keeps the types and the accounting of the global count.
LEMMA GlobalStep == TypeOK /\ GlobalInv /\ [Next]_vars => TypeOK' /\ GlobalInv'
<1> SUFFICES ASSUME TypeOK, GlobalInv, [Next]_vars PROVE TypeOK' /\ GlobalInv'
  OBVIOUS
<1>check. ASSUME NEW c \in Conn, CheckGlobal(c) PROVE TypeOK' /\ GlobalInv'
  <2>1. GlobalCountExact' /\ active' <= MaxConnections
    BY <1>check, SameSlots DEF CheckGlobal
  <2>2. TypeOK'
    BY <1>check DEF CheckGlobal, TypeOK
  <2> QED BY <1>check, <2>1, <2>2 DEF CheckGlobal, GlobalInv, SlotOK, DueOK, AcceptOK, Fresh
<1>peer. ASSUME AcquirePeer PROVE TypeOK' /\ GlobalInv'
  <2>1. /\ accepting.conn \in Conn /\ accepting # NotAccepting
        /\ accepting' = [conn |-> accepting.conn, step |-> "register"]
        /\ UNCHANGED <<active, listening, phase, slot, due, client, ws>>
    BY <1>peer DEF AcquirePeer, TypeOK, NotAccepting
  <2>2. Peer[accepting.conn] \in Addr
    BY <2>1, PeerType
  <2>3. /\ preHead' \in [Addr -> Nat] /\ ipCount' \in [Addr -> Nat]
        /\ pre' \in [Conn -> {"none", "cell", "dropped"}]
    <3>1. CASE Trusted(accepting.conn)
      <4>1. /\ preHead' = Take(preHead, Peer[accepting.conn], PreHeadLimit)
            /\ pre' = [pre EXCEPT ![accepting.conn] = "cell"] /\ ipCount' = ipCount
        BY <1>peer, <3>1 DEF AcquirePeer
      <4>2. preHead' \in [Addr -> Nat]
        BY <2>2, <4>1, CountTypes, PreHeadLimitType DEF TypeOK
      <4> QED BY <2>1, <4>1, <4>2 DEF TypeOK
    <3>2. CASE ~Trusted(accepting.conn)
      <4>1. /\ ipCount' = Take(ipCount, Peer[accepting.conn], MaxPerIp)
            /\ pre' = pre /\ preHead' = preHead
        BY <1>peer, <3>2 DEF AcquirePeer
      <4>2. ipCount' \in [Addr -> Nat]
        BY <2>2, <4>1, CountTypes, LimitsType DEF TypeOK
      <4> QED BY <4>1, <4>2 DEF TypeOK
    <3> QED BY <3>1, <3>2
  <2>4. TypeOK'
    BY <2>1, <2>3 DEF TypeOK
  <2>5. GlobalCountExact' /\ active' <= MaxConnections
    BY <2>1, SameSlots
  <2> QED BY <2>1, <2>4, <2>5 DEF GlobalInv, SlotOK, DueOK, AcceptOK
<1>refuse. ASSUME RefusePeer PROVE TypeOK' /\ GlobalInv'
  <2>1. GlobalCountExact' /\ active' <= MaxConnections
    BY <1>refuse, SameSlots DEF RefusePeer
  <2> QED BY <1>refuse, <2>1 DEF RefusePeer, TypeOK, GlobalInv, SlotOK, DueOK, AcceptOK
<1>register. ASSUME Register PROVE TypeOK' /\ GlobalInv'
  <2> DEFINE c == accepting.conn
  <2>1. c \in Conn /\ accepting # NotAccepting
    BY <1>register DEF Register, TypeOK, NotAccepting
  <2>2. /\ slot' = [slot EXCEPT ![c] = "PENDING"] /\ phase' = [phase EXCEPT ![c] = "idle"]
        /\ active' = active + 1 /\ accepting' = NotAccepting
        /\ UNCHANGED <<ipCount, preHead, listening, due, pre, client, ws>>
    BY <1>register DEF Register
  <2>3. /\ phase[c] = "closed" /\ ws[c] = "none" /\ due[c] = {} /\ active < MaxConnections
        /\ slot[c] = "RELEASED"
    BY <2>1 DEF GlobalInv, AcceptOK, SlotOK
  <2>4. TypeOK'
    BY <2>1, <2>2 DEF TypeOK
  <2>5. Counted' = Counted \cup {c} /\ c \notin Counted
    BY <2>1, <2>2, <2>3 DEF Counted, TypeOK
  <2>6. GlobalCountExact'
    BY <2>2, <2>5, CountedFinite, FS_AddElement DEF GlobalCountExact, GlobalInv
  <2>7. active' <= MaxConnections
    BY <2>2, <2>3, LimitsType DEF TypeOK
  <2>8. \A d \in Conn : SlotOK(d)' /\ DueOK(d)'
    BY <2>1, <2>2, <2>3 DEF GlobalInv, SlotOK, DueOK, TypeOK, Owes
  <2> QED BY <2>2, <2>4, <2>6, <2>7, <2>8 DEF GlobalInv, AcceptOK
<1>shutdown. ASSUME Shutdown PROVE TypeOK' /\ GlobalInv'
  <2>1. GlobalCountExact' /\ active' <= MaxConnections
    BY <1>shutdown, SameSlots DEF Shutdown
  <2> QED BY <1>shutdown, <2>1 DEF Shutdown, TypeOK, GlobalInv, SlotOK, DueOK, AcceptOK
<1>head. ASSUME NEW c \in Conn, RequestHead(c) PROVE TypeOK' /\ GlobalInv'
  <2>1. GlobalCountExact' /\ active' <= MaxConnections
    BY <1>head, SameSlots DEF RequestHead
  <2>2. TypeOK'
    BY <1>head, UnrefProps DEF RequestHead, TypeOK
  <2>3. (\A d \in Conn : SlotOK(d)' /\ DueOK(d)') /\ AcceptOK'
    BY <1>head DEF RequestHead, GlobalInv, SlotOK, DueOK, AcceptOK, TypeOK, NotAccepting
  <2> QED BY <2>1, <2>2, <2>3 DEF GlobalInv
<1>serving. ASSUME NEW c \in Conn, ServeDirect(c) \/ Respond(c) PROVE TypeOK' /\ GlobalInv'
  <2>1. GlobalCountExact' /\ active' <= MaxConnections
    BY <1>serving, SameSlots DEF ServeDirect, Respond
  <2>2. TypeOK'
    BY <1>serving, UnrefProps DEF ServeDirect, Respond, TypeOK
  <2>3. (\A d \in Conn : SlotOK(d)' /\ DueOK(d)') /\ AcceptOK'
    BY <1>serving DEF ServeDirect, Respond, HeadRead, GlobalInv, SlotOK, DueOK, AcceptOK, TypeOK,
       NotAccepting
  <2> QED BY <2>1, <2>2, <2>3 DEF GlobalInv
<1>client. ASSUME NEW c \in Conn, NEW a \in Addr, AcquireClient(c, a) \/ RefuseClient(c, a)
           PROVE  TypeOK' /\ GlobalInv'
  <2>1. GlobalCountExact' /\ active' <= MaxConnections
    BY <1>client, SameSlots DEF AcquireClient, RefuseClient
  <2>2. TypeOK'
    <3>1. CASE AcquireClient(c, a)
      <4>1. /\ ipCount' = Take(ipCount, a, MaxPerIp)
            /\ client' = [client EXCEPT ![c] = [ip |-> a, refs |-> {"hold", "request"}]]
            /\ phase' = [phase EXCEPT ![c] = "serving"]
            /\ UNCHANGED <<active, preHead, listening, accepting, slot, due, pre, ws>>
        BY <3>1 DEF AcquireClient
      <4>2. ipCount' \in [Addr -> Nat]
        BY <4>1, CountTypes, LimitsType DEF TypeOK
      <4>3. [ip |-> a, refs |-> {"hold", "request"}] \in Client
        BY DEF Client
      <4> QED BY <4>1, <4>2, <4>3 DEF TypeOK
    <3>2. CASE RefuseClient(c, a)
      BY <3>2 DEF RefuseClient, TypeOK
    <3> QED BY <1>client, <3>1, <3>2
  <2>3. (\A d \in Conn : SlotOK(d)' /\ DueOK(d)') /\ AcceptOK'
    BY <1>client DEF AcquireClient, RefuseClient, HeadRead, GlobalInv, SlotOK, DueOK, AcceptOK,
       TypeOK, NotAccepting
  <2> QED BY <2>1, <2>2, <2>3 DEF GlobalInv
<1>handover. ASSUME NEW c \in Conn, Handover(c) PROVE TypeOK' /\ GlobalInv'
  <2>1. slot[c] = "PENDING" /\ ws[c] = "none"
    BY <1>handover DEF Handover, GlobalInv, SlotOK
  <2>2. TypeOK'
    BY <1>handover DEF Handover, TypeOK, Client
  <2>3. (\A d \in Conn : SlotOK(d)' /\ DueOK(d)') /\ AcceptOK'
    BY <1>handover, <2>1 DEF Handover, GlobalInv, SlotOK, DueOK, AcceptOK, TypeOK, NotAccepting
  <2>4. Counted' = Counted
    BY <1>handover, <2>1 DEF Handover, Counted, TypeOK
  <2> QED BY <1>handover, <2>2, <2>3, <2>4 DEF Handover, GlobalInv, GlobalCountExact
<1>upgraded. ASSUME NEW c \in Conn, Upgraded(c) PROVE TypeOK' /\ GlobalInv'
  <2>1. GlobalCountExact' /\ active' <= MaxConnections
    BY <1>upgraded, SameSlots DEF Upgraded
  <2>2. TypeOK'
    BY <1>upgraded, UnrefProps DEF Upgraded, TypeOK
  <2>3. (\A d \in Conn : SlotOK(d)' /\ DueOK(d)') /\ AcceptOK'
    BY <1>upgraded DEF Upgraded, GlobalInv, SlotOK, DueOK, AcceptOK, TypeOK, NotAccepting
  <2> QED BY <2>1, <2>2, <2>3 DEF GlobalInv
<1>endhttp. ASSUME NEW c \in Conn, EndHttp(c) PROVE TypeOK' /\ GlobalInv'
  <2> DEFINE s == IF ws[c] = "handler" THEN "OWNED" ELSE "PENDING"
             H == IF ws[c] = "task" THEN {"hold", "request"} ELSE {"hold", "request", "socket"}
  <2>1. /\ ReleaseFrom(c, s) /\ s \in {"PENDING", "OWNED"} /\ phase[c] # "closed"
        /\ phase' = [phase EXCEPT ![c] = "closed"]
        /\ ws' = [ws EXCEPT ![c] = IF @ = "handler" THEN "none" ELSE @]
        /\ pre' = [pre EXCEPT ![c] = IF @ = "cell" THEN "dropped" ELSE @]
        /\ client' = Unref(c, H)
        /\ UNCHANGED <<active, ipCount, preHead, listening, accepting>>
    BY <1>endhttp DEF EndHttp, AcceptGuardDrop
  <2> HIDE DEF s, H
  <2>2. /\ slot' \in [Conn -> {"PENDING", "OWNED", "RELEASED"}]
        /\ due' \in [Conn -> SUBSET {"global", "ip"}]
        /\ \A d \in Conn : d # c => slot'[d] = slot[d] /\ due'[d] = due[d]
        /\ slot[c] = s => slot'[c] = "RELEASED" /\ due'[c] = Owes(c)
        /\ slot[c] # s => slot'[c] = slot[c] /\ due'[c] = due[c]
        /\ GlobalCountExact' /\ active' <= MaxConnections
    BY <2>1, ReleaseFromProps
  <2>3. TypeOK'
    BY <2>1, <2>2, UnrefProps DEF TypeOK
  <2>4. \A d \in Conn : SlotOK(d)' /\ DueOK(d)'
    <3> SUFFICES ASSUME NEW d \in Conn PROVE SlotOK(d)' /\ DueOK(d)'
      OBVIOUS
    <3>1. CASE d # c
      BY <2>1, <2>2, <3>1 DEF GlobalInv, SlotOK, DueOK, TypeOK, Owes
    <3>2. CASE d = c
      BY <2>1, <2>2, <3>2 DEF GlobalInv, SlotOK, DueOK, TypeOK, Owes, s
    <3> QED BY <3>1, <3>2
  <2>5. AcceptOK'
    BY <2>1, <2>2 DEF GlobalInv, AcceptOK, TypeOK, NotAccepting
  <2> QED BY <2>2, <2>3, <2>4, <2>5 DEF GlobalInv
<1>endws. ASSUME NEW c \in Conn, EndWs(c) PROVE TypeOK' /\ GlobalInv'
  <2>1. /\ ReleaseFrom(c, "OWNED") /\ ws[c] = "task" /\ ws' = [ws EXCEPT ![c] = "none"]
        /\ client' = Unref(c, {"socket"})
        /\ UNCHANGED <<active, ipCount, preHead, listening, accepting, phase, pre>>
    BY <1>endws DEF EndWs
  <2>2. /\ slot' \in [Conn -> {"PENDING", "OWNED", "RELEASED"}]
        /\ due' \in [Conn -> SUBSET {"global", "ip"}]
        /\ \A d \in Conn : d # c => slot'[d] = slot[d] /\ due'[d] = due[d]
        /\ slot[c] = "OWNED" => slot'[c] = "RELEASED" /\ due'[c] = Owes(c)
        /\ GlobalCountExact' /\ active' <= MaxConnections
    BY <2>1, ReleaseFromProps
  <2>3. slot[c] = "OWNED"
    BY <2>1 DEF GlobalInv, SlotOK
  <2>4. TypeOK'
    BY <2>1, <2>2, UnrefProps DEF TypeOK
  <2>5. (\A d \in Conn : SlotOK(d)' /\ DueOK(d)') /\ AcceptOK'
    BY <2>1, <2>2, <2>3 DEF GlobalInv, SlotOK, DueOK, AcceptOK, TypeOK, NotAccepting, Owes
  <2> QED BY <2>2, <2>4, <2>5 DEF GlobalInv
<1>relglobal. ASSUME NEW c \in Conn, ReleaseGlobal(c) PROVE TypeOK' /\ GlobalInv'
  <2>1. /\ "global" \in due[c] /\ active' = active - 1
        /\ due' = [due EXCEPT ![c] = @ \ {"global"}]
        /\ UNCHANGED <<ipCount, preHead, listening, accepting, phase, slot, pre, client, ws>>
    BY <1>relglobal DEF ReleaseGlobal
  <2>2. slot[c] = "RELEASED"
    BY <2>1 DEF GlobalInv, DueOK
  <2>3. Counted' = Counted \ {c} /\ c \in Counted
    BY <2>1, <2>2 DEF Counted, TypeOK
  <2>4. Cardinality(Counted) \in Nat /\ Cardinality(Counted') = Cardinality(Counted) - 1
    BY <2>3, CountedFinite, FS_RemoveElement, FS_CardinalityType
  <2>5. Cardinality(Counted') \in Nat
    BY <2>3, CountedFinite, FS_RemoveElement, FS_CardinalityType
  <2>6. GlobalCountExact' /\ active' \in Nat
    BY <2>1, <2>4, <2>5 DEF GlobalInv, GlobalCountExact
  <2>7. TypeOK'
    BY <2>1, <2>6 DEF TypeOK
  <2>8. active' <= MaxConnections /\ active' < active
    BY <2>1, LimitsType DEF GlobalInv, TypeOK
  <2>9. (\A d \in Conn : SlotOK(d)' /\ DueOK(d)') /\ AcceptOK'
    BY <2>1, <2>2, <2>8, LimitsType DEF GlobalInv, SlotOK, DueOK, AcceptOK, TypeOK, NotAccepting,
       Owes
  <2> QED BY <2>6, <2>7, <2>8, <2>9 DEF GlobalInv
<1>relip. ASSUME NEW c \in Conn, ReleaseIp(c) PROVE TypeOK' /\ GlobalInv'
  <2>1. /\ due[c] = {"ip"} /\ due' = [due EXCEPT ![c] = {}]
        /\ ipCount' = Give(ipCount, Peer[c])
        /\ UNCHANGED <<active, preHead, listening, accepting, phase, slot, pre, client, ws>>
    BY <1>relip DEF ReleaseIp
  <2>2. TypeOK'
    BY <2>1, CountTypes, PeerType DEF TypeOK
  <2>3. Counted' = Counted
    BY <2>1 DEF Counted, TypeOK
  <2>4. (\A d \in Conn : SlotOK(d)' /\ DueOK(d)') /\ AcceptOK'
    BY <2>1 DEF GlobalInv, SlotOK, DueOK, AcceptOK, TypeOK, Owes, NotAccepting
  <2> QED BY <2>1, <2>2, <2>3, <2>4 DEF GlobalInv, GlobalCountExact
<1>relguard. ASSUME NEW c \in Conn, ReleaseClient(c) \/ ReleasePreHead(c) PROVE TypeOK' /\ GlobalInv'
  <2>1. UNCHANGED <<active, slot, due, phase, ws, accepting, listening>>
    BY <1>relguard DEF ReleaseClient, ReleasePreHead
  <2>2. TypeOK'
    <3>1. CASE ReleasePreHead(c)
      BY <3>1, CountTypes, PeerType DEF ReleasePreHead, TypeOK
    <3>2. CASE ReleaseClient(c)
      <4>1. ipCount' \in [Addr -> Nat]
        BY <3>2, GiveType DEF ReleaseClient, TypeOK
      <4>2. client' \in [Conn -> Client]
        BY <3>2 DEF ReleaseClient, TypeOK, Client, NoClient
      <4> QED BY <3>2, <4>1, <4>2 DEF ReleaseClient, TypeOK
    <3> QED BY <1>relguard, <3>1, <3>2
  <2>3. GlobalCountExact' /\ active' <= MaxConnections
    BY <2>1, SameSlots
  <2> QED BY <2>1, <2>2, <2>3 DEF GlobalInv, SlotOK, DueOK, AcceptOK, Owes
<1>stutter. CASE UNCHANGED vars
  <2>1. GlobalCountExact' /\ active' <= MaxConnections
    BY <1>stutter, SameSlots DEF vars
  <2> QED BY <1>stutter, <2>1 DEF vars, TypeOK, GlobalInv, SlotOK, DueOK, AcceptOK, Owes
<1> QED
  BY <1>check, <1>peer, <1>refuse, <1>register, <1>shutdown, <1>head, <1>serving, <1>client,
     <1>handover, <1>upgraded, <1>endhttp, <1>endws, <1>relglobal, <1>relip, <1>relguard,
     <1>stutter DEF Next, Accept, Serve, End, Release

\* The accounts of the global slots at the start,
LEMMA GlobalInit == Init => TypeOK /\ GlobalInv
<1> SUFFICES ASSUME Init PROVE TypeOK /\ GlobalInv
  OBVIOUS
<1>1. TypeOK
  BY DEF Init, TypeOK, Client, NoClient
<1>2. Counted = {}
  BY DEF Init, Counted
<1>3. GlobalCountExact
  BY <1>2, FS_EmptySet DEF Init, GlobalCountExact
<1> QED BY <1>1, <1>3, LimitsType DEF Init, GlobalInv, SlotOK, DueOK, AcceptOK

\* and always.
LEMMA GlobalInvariant == Spec => [](TypeOK /\ GlobalInv)
  BY GlobalInit, GlobalStep, PTL DEF Spec

\* The unsigned counts never wrap and every guard is in a state of its kind.
THEOREM TypeCorrect == Spec => []TypeOK
  BY GlobalInvariant, PTL

\* The global count is the number of connections that hold it: the handover
\* race releases every slot exactly once.
THEOREM GlobalCountCorrect == Spec => []GlobalCountExact
  BY GlobalInvariant, PTL DEF GlobalInv

\* Every open socket is counted, and no more are open than max_connections.
THEOREM OpenSocketsCorrect == Spec => []OpenSocketsCapped
<1>1. TypeOK /\ GlobalInv => OpenSocketsCapped
  BY DEF GlobalInv, OpenSocketsCapped, Open, SlotOK
<1> QED BY <1>1, GlobalInvariant, PTL

------------------------------------------------------------------------------
(* The per-IP counts.                                                       *)

\* Only a proxied connection has a client guard, and one without an address
\* has no handles.
ClientOK(c) ==
    /\ client[c].ip # None => Trusted(c)
    /\ client[c].ip = None => client[c] = NoClient

\* A counter is its number of holders and within the cap.
CountOK(a) == ipCount[a] = Cardinality(Holding(a)) /\ ipCount[a] <= MaxPerIp

IpInv == (\A c \in Conn : ClientOK(c)) /\ (MaxPerIp > 0 => \A a \in Addr : CountOK(a))

\* Steps that change no holder of any per-IP slot.
HoldersKept ==
    /\ UNCHANGED ipCount
    /\ \A c \in Conn : (HoldsPeerSlot(c)' <=> HoldsPeerSlot(c)) /\ client'[c].ip = client[c].ip

\* The holders of an address can be counted.
LEMMA HoldingFinite == \A a : IsFiniteSet(Holding(a)) /\ Cardinality(Holding(a)) \in Nat
  BY ConnFinite, FS_Subset, FS_CardinalityType DEF Holding

\* The count of an address follows from its holders.
LEMMA KeptCounts ==
  ASSUME HoldersKept, IpInv, MaxPerIp > 0
  PROVE  \A a \in Addr : CountOK(a)'
<1>1. \A a \in Addr : Holding(a)' = Holding(a)
  BY DEF HoldersKept, Holding
<1> QED BY <1>1 DEF IpInv, CountOK, HoldersKept

\* A connection that takes a slot of a joins its holders and no other's.
LEMMA TakenCounts ==
  ASSUME TypeOK, IpInv, MaxPerIp > 0, NEW c \in Conn, NEW a \in Addr,
         HasRoom(ipCount, a, MaxPerIp), ipCount' = Take(ipCount, a, MaxPerIp),
         c \notin Holding(a), Holding(a)' = Holding(a) \cup {c},
         \A b \in Addr \ {a} : Holding(b)' = Holding(b)
  PROVE  \A b \in Addr : CountOK(b)'
<1>1. /\ ipCount[a] \in Nat /\ ipCount[a] < MaxPerIp /\ ipCount'[a] = ipCount[a] + 1
      /\ \A b \in Addr \ {a} : ipCount'[b] = ipCount[b]
  BY DEF TypeOK, HasRoom, Take
<1>2. Cardinality(Holding(a) \cup {c}) = Cardinality(Holding(a)) + 1
  BY HoldingFinite, FS_AddElement
<1>3. CountOK(a)'
  BY <1>1, <1>2, LimitsType DEF IpInv, CountOK
<1>4. ASSUME NEW b \in Addr \ {a} PROVE CountOK(b)'
  BY <1>1 DEF IpInv, CountOK
<1> QED BY <1>3, <1>4

\* A connection that gives a slot of a back leaves its holders.
LEMMA GivenCounts ==
  ASSUME TypeOK, IpInv, MaxPerIp > 0, NEW c \in Conn, NEW a \in Addr,
         ipCount' = Give(ipCount, a),
         c \in Holding(a), Holding(a)' = Holding(a) \ {c},
         \A b \in Addr \ {a} : Holding(b)' = Holding(b)
  PROVE  \A b \in Addr : CountOK(b)'
<1>1. Cardinality(Holding(a) \ {c}) = Cardinality(Holding(a)) - 1
  BY HoldingFinite, FS_RemoveElement
<1>2. Cardinality(Holding(a) \ {c}) \in Nat /\ Cardinality(Holding(a)) \in Nat
  BY HoldingFinite, FS_RemoveElement, FS_CardinalityType
<1>3. ipCount[a] = Cardinality(Holding(a)) /\ ipCount[a] <= MaxPerIp
  BY DEF IpInv, CountOK
<1>4. /\ ipCount'[a] = ipCount[a] - 1
      /\ \A b \in Addr \ {a} : ipCount'[b] = ipCount[b]
  BY <1>1, <1>2, <1>3 DEF TypeOK, Give
<1>5. CountOK(a)'
  BY <1>1, <1>2, <1>3, <1>4, LimitsType DEF CountOK
<1>6. ASSUME NEW b \in Addr \ {a} PROVE CountOK(b)'
  BY <1>4 DEF IpInv, CountOK
<1> QED BY <1>5, <1>6

\* Letting go of a slot moves its per-IP key to the debt.
LEMMA ReleaseKeepsHolders ==
  ASSUME TypeOK, GlobalInv, NEW c \in Conn, NEW s \in {"PENDING", "OWNED"}, NEW H,
         ReleaseFrom(c, s), client' = Unref(c, H), UNCHANGED <<active, ipCount, accepting>>
  PROVE  HoldersKept
<1>1. /\ \A d \in Conn : d # c => slot'[d] = slot[d] /\ due'[d] = due[d]
      /\ slot[c] = s => slot'[c] = "RELEASED" /\ due'[c] = Owes(c)
      /\ slot[c] # s => slot'[c] = slot[c] /\ due'[c] = due[c]
  BY ReleaseFromProps
<1>2. \A d \in Conn : client'[d].ip = client[d].ip
  BY UnrefProps
<1> QED BY <1>1, <1>2 DEF HoldersKept, HoldsPeerSlot, Owes, Trusted

\* Every step keeps the per-IP accounting.
LEMMA IpStep == TypeOK /\ TypeOK' /\ GlobalInv /\ IpInv /\ [Next]_vars => IpInv'
<1> SUFFICES ASSUME TypeOK, TypeOK', GlobalInv, IpInv, [Next]_vars PROVE IpInv'
  OBVIOUS
<1>guards. ASSUME NEW c \in Conn, NEW H, client' = Unref(c, H)
           PROVE  \A d \in Conn : ClientOK(d)'
  <2> SUFFICES ASSUME NEW d \in Conn PROVE ClientOK(d)'
    OBVIOUS
  <2>1. ClientOK(d) /\ client[d] \in Client
    BY DEF IpInv, TypeOK
  <2>2. client'[d].ip = client[d].ip
    BY <1>guards, UnrefProps
  <2>3. client[d] = NoClient => client'[d] = NoClient
    <3>1. CASE d = c
      <4>1. client'[d] = [client[d] EXCEPT !.refs = @ \ H]
        BY <1>guards, <3>1 DEF Unref, TypeOK
      <4> QED BY <4>1 DEF NoClient
    <3>2. CASE d # c
      BY <1>guards, <3>2 DEF Unref, TypeOK
    <3> QED BY <3>1, <3>2
  <2> QED BY <2>1, <2>2, <2>3 DEF ClientOK, Trusted
<1>same. ASSUME client' = client PROVE \A d \in Conn : ClientOK(d)'
  BY <1>same DEF IpInv, ClientOK, Trusted
<1>loop. ASSUME (\E c \in Conn : CheckGlobal(c)) \/ RefusePeer \/ Shutdown PROVE IpInv'
  <2>1. /\ UNCHANGED <<ipCount, slot, due, client>>
        /\ \A d \in Conn : accepting' # [conn |-> d, step |-> "register"]
        /\ \A d \in Conn : accepting # [conn |-> d, step |-> "register"]
    BY <1>loop DEF CheckGlobal, RefusePeer, Shutdown, NotAccepting
  <2>2. HoldersKept
    BY <2>1 DEF HoldersKept, HoldsPeerSlot, Trusted
  <2> QED BY <2>1, <2>2, <1>same, KeptCounts DEF IpInv
<1>peer. ASSUME AcquirePeer PROVE IpInv'
  <2> DEFINE c == accepting.conn
  <2>1. /\ c \in Conn /\ accepting # NotAccepting /\ accepting = [conn |-> c, step |-> "peer"]
        /\ accepting' = [conn |-> c, step |-> "register"]
        /\ UNCHANGED <<slot, due, client>>
    BY <1>peer DEF AcquirePeer, TypeOK, NotAccepting
  <2>2. CASE Trusted(c)
    <3>1. UNCHANGED ipCount
      BY <1>peer, <2>2 DEF AcquirePeer
    <3>2. HoldersKept
      BY <2>1, <2>2, <3>1 DEF HoldersKept, HoldsPeerSlot, Trusted
    <3> QED BY <2>1, <3>2, <1>same, KeptCounts DEF IpInv
  <2>3. CASE ~Trusted(c)
    <3> DEFINE a == Peer[c]
    <3>1. /\ a \in Addr /\ HasRoom(ipCount, a, MaxPerIp)
          /\ ipCount' = Take(ipCount, a, MaxPerIp)
      BY <1>peer, <2>1, <2>3, PeerType DEF AcquirePeer
    <3>2. slot[c] = "RELEASED" /\ due[c] = {} /\ client[c].ip = None
      BY <2>1, <2>3 DEF GlobalInv, AcceptOK, SlotOK, IpInv, ClientOK
    <3>3. ~HoldsPeerSlot(c) /\ HoldsPeerSlot(c)'
      BY <2>1, <2>3, <3>2 DEF HoldsPeerSlot, Trusted
    <3>4. \A d \in Conn \ {c} : HoldsPeerSlot(d)' <=> HoldsPeerSlot(d)
      BY <2>1 DEF HoldsPeerSlot, Trusted
    <3>5. /\ c \notin Holding(a) /\ Holding(a)' = Holding(a) \cup {c}
          /\ \A b \in Addr \ {a} : Holding(b)' = Holding(b)
      <4>1. client' = client /\ client[c].ip # a
        BY <2>1, <3>1, <3>2, ConnFinite
      <4> QED BY <2>1, <3>3, <3>4, <4>1 DEF Holding
    <3>6. MaxPerIp > 0 => \A b \in Addr : CountOK(b)'
      BY <2>1, <3>1, <3>5, TakenCounts
    <3> QED BY <2>1, <3>6, <1>same DEF IpInv
  <2> QED BY <2>2, <2>3
<1>register. ASSUME Register PROVE IpInv'
  <2> DEFINE c == accepting.conn
  <2>1. /\ c \in Conn /\ accepting = [conn |-> c, step |-> "register"]
        /\ accepting' = NotAccepting
        /\ slot' = [slot EXCEPT ![c] = "PENDING"]
        /\ UNCHANGED <<ipCount, due, client>>
    BY <1>register DEF Register, TypeOK, NotAccepting
  <2>2. HoldersKept
    BY <2>1 DEF HoldersKept, HoldsPeerSlot, Trusted, TypeOK, NotAccepting
  <2> QED BY <2>1, <2>2, <1>same, KeptCounts DEF IpInv
<1>serve. ASSUME NEW c \in Conn, RequestHead(c) \/ Respond(c) \/ Upgraded(c) PROVE IpInv'
  <2>1. PICK H : client' = Unref(c, H)
    BY <1>serve DEF RequestHead, Respond, Upgraded
  <2>2. UNCHANGED <<ipCount, slot, due, accepting>>
    BY <1>serve DEF RequestHead, Respond, Upgraded
  <2>3. HoldersKept
    BY <2>1, <2>2, UnrefProps DEF HoldersKept, HoldsPeerSlot, Trusted
  <2> QED BY <2>1, <2>3, <1>guards, KeptCounts DEF IpInv
<1>plain. ASSUME NEW c \in Conn, ServeDirect(c) \/ \E a \in Addr : RefuseClient(c, a) PROVE IpInv'
  <2>1. UNCHANGED <<ipCount, slot, due, accepting, client>>
    BY <1>plain DEF ServeDirect, RefuseClient
  <2>2. HoldersKept
    BY <2>1 DEF HoldersKept, HoldsPeerSlot, Trusted
  <2> QED BY <2>1, <2>2, <1>same, KeptCounts DEF IpInv
<1>client. ASSUME NEW c \in Conn, NEW a \in Addr, AcquireClient(c, a) PROVE IpInv'
  <2>1. /\ Trusted(c) /\ client[c] = NoClient
        /\ HasRoom(ipCount, a, MaxPerIp) /\ ipCount' = Take(ipCount, a, MaxPerIp)
        /\ client' = [client EXCEPT ![c] = [ip |-> a, refs |-> {"hold", "request"}]]
        /\ UNCHANGED <<slot, due, accepting>>
    BY <1>client DEF AcquireClient, HeadRead
  <2>2. /\ client[c].ip = None /\ None # a /\ client'[c].ip = a
        /\ \A d \in Conn \ {c} : client'[d] = client[d]
    BY <2>1, ConnFinite DEF NoClient, TypeOK
  <2>3. \A d \in Conn : HoldsPeerSlot(d)' <=> HoldsPeerSlot(d)
    BY <2>1 DEF HoldsPeerSlot, Trusted
  <2>4. ~HoldsPeerSlot(c)
    BY <2>1 DEF HoldsPeerSlot
  <2>5. /\ c \notin Holding(a) /\ Holding(a)' = Holding(a) \cup {c}
        /\ \A b \in Addr \ {a} : Holding(b)' = Holding(b)
    BY <2>2, <2>3, <2>4, ConnFinite DEF Holding
  <2>6. MaxPerIp > 0 => \A b \in Addr : CountOK(b)'
    BY <2>1, <2>5, TakenCounts
  <2>7. \A d \in Conn : ClientOK(d)'
    BY <2>1, <2>2 DEF IpInv, ClientOK, Trusted
  <2> QED BY <2>6, <2>7 DEF IpInv
<1>handover. ASSUME NEW c \in Conn, Handover(c) PROVE IpInv'
  <2>1. /\ slot[c] = "PENDING" /\ slot' = [slot EXCEPT ![c] = IF @ = "PENDING" THEN "OWNED" ELSE @]
        /\ client' = [client EXCEPT ![c].refs = IF @ = {} THEN @ ELSE @ \cup {"socket"}]
        /\ UNCHANGED <<ipCount, due, accepting>>
    BY <1>handover DEF Handover, GlobalInv, SlotOK
  <2>2. /\ \A d \in Conn : client'[d].ip = client[d].ip
        /\ \A d \in Conn : client[d] = NoClient => client'[d] = NoClient
    <3> SUFFICES ASSUME NEW d \in Conn
                 PROVE  /\ client'[d].ip = client[d].ip
                        /\ client[d] = NoClient => client'[d] = NoClient
      OBVIOUS
    <3>1. CASE d = c
      <4> DEFINE r == IF client[c].refs = {} THEN client[c].refs
                      ELSE client[c].refs \cup {"socket"}
      <4>1. client'[c] = [client[c] EXCEPT !.refs = r] /\ client[c] \in Client
        BY <2>1 DEF TypeOK
      <4>2. client'[c] = [ip |-> client[c].ip, refs |-> r]
        BY <4>1 DEF Client
      <4> QED BY <3>1, <4>2 DEF NoClient
    <3>2. CASE d # c
      BY <2>1, <3>2 DEF TypeOK
    <3> QED BY <3>1, <3>2
  <2>3. HoldersKept
    BY <2>1, <2>2 DEF HoldersKept, HoldsPeerSlot, Trusted, TypeOK
  <2>4. \A d \in Conn : ClientOK(d)'
    BY <2>2 DEF IpInv, ClientOK, Trusted
  <2> QED BY <2>3, <2>4, KeptCounts DEF IpInv
<1>end. ASSUME NEW c \in Conn, EndHttp(c) \/ EndWs(c) PROVE IpInv'
  <2>1. PICK s \in {"PENDING", "OWNED"}, H \in SUBSET {"hold", "request", "socket"} :
          ReleaseFrom(c, s) /\ client' = Unref(c, H)
    <3>1. CASE EndHttp(c)
      <4>1. /\ ReleaseFrom(c, IF ws[c] = "handler" THEN "OWNED" ELSE "PENDING")
            /\ client' = Unref(c, IF ws[c] = "task" THEN {"hold", "request"}
                                  ELSE {"hold", "request", "socket"})
        BY <3>1 DEF EndHttp, AcceptGuardDrop
      <4>2. /\ (IF ws[c] = "handler" THEN "OWNED" ELSE "PENDING") \in {"PENDING", "OWNED"}
            /\ (IF ws[c] = "task" THEN {"hold", "request"} ELSE {"hold", "request", "socket"})
                 \in SUBSET {"hold", "request", "socket"}
        OBVIOUS
      <4> QED BY <4>1, <4>2, Zenon
    <3>2. CASE EndWs(c)
      <4>1. ReleaseFrom(c, "OWNED") /\ client' = Unref(c, {"socket"})
        BY <3>2 DEF EndWs
      <4>2. "OWNED" \in {"PENDING", "OWNED"} /\ {"socket"} \in SUBSET {"hold", "request", "socket"}
        OBVIOUS
      <4> QED BY <4>1, <4>2, Zenon
    <3> QED BY <1>end, <3>1, <3>2
  <2>2. UNCHANGED <<active, ipCount, accepting>>
    BY <1>end DEF EndHttp, EndWs
  <2>3. HoldersKept
    BY <2>1, <2>2, ReleaseKeepsHolders
  <2> QED BY <2>1, <2>3, <1>guards, KeptCounts DEF IpInv
<1>relglobal. ASSUME NEW c \in Conn, ReleaseGlobal(c) \/ ReleasePreHead(c) PROVE IpInv'
  <2>1. /\ UNCHANGED <<ipCount, slot, accepting, client>>
        /\ \A d \in Conn : "ip" \in due'[d] <=> "ip" \in due[d]
    BY <1>relglobal DEF ReleaseGlobal, ReleasePreHead, TypeOK
  <2>2. HoldersKept
    BY <2>1 DEF HoldersKept, HoldsPeerSlot, Trusted
  <2> QED BY <2>1, <2>2, <1>same, KeptCounts DEF IpInv
<1>relip. ASSUME NEW c \in Conn, ReleaseIp(c) PROVE IpInv'
  <2> DEFINE a == Peer[c]
  <2>1. /\ due[c] = {"ip"} /\ due' = [due EXCEPT ![c] = {}] /\ ipCount' = Give(ipCount, a)
        /\ UNCHANGED <<slot, accepting, client>> /\ a \in Addr
    BY <1>relip, PeerType DEF ReleaseIp
  <2>2. slot[c] = "RELEASED" /\ ~Trusted(c) /\ accepting # [conn |-> c, step |-> "register"]
    BY <2>1 DEF GlobalInv, DueOK, Owes, AcceptOK, NotAccepting
  <2>3. client[c].ip = None /\ None # a
    BY <2>1, <2>2, ConnFinite DEF IpInv, ClientOK
  <2>4. HoldsPeerSlot(c) /\ ~HoldsPeerSlot(c)'
    BY <2>1, <2>2 DEF HoldsPeerSlot, TypeOK
  <2>5. \A d \in Conn \ {c} : HoldsPeerSlot(d)' <=> HoldsPeerSlot(d)
    BY <2>1 DEF HoldsPeerSlot, Trusted, TypeOK
  <2>6. /\ c \in Holding(a) /\ Holding(a)' = Holding(a) \ {c}
        /\ \A b \in Addr \ {a} : Holding(b)' = Holding(b)
    BY <2>1, <2>3, <2>4, <2>5 DEF Holding
  <2>7. MaxPerIp > 0 => \A b \in Addr : CountOK(b)'
    BY <2>1, <2>6, GivenCounts
  <2> QED BY <2>1, <2>7, <1>same DEF IpInv
<1>relclient. ASSUME NEW c \in Conn, ReleaseClient(c) PROVE IpInv'
  <2> DEFINE a == client[c].ip
  <2>1. /\ client[c] # NoClient /\ ipCount' = Give(ipCount, client[c].ip)
        /\ client' = [client EXCEPT ![c] = NoClient]
        /\ UNCHANGED <<slot, due, accepting>>
    BY <1>relclient DEF ReleaseClient
  <2>2. a # None /\ a \in Addr /\ Trusted(c)
    BY <2>1 DEF IpInv, ClientOK, TypeOK, Client
  <2>3. client'[c].ip = None /\ \A d \in Conn \ {c} : client'[d] = client[d]
    BY <2>1 DEF TypeOK, NoClient
  <2>4. \A d \in Conn : HoldsPeerSlot(d)' <=> HoldsPeerSlot(d)
    BY <2>1 DEF HoldsPeerSlot, Trusted
  <2>5. ~HoldsPeerSlot(c)
    BY <2>2 DEF HoldsPeerSlot
  <2>6. PICK b \in Addr : b = client[c].ip
    BY <2>2
  <2>7. /\ c \in Holding(b) /\ Holding(b)' = Holding(b) \ {c}
        /\ \A x \in Addr \ {b} : Holding(x)' = Holding(x)
    BY <2>2, <2>3, <2>4, <2>5, <2>6, ConnFinite DEF Holding
  <2>8. MaxPerIp > 0 => \A x \in Addr : CountOK(x)'
    BY <2>1, <2>6, <2>7, GivenCounts
  <2>9. \A d \in Conn : ClientOK(d)'
    BY <2>1, <2>3 DEF IpInv, ClientOK, Trusted, TypeOK, NoClient
  <2> QED BY <2>8, <2>9 DEF IpInv
<1>stutter. CASE UNCHANGED vars
  <2>1. HoldersKept /\ client' = client
    BY <1>stutter DEF vars, HoldersKept, HoldsPeerSlot, Trusted
  <2> QED BY <2>1, <1>same, KeptCounts DEF IpInv
<1>accept. CASE Accept
  BY <1>accept, <1>loop, <1>peer, <1>register DEF Accept
<1> QED
  BY <1>accept, <1>serve, <1>plain, <1>client, <1>handover, <1>end, <1>relglobal, <1>relip,
     <1>relclient, <1>stutter DEF Next, Serve, End, Release

\* The counts per address always agree with the holders.
LEMMA IpInvariant == Spec => []IpInv
<1>1. Init => IpInv
  <2> SUFFICES ASSUME Init PROVE IpInv
    OBVIOUS
  <2>1. \A a \in Addr : Holding(a) = {}
    BY ConnFinite DEF Init, Holding, HoldsPeerSlot, NoClient, NotAccepting
  <2> QED BY <2>1, FS_EmptySet, LimitsType DEF Init, IpInv, ClientOK, CountOK, NoClient
<1> QED BY <1>1, IpStep, GlobalInvariant, PTL DEF Spec

\* Every per-IP count is the number of connections that hold a slot of the
\* address, direct or forwarded.
THEOREM PerIpCountCorrect == Spec => []PerIpCountExact
<1>1. IpInv => PerIpCountExact
  BY DEF IpInv, CountOK, PerIpCountExact
<1> QED BY <1>1, IpInvariant, PTL

\* No address holds more than max_connections_per_ip connections.
THEOREM PerIpCapCorrect == Spec => []PerIpCapHolds
<1>1. IpInv => PerIpCapHolds
  BY DEF IpInv, CountOK, PerIpCapHolds
<1> QED BY <1>1, IpInvariant, PTL

\* Both counters are exact and both limits hold: no path of a connection's
\* tasks and guards leaks a slot or releases one twice (serve_limited, ConnSlot).
THEOREM SlotsCorrect == Spec => []SlotsAccounted
  BY GlobalCountCorrect, PerIpCountCorrect, OpenSocketsCorrect, PerIpCapCorrect, PTL
     DEF SlotsAccounted

-----------------------------------------------------------------------------
(* A WebSocket session *)

Frame == [t : {"EVENT", "EOSE", "CLOSED", "AUTH", "COUNT", "OK"}, sub : SubIds \cup {NoSub}, inc : Nat, live : BOOLEAN, ev : Nat]
Response == [sub : SubIds, evs : Seq(EventIds), sent : Nat, more : BOOLEAN, auth : BOOLEAN, live : Seq(EventIds), eose : BOOLEAN,
             reserved : Nat]
Components == UNION {FilterComponents(f) : f \in Filters}
ConnRecord ==
    [subs : [SubIds -> Filters \cup {NoSub}], subBytes : Int, held : Int, index : SUBSET Components, live : LiveQueue \cup {NoQueue},
     gen : Nat, pending : Seq(Response), out : Seq(Frame), reserved : Int, ctlOver : BOOLEAN, liveOver : BOOLEAN,
     authed : SUBSET Keys, auths : Nat, cache : BOOLEAN, reqAuth : BOOLEAN, inc : [SubIds -> Nat], full : [SubIds -> BOOLEAN]]

\* d is a connection that differs from cn at most in F.
ConnFields == {"subs", "subBytes", "held", "index", "live", "gen", "pending", "out", "reserved", "ctlOver", "liveOver", "authed",
               "auths", "cache", "reqAuth", "inc", "full"}
But(cn, d, F) == d \in ConnRecord /\ \A x \in ConnFields \ F : d[x] = cn[x]

\* A new queue changes the queue only.
LEMMA SetOut ==
  ASSUME NEW cn \in ConnRecord, NEW o \in Seq(Frame)
  PROVE  But(cn, [cn EXCEPT !.out = o], {"out"}) /\ [cn EXCEPT !.out = o].out = o
  BY DEF But, ConnRecord, ConnFields

\* What is left of a sequence has no element of the ids, and all the others.
LeftOf(S, ids) == {x \in S : x.sub \notin ids}

\* WithoutSubs leaves out the elements of the ids and nothing else.
LEMMA LeftOver ==
  ASSUME NEW S, NEW q \in Seq(S), NEW ids
  PROVE  /\ WithoutSubs(q, ids) \in Seq(LeftOf(S, ids))
         /\ \A k \in 1..Len(q) : q[k].sub \notin ids => \E j \in 1..Len(WithoutSubs(q, ids)) : WithoutSubs(q, ids)[j] = q[k]
  <1>0. PICK n \in Nat : n = Len(q) /\ \A k \in 1..n : q[k] \in S
    BY LenProperties, ElementOfSeq
  <1>1. PICK D : D = Seq({x \in S : x.sub \notin ids})
    OBVIOUS
  <1>2. PICK e : e = <<>>
    OBVIOUS
  <1>3. e \in D /\ \A s \in D : Len(s) \in Nat
    BY <1>1, <1>2, LenProperties
  <1>4. \A s \in D, k \in 1..n : q[k].sub \notin ids =>
           /\ Append(s, q[k]) \in D /\ Len(Append(s, q[k])) = Len(s) + 1
           /\ \A j \in 1..Len(s) : Append(s, q[k])[j] = s[j]
           /\ Append(s, q[k])[Len(s) + 1] = q[k]
    BY <1>0, <1>1, AppendProperties
  <1> DEFINE Walk1(s, k) == IF q[k].sub \in ids THEN s ELSE Append(s, q[k])
             G == [x \in D \X (1..n) |-> Walk1(x[1], x[2])]
             f == CHOOSE f : f = [k \in 0..n |-> IF k = 0 THEN e ELSE Walk1(f[k - 1], k)]
             Kept(s, k) == q[k].sub \notin ids => \E j \in 1..Len(s) : s[j] = q[k]
  <1>5. \A s \in D, k \in 1..n : Walk1(s, k) \in D
    BY <1>3, <1>4
  <1>6. \A s \in D, k \in 1..n : Kept(Walk1(s, k), k) /\ \A j \in 1..n : Kept(s, j) => Kept(Walk1(s, k), j)
    <2> SUFFICES ASSUME NEW s \in D, NEW k \in 1..n
                 PROVE  Kept(Walk1(s, k), k) /\ \A j \in 1..n : Kept(s, j) => Kept(Walk1(s, k), j)
      OBVIOUS
    <2>1. CASE q[k].sub \in ids
      BY <2>1
    <2>2. CASE q[k].sub \notin ids
      <3>1. PICK t : t = Append(s, q[k])
        OBVIOUS
      <3>2. Len(s) \in Nat /\ Len(t) = Len(s) + 1 /\ (\A j \in 1..Len(s) : t[j] = s[j]) /\ t[Len(s) + 1] = q[k]
        BY <1>3, <1>4, <2>2, <3>1
      <3>3. Kept(t, k) /\ \A j \in 1..n : Kept(s, j) => Kept(t, j)
        BY <3>2
      <3> QED BY <2>2, <3>1, <3>3
    <2> QED BY <2>1, <2>2
  <1>8. WithoutSubs(q, ids) = f[n]
    BY <1>0, <1>2 DEF WithoutSubs
  <1> HIDE DEF Walk1, Kept
  <1>9. PICK g : Walks(D, e, G, n, g)
    <2>1. G \in [D \X (1..n) -> D]
      BY <1>5
    <2> HIDE DEF G
    <2> QED BY <1>3, <2>1, WalkExists
  <1>10. g = [k \in 0..n |-> IF k = 0 THEN e ELSE Walk1(g[k - 1], k)]
    <2>1. g \in [0..n -> D] /\ g[0] = e /\ \A k \in 1..n : g[k] = Walk1(g[k - 1], k)
      BY <1>9 DEF Walks
    <2> QED BY <2>1
  <1>11. f[0] = e /\ \A k \in 1..n : f[k] = Walk1(f[k - 1], k)
    <2>1. f = [k \in 0..n |-> IF k = 0 THEN e ELSE Walk1(f[k - 1], k)]
      BY <1>10
    <2> HIDE DEF f
    <2> QED BY <2>1
  <1> HIDE DEF f
  <1>12. PICK X : X = {x \in D \X (0..n) : \A k \in 1..x[2] : Kept(x[1], k)}
    OBVIOUS
  <1> DEFINE h == [k \in 0..n |-> <<f[k], k>>]
  <1>13. h[0] \in X
    BY <1>3, <1>11, <1>12
  <1>14. \A k \in 1..n : h[k - 1] \in X => h[k] \in X
    <2> SUFFICES ASSUME NEW k \in 1..n, h[k - 1] \in X PROVE h[k] \in X
      OBVIOUS
    <2>0. k - 1 \in 0..n /\ k \in 0..n
      OBVIOUS
    <2>1. f[k - 1] \in D /\ \A j \in 1..(k - 1) : Kept(f[k - 1], j)
      BY <2>0, <1>12
    <2>2. f[k] \in D /\ Kept(f[k], k) /\ \A j \in 1..(k - 1) : Kept(f[k], j)
      BY <2>1, <1>5, <1>6, <1>11
    <2>3. \A j \in 1..k : Kept(f[k], j)
      BY <2>2
    <2> QED BY <2>0, <2>2, <2>3, <1>12
  <1>15. h[n] \in X
    <2>1. \A k \in 0..n : h[k] \in X
      <3> HIDE DEF h
      <3> QED BY <1>13, <1>14, WalkInduct
    <2> QED BY <2>1
  <1>16. f[n] \in D /\ \A k \in 1..n : Kept(f[n], k)
    BY <1>12, <1>15
  <1> QED BY <1>0, <1>1, <1>8, <1>16 DEF Kept, LeftOf

-----------------------------------------------------------------------------
(* What the responses reserve *)

\* The responses are finitely many, with what they reserve.
LEMMA Responses ==
  ASSUME NEW p \in Seq(Response)
  PROVE  \E n \in Nat : /\ n = Len(p) /\ DOMAIN p = 1..n /\ IsFiniteSet(1..n)
                        /\ \A k \in 1..n : p[k] \in Response /\ p[k].reserved \in Nat
  <1>1. PICK n \in Nat : n = Len(p) /\ DOMAIN p = 1..n /\ \A k \in 1..n : p[k] \in Response
    BY LenProperties, ElementOfSeq
  <1>2. IsFiniteSet(1..n)
    BY FS_Interval
  <1>3. \A r \in Response : r.reserved \in Nat
    BY DEF Response
  <1> QED BY <1>1, <1>2, <1>3

\* The sum as one over numbers.
LEMMA ReservedIs ==
  ASSUME NEW p \in Seq(Response), NEW n \in Nat, n = Len(p), NEW f, \A k \in 1..n : f[k] = p[k].reserved
  PROVE  SumReserved(p) = SumOver(f, 1..n)
  <1>1. DOMAIN p = 1..n
    BY LenProperties
  <1>2. PICK g : g = [k \in 1..n |-> p[k].reserved]
    OBVIOUS
  <1>3. SumReserved(p) = SumOver(g, 1..n)
    BY <1>1, <1>2 DEF SumReserved
  <1>4. \A k \in 1..n : f[k] = g[k]
    BY <1>2
  <1> QED BY <1>3, <1>4, SumSame

\* The sum is a number.
LEMMA ReservedNat ==
  ASSUME NEW p \in Seq(Response)
  PROVE  SumReserved(p) \in Nat
  <1>1. PICK n \in Nat : n = Len(p) /\ IsFiniteSet(1..n) /\ \A k \in 1..n : p[k].reserved \in Nat
    BY Responses
  <1>2. PICK g : g = [k \in 1..n |-> p[k].reserved]
    OBVIOUS
  <1>3. \A k \in 1..n : g[k] \in Nat /\ g[k] = p[k].reserved
    BY <1>1, <1>2
  <1>4. SumOver(g, 1..n) \in Nat
    BY <1>1, <1>3, SumNat
  <1> QED BY <1>1, <1>3, <1>4, ReservedIs

\* One response that reserves something else changes the sum by the difference.
LEMMA ReservedChange ==
  ASSUME NEW p \in Seq(Response), NEW q \in Seq(Response), Len(q) = Len(p), NEW m \in 1..Len(p),
         \A k \in 1..Len(p) : k # m => q[k].reserved = p[k].reserved
  PROVE  SumReserved(q) = SumReserved(p) - p[m].reserved + q[m].reserved
  <1>1. PICK n \in Nat : n = Len(p) /\ IsFiniteSet(1..n) /\ \A k \in 1..n : p[k].reserved \in Nat
    BY Responses
  <1>2. \A k \in 1..n : q[k].reserved \in Nat
    BY <1>1, Responses
  <1>3. PICK f, g : f = [k \in 1..n |-> p[k].reserved] /\ g = [k \in 1..n |-> q[k].reserved]
    OBVIOUS
  <1>4. \A k \in 1..n : f[k] = p[k].reserved /\ g[k] = q[k].reserved
    BY <1>3
  <1>5. \A k \in 1..n : f[k] \in Nat /\ g[k] \in Nat /\ (k # m => g[k] = f[k])
    BY <1>1, <1>2, <1>4
  <1>6. SumOver(g, 1..n) = SumOver(f, 1..n) - f[m] + g[m]
    <2>1. PICK I : I = 1..n
      OBVIOUS
    <2>2. m \in I /\ IsFiniteSet(I)
      BY <1>1, <2>1
    <2>3. \A k \in I : f[k] \in Nat /\ g[k] \in Nat
      BY <1>5, <2>1
    <2>4. \A k \in I : k # m => g[k] = f[k]
      BY <1>5, <2>1
    <2>5. SumOver(g, I) = SumOver(f, I) - f[m] + g[m]
      <3>1. ASSUME NEW x \in I, \A k \in I : f[k] \in Nat /\ g[k] \in Nat, \A k \in I : k # x => g[k] = f[k]
            PROVE  SumOver(g, I) = SumOver(f, I) - f[x] + g[x]
        <4>1. IsFiniteSet(I)
          BY <2>2
        <4> QED BY <3>1, <4>1, SumChange
      <3> QED BY <2>2, <2>3, <2>4, <3>1
    <2> QED BY <2>1, <2>5
  <1>7. SumReserved(p) = SumOver(f, 1..n) /\ SumReserved(q) = SumOver(g, 1..n)
    BY <1>1, <1>4, ReservedIs
  <1> QED BY <1>1, <1>4, <1>6, <1>7

\* A response that joins adds what it reserves.
LEMMA ReservedAppend ==
  ASSUME NEW p \in Seq(Response), NEW r \in Response
  PROVE  SumReserved(Append(p, r)) = SumReserved(p) + r.reserved
  <1>0. PICK q \in Seq(Response) : q = Append(p, r) /\ Len(q) = Len(p) + 1 /\ (\A k \in 1..Len(p) : q[k] = p[k]) /\ q[Len(p) + 1] = r
    BY AppendProperties
  <1>1. PICK n \in Nat : n = Len(p) /\ IsFiniteSet(1..n) /\ \A k \in 1..n : p[k].reserved \in Nat
    BY Responses
  <1>2. PICK g : g = [k \in 1..(n + 1) |-> q[k].reserved]
    OBVIOUS
  <1>3. \A k \in 1..(n + 1) : g[k] = q[k].reserved
    BY <1>2
  <1>4. r.reserved \in Nat
    BY DEF Response
  <1>5. n + 1 \in Nat /\ n + 1 = Len(q) /\ n + 1 \in 1..(n + 1) /\ n + 1 \notin 1..n /\ 1..(n + 1) = (1..n) \cup {n + 1}
    BY <1>0, <1>1
  <1>6. g[n + 1] = r.reserved /\ g[n + 1] \in Nat /\ \A k \in 1..n : g[k] = p[k].reserved /\ g[k] \in Nat
    BY <1>0, <1>1, <1>3, <1>4, <1>5
  <1>7. SumOver(g, 1..(n + 1)) = SumOver(g, 1..n) + g[n + 1]
    <2>1. PICK I, m : I = 1..n /\ m = n + 1
      OBVIOUS
    <2>2. m \notin I /\ IsFiniteSet(I) /\ (\A k \in I : g[k] \in Nat) /\ g[m] \in Nat
      BY <1>1, <1>5, <1>6, <2>1
    <2>3. SumOver(g, I \cup {m}) = SumOver(g, I) + g[m]
      BY <2>2, SumAdd
    <2> QED BY <1>5, <2>1, <2>3
  <1>8. SumReserved(q) = SumOver(g, 1..(n + 1))
    BY <1>3, <1>5, ReservedIs
  <1>9. SumReserved(p) = SumOver(g, 1..n)
    BY <1>1, <1>6, ReservedIs
  <1> QED BY <1>0, <1>6, <1>7, <1>8, <1>9

\* The first response that goes takes what it reserved.
LEMMA ReservedTail ==
  ASSUME NEW p \in Seq(Response), p # <<>>
  PROVE  SumReserved(Tail(p)) = SumReserved(p) - Head(p).reserved
  <1>0. PICK n \in Nat : n + 1 = Len(p)
    <2>1. Len(p) \in Nat \ {0}
      BY EmptySeq
    <2>2. Len(p) - 1 \in Nat /\ (Len(p) - 1) + 1 = Len(p)
      BY <2>1
    <2> QED BY <2>2
  <1>1. PICK q \in Seq(Response) : q = Tail(p) /\ Len(q) = n /\ (\A k \in 1..n : q[k] = p[k + 1])
    <2>1. Tail(p) \in Seq(Response) /\ Len(Tail(p)) = Len(p) - 1 /\ \A k \in 1..Len(Tail(p)) : Tail(p)[k] = p[k + 1]
      BY HeadTailProperties
    <2>2. PICK q : q = Tail(p)
      OBVIOUS
    <2>3. q \in Seq(Response) /\ Len(q) = Len(p) - 1 /\ \A k \in 1..Len(q) : q[k] = p[k + 1]
      BY <2>1, <2>2
    <2>4. Len(q) = n
      BY <1>0, <2>3
    <2> QED BY <2>2, <2>3, <2>4
  <1>2. PICK r : r = Head(p) /\ r = p[1]
    OBVIOUS
  <1>3. \A k \in 1..(n + 1) : p[k].reserved \in Nat
    BY <1>0, Responses
  <1>4. PICK f, g : f = [k \in 1..(n + 1) |-> p[k].reserved] /\ g = [k \in 1..n |-> q[k].reserved]
    OBVIOUS
  <1>5. (\A k \in 1..(n + 1) : f[k] = p[k].reserved /\ f[k] \in Nat) /\ \A k \in 1..n : g[k] = q[k].reserved
    BY <1>3, <1>4
  <1>6. 1 \in 1..(n + 1) /\ 1 \notin 2..(n + 1) /\ 1..(n + 1) = (2..(n + 1)) \cup {1} /\ (\A k \in 1..n : k + 1 \in 1..(n + 1) /\ k + 1 \in 2..(n + 1))
    OBVIOUS
  <1>7. IsFiniteSet(1..n) /\ IsFiniteSet(2..(n + 1))
    <2>1. n \in Int /\ n + 1 \in Int /\ 1 \in Int /\ 2 \in Int
      OBVIOUS
    <2> QED BY <2>1, FS_Interval
  <1>8. \A k \in 2..(n + 1) : f[k] \in Nat
    BY <1>5, <1>6
  <1>9. SumOver(f, 1..(n + 1)) = SumOver(f, 2..(n + 1)) + f[1]
    <2>1. PICK I : I = 2..(n + 1)
      OBVIOUS
    <2>2. 1 \notin I /\ IsFiniteSet(I) /\ (\A k \in I : f[k] \in Nat) /\ f[1] \in Nat
      BY <1>5, <1>6, <1>7, <1>8, <2>1
    <2>3. SumOver(f, I \cup {1}) = SumOver(f, I) + f[1]
      BY <2>2, SumAdd
    <2> QED BY <1>6, <2>1, <2>3
  <1>10. \A k \in 1..n : g[k] \in Nat /\ f[k + 1] = g[k]
    BY <1>1, <1>5, <1>6
  <1>11. SumOver(f, 2..(n + 1)) = SumOver(g, 1..n)
    <2>1. PICK b : b = [k \in 1..n |-> k + 1]
      OBVIOUS
    <2>2. b \in Bijection(1..n, 2..(n + 1))
      <3>1. b \in [1..n -> 2..(n + 1)] /\ \A i, j \in 1..n : b[i] = b[j] => i = j
        BY <2>1
      <3>2. \A t \in 2..(n + 1) : \E s \in 1..n : b[s] = t
        <4> TAKE t \in 2..(n + 1)
        <4>1. t - 1 \in 1..n /\ b[t - 1] = t
          BY <2>1
        <4> QED BY <4>1
      <3>3. PICK I, J : I = 1..n /\ J = 2..(n + 1)
        OBVIOUS
      <3>4. b \in Injection(I, J) /\ b \in Surjection(I, J)
        BY <3>1, <3>2, <3>3 DEF Injection, Surjection, IsInjective
      <3> QED BY <3>3, <3>4 DEF Bijection
    <2>3. \A k \in 1..n : g[k] \in Nat /\ f[b[k]] = g[k]
      BY <1>10, <2>1
    <2> QED BY <1>7, <2>2, <2>3, SumRename
  <1>12. SumOver(g, 1..n) \in Nat
    BY <1>7, <1>10, SumNat
  <1>13. SumReserved(p) = SumOver(f, 1..(n + 1)) /\ SumReserved(q) = SumOver(g, 1..n)
    <2>1. PICK m \in Nat : m = n + 1
      OBVIOUS
    <2>2. SumReserved(p) = SumOver(f, 1..m)
      BY <1>0, <1>5, <2>1, ReservedIs
    <2>3. SumReserved(q) = SumOver(g, 1..n)
      BY <1>1, <1>5, ReservedIs
    <2> QED BY <2>1, <2>2, <2>3
  <1>14. f[1] = r.reserved /\ f[1] \in Nat
    BY <1>2, <1>5, <1>6
  <1> QED BY <1>1, <1>2, <1>9, <1>11, <1>12, <1>13, <1>14

-----------------------------------------------------------------------------
(* A connection whose accounts are exact, and steps that lose nothing *)

Sound(cn) == cn \in ConnRecord /\ Accounts(cn)

\* The ids a response is pending for.
Asks(cn) == {cn.pending[k].sub : k \in 1..Len(cn.pending)}

\* What is open after a step was open before with the same filter and queue, and one that is promised a complete history was
\* promised it before, and still has what it had.
Preserves(cn, d) ==
    /\ Asks(d) \subseteq Asks(cn)
    /\ \A s \in OpenSubs(d) :
         /\ d.subs[s] = cn.subs[s] /\ d.live = cn.live
         /\ d.full[s] => cn.full[s] /\ \A i : Holds(cn, s, i) => Holds(d, s, i)

\* Two steps that lose nothing lose nothing.
LEMMA KeepsTwice ==
  ASSUME NEW x, NEW y, NEW z, Preserves(x, y), Preserves(y, z)
  PROVE  Preserves(x, z)
  BY DEF Preserves, OpenSubs

\* No step loses nothing.
LEMMA KeepsSelf == \A x : Preserves(x, x)
  BY DEF Preserves

\* The fields that neither the accounts nor the contents depend on.
Aside == {"ctlOver", "liveOver", "authed", "auths", "cache", "reqAuth", "inc", "gen"}

\* The accounts stand when the subscriptions do and the reservation follows the responses.
LEMMA SoundAside ==
  ASSUME NEW cn, Sound(cn), NEW d, But(cn, d, Aside \cup {"out", "pending", "reserved", "full"}), d.reserved = SumReserved(d.pending)
  PROVE  Sound(d) /\ OpenSubs(d) = OpenSubs(cn) /\ d.subs = cn.subs /\ d.live = cn.live
  <1>1. /\ d \in ConnRecord /\ d.subs = cn.subs /\ d.subBytes = cn.subBytes /\ d.held = cn.held /\ d.index = cn.index
        /\ d.live = cn.live
    BY DEF But, ConnFields, Aside
  <1>2. OpenSubs(d) = OpenSubs(cn) /\ RegisteredComponents(d) = RegisteredComponents(cn)
    BY <1>1 DEF OpenSubs, RegisteredComponents
  <1>3. \A s \in SubIds : SubBytes(d, s) = SubBytes(cn, s)
    BY <1>1, <1>2 DEF SubBytes
  <1>4. [s \in SubIds |-> SubBytes(d, s)] = [s \in SubIds |-> SubBytes(cn, s)]
    BY <1>3
  <1> QED BY <1>1, <1>2, <1>4 DEF Sound, Accounts

\* So does everything that is promised, when the contents do.
LEMMA KeepsAside ==
  ASSUME NEW cn, Sound(cn), NEW d, But(cn, d, Aside \cup {"out", "pending", "reserved", "full"}), d.reserved = SumReserved(d.pending),
         Asks(d) \subseteq Asks(cn), \A s \in OpenSubs(cn) : d.full[s] => cn.full[s] /\ \A i : Holds(cn, s, i) => Holds(d, s, i)
  PROVE  Sound(d) /\ Preserves(cn, d) /\ OpenSubs(d) = OpenSubs(cn) /\ d.subs = cn.subs /\ d.live = cn.live
  BY SoundAside DEF Preserves

\* Only fields aside.
LEMMA OnlyAside ==
  ASSUME NEW cn, Sound(cn), NEW d, But(cn, d, Aside)
  PROVE  Sound(d) /\ Preserves(cn, d) /\ OpenSubs(d) = OpenSubs(cn) /\ d.subs = cn.subs /\ d.live = cn.live
  <1>1. d.pending = cn.pending /\ d.out = cn.out /\ d.reserved = cn.reserved /\ d.full = cn.full
    BY DEF But, Aside, ConnFields
  <1>2. d.reserved = SumReserved(d.pending)
    BY <1>1 DEF Sound, Accounts
  <1>3. But(cn, d, Aside \cup {"out", "pending", "reserved", "full"})
    BY DEF But
  <1>4. Asks(d) = Asks(cn) /\ \A s, i : Holds(cn, s, i) => Holds(d, s, i)
    BY <1>1 DEF Holds, Asks
  <1> QED BY <1>1, <1>2, <1>3, <1>4, KeepsAside

\* A queue that grows has what it had, and the frame.
LEMMA QueuedMore ==
  ASSUME NEW o \in Seq(Frame), NEW f \in Frame, NEW s, NEW i
  PROVE  /\ Append(o, f) \in Seq(Frame)
         /\ Queued(o, s, i) => Queued(Append(o, f), s, i)
         /\ f.t = "EVENT" /\ f.sub = s /\ f.ev = i => Queued(Append(o, f), s, i)
  <1>1. PICK q \in Seq(Frame) : q = Append(o, f) /\ Len(q) = Len(o) + 1 /\ (\A k \in 1..Len(o) : q[k] = o[k]) /\ q[Len(o) + 1] = f
    BY AppendProperties
  <1>2. Len(o) \in Nat /\ DOMAIN o = 1..Len(o) /\ DOMAIN q = 1..(Len(o) + 1)
    BY <1>1, LenProperties
  <1>3. (\A k \in DOMAIN o : k \in DOMAIN q /\ q[k] = o[k]) /\ Len(o) + 1 \in DOMAIN q
    BY <1>1, <1>2
  <1>4. Queued(o, s, i) => Queued(q, s, i)
    BY <1>3 DEF Queued
  <1>5. f.t = "EVENT" /\ f.sub = s /\ f.ev = i => Queued(q, s, i)
    BY <1>1, <1>3 DEF Queued
  <1> QED BY <1>1, <1>4, <1>5

\* Frames are left out of the queue for ids only, and responses too.
LEMMA QueuedLess ==
  ASSUME NEW o \in Seq(Frame), NEW ids
  PROVE  /\ WithoutSubs(o, ids) \in Seq(Frame)
         /\ \A s, i : s \notin ids /\ Queued(o, s, i) => Queued(WithoutSubs(o, ids), s, i)
  <1>1. PICK w : w = WithoutSubs(o, ids)
    OBVIOUS
  <1>2. w \in Seq({x \in Frame : x.sub \notin ids}) /\ \A k \in 1..Len(o) : o[k].sub \notin ids => \E j \in 1..Len(w) : w[j] = o[k]
    BY <1>1, LeftOver DEF LeftOf
  <1>3. w \in Seq(Frame)
    BY <1>2, SeqMonotonic
  <1>4. DOMAIN o = 1..Len(o) /\ DOMAIN w = 1..Len(w)
    BY <1>3, LenProperties
  <1>5. \A s, i : s \notin ids /\ Queued(o, s, i) => Queued(w, s, i)
    BY <1>2, <1>4 DEF Queued
  <1> QED BY <1>1, <1>3, <1>5

\* The same of the responses.
LEMMA RespondingLess ==
  ASSUME NEW p \in Seq(Response), NEW ids
  PROVE  /\ WithoutSubs(p, ids) \in Seq(Response)
         /\ \A k \in 1..Len(WithoutSubs(p, ids)) : /\ WithoutSubs(p, ids)[k].sub \notin ids
                                                   /\ \E j \in 1..Len(p) : WithoutSubs(p, ids)[k] = p[j]
         /\ \A s, i : s \notin ids /\ Responding(p, s, i) => Responding(WithoutSubs(p, ids), s, i)
  <1>1. PICK w : w = WithoutSubs(p, ids)
    OBVIOUS
  <1>7. PICK P : P = {y \in Response : \E j \in 1..Len(p) : y = p[j]} /\ p \in Seq(P)
    <2>1. PICK P : P = {y \in Response : \E j \in 1..Len(p) : y = p[j]}
      OBVIOUS
    <2>2. Len(p) \in Nat /\ p \in [1..Len(p) -> P]
      BY <2>1, LenProperties, ElementOfSeq
    <2>3. p \in Seq(P)
      BY <2>2
    <2> QED BY <2>1, <2>3
  <1>0. PICK R : R = {x \in P : x.sub \notin ids}
    OBVIOUS
  <1>2. w \in Seq(R) /\ \A k \in 1..Len(p) : p[k].sub \notin ids => \E j \in 1..Len(w) : w[j] = p[k]
    <2>1. p \in Seq(P)
      BY <1>7
    <2>2. /\ WithoutSubs(p, ids) \in Seq(LeftOf(P, ids))
          /\ \A k \in 1..Len(p) : p[k].sub \notin ids => \E j \in 1..Len(WithoutSubs(p, ids)) : WithoutSubs(p, ids)[j] = p[k]
      BY <2>1, LeftOver
    <2>3. R = LeftOf(P, ids)
      BY <1>0 DEF LeftOf
    <2> QED BY <1>1, <2>2, <2>3
  <1>3. w \in Seq(Response) /\ \A k \in 1..Len(w) : w[k] \in R
    <2>1. R \subseteq Response
      BY <1>0, <1>7
    <2> QED BY <1>2, <2>1, SeqMonotonic, ElementOfSeq
  <1>4. DOMAIN p = 1..Len(p) /\ DOMAIN w = 1..Len(w)
    BY <1>3, LenProperties
  <1>5. \A s, i : s \notin ids /\ Responding(p, s, i) => Responding(w, s, i)
    <2> SUFFICES ASSUME NEW s, NEW i, s \notin ids, Responding(p, s, i) PROVE Responding(w, s, i)
      OBVIOUS
    <2>1. PICK k \in DOMAIN p : /\ p[k].sub = s
                                /\ (\E j \in DOMAIN p[k].evs : p[k].evs[j] = i) \/ (\E j \in DOMAIN p[k].live : p[k].live[j] = i)
      BY DEF Responding
    <2>2. PICK r : r = p[k]
      OBVIOUS
    <2>3. PICK j \in DOMAIN w : w[j] = r
      BY <1>2, <1>4, <2>1, <2>2
    <2>4. r.sub = s /\ ((\E n \in DOMAIN r.evs : r.evs[n] = i) \/ (\E n \in DOMAIN r.live : r.live[n] = i))
      BY <2>1, <2>2
    <2> QED BY <2>3, <2>4 DEF Responding
  <1>6. \A k \in 1..Len(w) : w[k].sub \notin ids /\ \E j \in 1..Len(p) : w[k] = p[j]
    BY <1>0, <1>3, <1>7
  <1> QED BY <1>1, <1>3, <1>5, <1>6

-----------------------------------------------------------------------------
(* The operators on a connection keep its accounts and lose nothing *)

\* The frames that are made are frames.
LEMMA Frames ==
  ASSUME NEW cn \in ConnRecord, NEW s \in SubIds
  PROVE  /\ \A i \in EventIds, b \in BOOLEAN : EventFrame(cn, s, b, i) \in Frame /\ EventFrame(cn, s, b, i).t = "EVENT"
                                               /\ EventFrame(cn, s, b, i).sub = s /\ EventFrame(cn, s, b, i).ev = i
         /\ \A t \in {"EOSE", "CLOSED"} : Control(cn, t, s) \in Frame
         /\ \A t \in {"AUTH", "COUNT", "OK"} : Plain(t) \in Frame
  <1>1. cn.inc[s] \in Nat
    BY DEF ConnRecord
  <1>2. EventIds \subseteq Nat
    BY SessionConstants
  <1> QED BY <1>1, <1>2 DEF EventFrame, Control, Plain, Frame

\* The queue grows, or only fields aside change.
LEMMA LongerOut ==
  ASSUME NEW cn, Sound(cn), NEW f \in Frame
  PROVE  LET d == [cn EXCEPT !.out = Append(@, f)]
         IN  /\ Sound(d) /\ Preserves(cn, d) /\ But(cn, d, {"out"})
             /\ \A s, i : Holds(cn, s, i) => Holds(d, s, i)
             /\ \A s, i : f.t = "EVENT" /\ f.sub = s /\ f.ev = i => Holds(d, s, i)
  <1>1. cn \in ConnRecord /\ cn.out \in Seq(Frame)
    BY DEF Sound, ConnRecord
  <1>2. PICK o : o = Append(cn.out, f)
    OBVIOUS
  <1>3. o \in Seq(Frame) /\ \A s, i : /\ Queued(cn.out, s, i) => Queued(o, s, i)
                                      /\ f.t = "EVENT" /\ f.sub = s /\ f.ev = i => Queued(o, s, i)
    BY <1>1, <1>2, QueuedMore
  <1>4. PICK d : d = [cn EXCEPT !.out = o]
    OBVIOUS
  <1>5. But(cn, d, {"out"}) /\ d.out = o
    BY <1>1, <1>3, <1>4, SetOut
  <1>6. d.pending = cn.pending /\ d.reserved = cn.reserved /\ d.full = cn.full
    BY <1>5 DEF But, ConnFields
  <1>7. \A s, i : /\ Holds(cn, s, i) => Holds(d, s, i)
                  /\ f.t = "EVENT" /\ f.sub = s /\ f.ev = i => Holds(d, s, i)
    BY <1>3, <1>5, <1>6 DEF Holds
  <1>8. But(cn, d, Aside \cup {"out", "pending", "reserved", "full"})
    BY <1>5 DEF But
  <1>9. d.reserved = SumReserved(d.pending) /\ Asks(d) = Asks(cn)
    BY <1>6 DEF Sound, Accounts, Asks
  <1>10. Sound(d) /\ Preserves(cn, d)
    BY <1>6, <1>7, <1>8, <1>9, KeepsAside
  <1> QED BY <1>2, <1>4, <1>5, <1>7, <1>10

\* queue_control_text: a frame more, or the connection is marked.
LEMMA SendControlKeeps ==
  ASSUME NEW cn, Sound(cn), NEW f \in Frame
  PROVE  LET d == SendControl(cn, f)
         IN  Sound(d) /\ Preserves(cn, d) /\ But(cn, d, {"out", "ctlOver"}) /\ \A s, i : Holds(cn, s, i) => Holds(d, s, i)
  <1>1. PICK d : d = SendControl(cn, f)
    OBVIOUS
  <1>2. CASE Len(cn.out) >= 2 * OutLimit
    <2>1. d = [cn EXCEPT !.ctlOver = TRUE]
      BY <1>1, <1>2 DEF SendControl
    <2>2. But(cn, d, {"ctlOver"})
      BY <2>1 DEF But, ConnRecord, ConnFields, Sound
    <2>3. But(cn, d, Aside)
      BY <2>2 DEF But, Aside
    <2>4. Sound(d) /\ Preserves(cn, d)
      BY <2>3, OnlyAside
    <2>5. d.out = cn.out /\ d.pending = cn.pending
      BY <2>2 DEF But, ConnFields
    <2> QED BY <1>1, <2>2, <2>4, <2>5 DEF But, Holds
  <1>3. CASE ~(Len(cn.out) >= 2 * OutLimit)
    <2>1. d = [cn EXCEPT !.out = Append(@, f)]
      BY <1>1, <1>3 DEF SendControl
    <2>2. Sound(d) /\ Preserves(cn, d) /\ But(cn, d, {"out"}) /\ \A s, i : Holds(cn, s, i) => Holds(d, s, i)
      BY <2>1, LongerOut
    <2> QED BY <1>1, <2>2 DEF But
  <1> QED BY <1>2, <1>3

\* A CLOSED is one of them.
LEMMA SendClosedKeeps ==
  ASSUME NEW cn, Sound(cn), NEW s \in SubIds
  PROVE  LET d == SendClosed(cn, s)
         IN  Sound(d) /\ Preserves(cn, d) /\ But(cn, d, {"out", "ctlOver"}) /\ \A x, i : Holds(cn, x, i) => Holds(d, x, i)
  <1>1. PICK f \in Frame : f = Control(cn, "CLOSED", s)
    BY Frames DEF Sound
  <1>2. SendClosed(cn, s) = SendControl(cn, f)
    BY <1>1 DEF SendClosed
  <1> QED BY <1>2, SendControlKeeps

\* The frames of an id that is not open may go.
LEMMA PurgeKeeps ==
  ASSUME NEW cn, Sound(cn), NEW s
  PROVE  LET d == Purge(cn, s)
         IN  /\ Sound(d) /\ But(cn, d, {"out"}) /\ (s \notin OpenSubs(cn) => Preserves(cn, d))
             /\ \A x, i : x # s /\ Holds(cn, x, i) => Holds(d, x, i)
  <1>1. cn \in ConnRecord /\ cn.out \in Seq(Frame)
    BY DEF Sound, ConnRecord
  <1>2. PICK o : o = WithoutSubs(cn.out, {s})
    OBVIOUS
  <1>3. o \in Seq(Frame) /\ \A x, i : x # s /\ Queued(cn.out, x, i) => Queued(o, x, i)
    BY <1>1, <1>2, QueuedLess
  <1>4. PICK d : d = [cn EXCEPT !.out = o]
    OBVIOUS
  <1>5. But(cn, d, {"out"}) /\ d.out = o
    BY <1>1, <1>3, <1>4, SetOut
  <1>6. d.pending = cn.pending /\ d.reserved = cn.reserved /\ d.full = cn.full
    BY <1>5 DEF But, ConnFields
  <1>7. \A x, i : x # s /\ Holds(cn, x, i) => Holds(d, x, i)
    BY <1>3, <1>5, <1>6 DEF Holds
  <1>8. But(cn, d, Aside \cup {"out", "pending", "reserved", "full"})
    BY <1>5 DEF But
  <1>9. d.reserved = SumReserved(d.pending) /\ Asks(d) = Asks(cn)
    BY <1>6 DEF Sound, Accounts, Asks
  <1>10. Sound(d)
    BY <1>8, <1>9, SoundAside
  <1>11. s \notin OpenSubs(cn) => Preserves(cn, d)
    <2> HAVE s \notin OpenSubs(cn)
    <2>1. \A x \in OpenSubs(cn) : d.full[x] => cn.full[x] /\ \A i : Holds(cn, x, i) => Holds(d, x, i)
      BY <1>6, <1>7
    <2> QED BY <2>1, <1>8, <1>9, KeepsAside
  <1> QED BY <1>2, <1>4, <1>5, <1>7, <1>10, <1>11 DEF Purge

\* The responses of ids go, and what they reserved.
LEMMA DropPendingKeeps ==
  ASSUME NEW cn, Sound(cn), NEW ids
  PROVE  LET d == DropPending(cn, ids)
         IN  /\ Sound(d) /\ But(cn, d, {"pending", "reserved"})
             /\ Asks(d) \subseteq Asks(cn) \ ids
             /\ \A x, i : x \notin ids /\ Holds(cn, x, i) => Holds(d, x, i)
  <1>1. cn \in ConnRecord /\ cn.pending \in Seq(Response) /\ cn.reserved \in Int /\ cn.reserved = SumReserved(cn.pending)
    BY DEF Sound, Accounts, ConnRecord
  <1>2. PICK p : p = WithoutSubs(cn.pending, ids)
    OBVIOUS
  <1>3. /\ p \in Seq(Response) /\ (\A k \in 1..Len(p) : p[k].sub \notin ids /\ \E j \in 1..Len(cn.pending) : p[k] = cn.pending[j])
        /\ \A x, i : x \notin ids /\ Responding(cn.pending, x, i) => Responding(p, x, i)
    BY <1>1, <1>2, RespondingLess
  <1>4. SumReserved(p) \in Nat /\ SumReserved(cn.pending) \in Nat
    BY <1>1, <1>3, ReservedNat
  <1>5. PICK r : r \in Int /\ r = cn.reserved - (SumReserved(cn.pending) - SumReserved(p)) /\ r = SumReserved(p)
    BY <1>1, <1>4
  <1>6. PICK d : d = [cn EXCEPT !.pending = p, !.reserved = r]
    OBVIOUS
  <1>7. But(cn, d, {"pending", "reserved"}) /\ d.pending = p /\ d.reserved = r
    <2>1. cn \in ConnRecord /\ p \in Seq(Response) /\ r \in Int
      BY <1>1, <1>3, <1>5
    <2> QED BY <2>1, <1>6 DEF But, ConnRecord, ConnFields
  <1>8. d.out = cn.out
    BY <1>7 DEF But, ConnFields
  <1>9. \A x, i : x \notin ids /\ Holds(cn, x, i) => Holds(d, x, i)
    BY <1>3, <1>7, <1>8 DEF Holds
  <1>10. But(cn, d, Aside \cup {"out", "pending", "reserved", "full"})
    BY <1>7 DEF But
  <1>11. Sound(d)
    BY <1>5, <1>7, <1>10, SoundAside
  <1>12. DropPending(cn, ids) = d
    BY <1>2, <1>5, <1>6 DEF DropPending
  <1>13. Asks(d) \subseteq Asks(cn) \ ids
    BY <1>3, <1>7 DEF Asks
  <1> QED BY <1>7, <1>9, <1>11, <1>12, <1>13

\* The sets a connection's accounts are made of.
LEMMA Opened ==
  ASSUME NEW cn, cn.subs \in [SubIds -> Filters \cup {NoSub}]
  PROVE  /\ OpenSubs(cn) \subseteq SubIds /\ IsFiniteSet(OpenSubs(cn)) /\ Cardinality(OpenSubs(cn)) \in Nat
         /\ \A s \in OpenSubs(cn) : cn.subs[s] \in Filters
         /\ \A s \in SubIds : SubBytes(cn, s) \in Nat
         /\ RegisteredComponents(cn) \subseteq Components
  <1>1. OpenSubs(cn) \subseteq SubIds /\ \A s \in OpenSubs(cn) : cn.subs[s] \in Filters
    BY DEF OpenSubs
  <1>2. IsFiniteSet(OpenSubs(cn)) /\ Cardinality(OpenSubs(cn)) \in Nat
    BY <1>1, SessionConstants, FS_Subset, FS_CardinalityType
  <1>3. \A f \in Filters : Cardinality(FilterComponents(f)) \in Nat
    BY SessionConstants, FS_CardinalityType
  <1>4. \A s \in SubIds : SubBytes(cn, s) \in Nat
    BY <1>1, <1>3 DEF SubBytes
  <1>5. RegisteredComponents(cn) \subseteq Components
    BY <1>1 DEF RegisteredComponents, Components
  <1> QED BY <1>1, <1>2, <1>4, <1>5

\* The slots and the filter bytes follow one subscription that changes.
LEMMA SubsChange ==
  ASSUME NEW cn, Sound(cn), NEW d, d \in ConnRecord, NEW s \in SubIds, NEW F \in Filters \cup {NoSub},
         d.subs = [cn.subs EXCEPT ![s] = F],
         d.held = cn.held - (IF s \in OpenSubs(cn) THEN 1 ELSE 0) + (IF F = NoSub THEN 0 ELSE 1),
         d.subBytes = cn.subBytes - SubBytes(cn, s) + (IF F = NoSub THEN 0 ELSE Cardinality(FilterComponents(F))),
         d.index = RegisteredComponents(d), (d.live = NoQueue) <=> (OpenSubs(d) = {}), d.reserved = SumReserved(d.pending)
  PROVE  Sound(d)
  <1>1. cn \in ConnRecord /\ cn.subs \in [SubIds -> Filters \cup {NoSub}] /\ d.subs \in [SubIds -> Filters \cup {NoSub}]
    BY DEF Sound, ConnRecord
  <1>2. /\ IsFiniteSet(OpenSubs(cn)) /\ Cardinality(OpenSubs(cn)) \in Nat /\ \A x \in SubIds : SubBytes(cn, x) \in Nat
        /\ IsFiniteSet(OpenSubs(d)) /\ Cardinality(OpenSubs(d)) \in Nat /\ \A x \in SubIds : SubBytes(d, x) \in Nat
    BY <1>1, Opened
  <1>3. d.subs[s] = F /\ \A x \in SubIds : x # s => d.subs[x] = cn.subs[x]
    BY <1>1
  <1>4. (s \in OpenSubs(d) <=> F # NoSub) /\ OpenSubs(d) \cup {s} = OpenSubs(cn) \cup {s}
    BY <1>3 DEF OpenSubs
  <1>5. d.held = Cardinality(OpenSubs(d))
    <2>0. cn.held = Cardinality(OpenSubs(cn))
      BY DEF Sound, Accounts
    <2>1. PICK A, B : A = OpenSubs(cn) /\ B = OpenSubs(d)
      OBVIOUS
    <2>2. PICK R : R = A \ {s} /\ R = B \ {s}
      BY <1>4, <2>1
    <2>3. IsFiniteSet(A) /\ IsFiniteSet(B)
      BY <1>2, <2>1
    <2>4. /\ Cardinality(R) = Cardinality(A) - (IF s \in A THEN 1 ELSE 0)
          /\ Cardinality(R) = Cardinality(B) - (IF s \in B THEN 1 ELSE 0)
      <3>1. Cardinality(A \ {s}) = IF s \in A THEN Cardinality(A) - 1 ELSE Cardinality(A)
        BY <2>3, FS_RemoveElement
      <3>2. Cardinality(B \ {s}) = IF s \in B THEN Cardinality(B) - 1 ELSE Cardinality(B)
        BY <2>3, FS_RemoveElement
      <3>3. Cardinality(A) \in Nat /\ Cardinality(B) \in Nat
        BY <2>3, FS_CardinalityType
      <3>4. Cardinality(R) = Cardinality(A \ {s}) /\ Cardinality(R) = Cardinality(B \ {s})
        BY <2>2
      <3>5. PICK a, b, r : a = Cardinality(A) /\ b = Cardinality(B) /\ r = Cardinality(R)
        OBVIOUS
      <3>6. a \in Nat /\ b \in Nat /\ (r = IF s \in A THEN a - 1 ELSE a) /\ (r = IF s \in B THEN b - 1 ELSE b)
        BY <3>1, <3>2, <3>3, <3>4, <3>5
      <3>7. r = a - (IF s \in A THEN 1 ELSE 0) /\ r = b - (IF s \in B THEN 1 ELSE 0)
        BY <3>6
      <3> QED BY <3>5, <3>7
    <2>5. (s \in A <=> s \in OpenSubs(cn)) /\ (s \in B <=> F # NoSub) /\ Cardinality(A) \in Nat /\ Cardinality(B) \in Nat
      BY <1>2, <1>4, <2>1
    <2> QED BY <2>0, <2>1, <2>4, <2>5
  <1>6. d.subBytes = SumOver([x \in SubIds |-> SubBytes(d, x)], SubIds)
    <2>1. PICK f, g : f = [x \in SubIds |-> SubBytes(cn, x)] /\ g = [x \in SubIds |-> SubBytes(d, x)]
      OBVIOUS
    <2>2. (\A x \in SubIds : f[x] \in Nat /\ g[x] \in Nat) /\ f[s] = SubBytes(cn, s)
      BY <1>2, <2>1
    <2>3. \A x \in SubIds : x # s => g[x] = f[x]
      <3> SUFFICES ASSUME NEW x \in SubIds, x # s PROVE SubBytes(d, x) = SubBytes(cn, x)
        BY <2>1
      <3> QED BY <1>3 DEF SubBytes, OpenSubs
    <2>4. g[s] = IF F = NoSub THEN 0 ELSE Cardinality(FilterComponents(F))
      <3>1. g[s] = SubBytes(d, s)
        BY <2>1
      <3> QED BY <1>3, <1>4, <3>1 DEF SubBytes
    <2>5. IsFiniteSet(SubIds)
      BY SessionConstants
    <2>6. SumOver(g, SubIds) = SumOver(f, SubIds) - f[s] + g[s]
      BY <2>2, <2>3, <2>5, SumChange
    <2>7. cn.subBytes = SumOver(f, SubIds)
      BY <2>1 DEF Sound, Accounts
    <2> QED BY <2>1, <2>2, <2>4, <2>6, <2>7
  <1> QED BY <1>5, <1>6 DEF Sound, Accounts

\* remove_req_subscription: the id is closed, its response dropped, all the others stand.
LEMMA RemoveKeeps ==
  ASSUME NEW cn, Sound(cn), NEW s \in SubIds
  PROVE  LET d == RemoveReqSubscription(cn, s)
         IN  /\ Sound(d) /\ Preserves(cn, d) /\ But(cn, d, {"pending", "reserved", "subs", "subBytes", "held", "index", "live"})
             /\ OpenSubs(d) = OpenSubs(cn) \ {s} /\ Asks(d) \subseteq Asks(cn) \ {s}
  <1>1. PICK p : p = DropPending(cn, {s})
    OBVIOUS
  <1>2. /\ Sound(p) /\ But(cn, p, {"pending", "reserved"}) /\ Asks(p) \subseteq Asks(cn) \ {s}
        /\ \A x, i : x # s /\ Holds(cn, x, i) => Holds(p, x, i)
    BY <1>1, DropPendingKeeps
  <1>3. /\ p.subs = cn.subs /\ p.subBytes = cn.subBytes /\ p.held = cn.held /\ p.live = cn.live /\ p.full = cn.full
        /\ p \in ConnRecord
    BY <1>2 DEF But, ConnFields
  <1>4. OpenSubs(p) = OpenSubs(cn)
    BY <1>3 DEF OpenSubs
  <1>5. CASE s \notin OpenSubs(cn)
    <2>1. RemoveReqSubscription(cn, s) = p
      BY <1>1, <1>5 DEF RemoveReqSubscription
    <2>2. Preserves(cn, p)
      BY <1>2, <1>3, <1>4, <1>5 DEF Preserves
    <2>3. But(cn, p, {"pending", "reserved", "subs", "subBytes", "held", "index", "live"})
      BY <1>2 DEF But
    <2> QED BY <1>2, <1>4, <1>5, <2>1, <2>2, <2>3
  <1>6. CASE s \in OpenSubs(cn)
    <2>1. PICK m : m = [p EXCEPT !.subBytes = @ - Cardinality(FilterComponents(cn.subs[s])), !.held = @ - 1, !.subs[s] = NoSub]
      OBVIOUS
    <2>2. PICK d : d = SyncIndex(m)
      OBVIOUS
    <2>3. RemoveReqSubscription(cn, s) = d
      BY <1>1, <1>6, <2>1, <2>2 DEF RemoveReqSubscription
    <2>4. cn.subs \in [SubIds -> Filters \cup {NoSub}] /\ cn.subs[s] \in Filters /\ SubBytes(cn, s) \in Nat
          /\ SubBytes(cn, s) = Cardinality(FilterComponents(cn.subs[s]))
      <3>1. cn.subs \in [SubIds -> Filters \cup {NoSub}]
        BY DEF Sound, ConnRecord
      <3> QED BY <1>6, <3>1, Opened DEF SubBytes
    <2>5. /\ m \in ConnRecord /\ m.subs = [cn.subs EXCEPT ![s] = NoSub] /\ m.held = cn.held - 1
          /\ m.subBytes = cn.subBytes - SubBytes(cn, s) /\ But(p, m, {"subs", "subBytes", "held"})
      <3>0. PICK T : T = Filters \cup {NoSub} /\ NoSub \in T /\ cn.subs \in [SubIds -> T]
        BY <2>4
      <3>1. PICK b, S : b = SubBytes(cn, s) /\ S = [cn.subs EXCEPT ![s] = NoSub] /\ b \in Int /\ S \in [SubIds -> T]
        <4>1. [cn.subs EXCEPT ![s] = NoSub] \in [SubIds -> T]
          BY <3>0
        <4>2. SubBytes(cn, s) \in Int
          BY <2>4
        <4> QED BY <4>1, <4>2
      <3>2. m = [p EXCEPT !.subBytes = @ - b, !.held = @ - 1, !.subs = S]
        BY <1>3, <2>1, <2>4, <3>1
      <3>3. p.subBytes \in Int /\ p.held \in Int
        BY <1>3 DEF ConnRecord
      <3>4. PICK u, h : u = p.subBytes - b /\ h = p.held - 1 /\ u \in Int /\ h \in Int
        BY <3>1, <3>3
      <3>5. m = [p EXCEPT !.subBytes = u, !.held = h, !.subs = S]
        BY <3>2, <3>4
      <3>6. S \in [SubIds -> Filters \cup {NoSub}]
        BY <3>0, <3>1
      <3>7. m.subs = S /\ m.held = h /\ m.subBytes = u /\ But(p, m, {"subs", "subBytes", "held"})
        BY <1>3, <3>4, <3>5, <3>6 DEF ConnRecord, But, ConnFields
      <3>8. m \in ConnRecord
        BY <3>7 DEF But
      <3> QED BY <1>3, <3>1, <3>4, <3>7, <3>8
    <2>6. RegisteredComponents(m) \subseteq Components
      BY <2>5, Opened DEF ConnRecord
    <2>7. d = [m EXCEPT !.index = RegisteredComponents(m), !.live = IF OpenSubs(m) = {} THEN NoQueue ELSE @]
      BY <2>2 DEF SyncIndex
    <2>8. But(m, d, {"index", "live"}) /\ d.index = RegisteredComponents(m) /\ d.live = IF OpenSubs(m) = {} THEN NoQueue ELSE m.live
      <3>1. PICK X, q : X = RegisteredComponents(m) /\ q = IF OpenSubs(m) = {} THEN NoQueue ELSE m.live
        OBVIOUS
      <3>2. d = [m EXCEPT !.index = X, !.live = q]
        BY <2>7, <3>1
      <3>3. q \in LiveQueue \cup {NoQueue} /\ X \in SUBSET Components
        BY <2>5, <2>6, <3>1 DEF ConnRecord
      <3> QED BY <2>5, <3>1, <3>2, <3>3 DEF But, ConnRecord, ConnFields
    <2>9. /\ d \in ConnRecord /\ d.subs = [cn.subs EXCEPT ![s] = NoSub] /\ d.held = cn.held - 1 /\ d.subBytes = cn.subBytes - SubBytes(cn, s)
          /\ m.live = cn.live /\ d.full = cn.full /\ d.out = p.out /\ d.pending = p.pending /\ d.reserved = p.reserved
      <3>1. d \in ConnRecord /\ d.subs = m.subs /\ d.held = m.held /\ d.subBytes = m.subBytes /\ d.full = m.full /\ d.out = m.out
            /\ d.pending = m.pending /\ d.reserved = m.reserved
        BY <2>8 DEF But, ConnFields
      <3>2. m.live = p.live /\ m.full = p.full /\ m.out = p.out /\ m.pending = p.pending /\ m.reserved = p.reserved
        BY <2>5 DEF But, ConnFields
      <3> QED BY <1>3, <2>5, <3>1, <3>2
    <2>10. OpenSubs(d) = OpenSubs(cn) \ {s} /\ OpenSubs(m) = OpenSubs(d) /\ d.index = RegisteredComponents(d)
      <3>1. OpenSubs(d) = OpenSubs(cn) \ {s} /\ OpenSubs(m) = OpenSubs(d)
        BY <2>4, <2>5, <2>9 DEF OpenSubs
      <3>2. RegisteredComponents(m) = RegisteredComponents(d)
        BY <2>5, <2>9, <3>1 DEF RegisteredComponents
      <3> QED BY <2>8, <3>1, <3>2
    <2>11. cn.live # NoQueue
      BY <1>6 DEF Sound, Accounts
    <2>12. Sound(d)
      <3>1. (d.live = NoQueue) <=> (OpenSubs(d) = {})
        BY <2>8, <2>9, <2>10, <2>11
      <3>2. d.reserved = SumReserved(d.pending)
        BY <1>2, <2>9 DEF Sound, Accounts
      <3>3. PICK F \in Filters \cup {NoSub} : F = NoSub
        OBVIOUS
      <3>4. cn.held \in Int /\ cn.subBytes \in Int
        BY DEF Sound, ConnRecord
      <3>5. d.held = cn.held - (IF s \in OpenSubs(cn) THEN 1 ELSE 0) + (IF F = NoSub THEN 0 ELSE 1)
        BY <1>6, <2>9, <3>3, <3>4
      <3>6. d.subBytes = cn.subBytes - SubBytes(cn, s) + (IF F = NoSub THEN 0 ELSE Cardinality(FilterComponents(F)))
        BY <2>4, <2>9, <3>3, <3>4
      <3>7. d.subs = [cn.subs EXCEPT ![s] = F]
        BY <2>9, <3>3
      <3> QED BY <2>9, <2>10, <3>1, <3>2, <3>5, <3>6, <3>7, SubsChange
    <2>15. Asks(d) \subseteq Asks(cn) \ {s}
      BY <1>2, <2>9 DEF Asks
    <2>13. Preserves(cn, d)
      <3> SUFFICES ASSUME NEW x \in OpenSubs(d)
                   PROVE  /\ d.subs[x] = cn.subs[x] /\ d.live = cn.live
                          /\ d.full[x] => cn.full[x] /\ \A i : Holds(cn, x, i) => Holds(d, x, i)
        BY <2>15 DEF Preserves
      <3>1. x # s /\ x \in SubIds /\ OpenSubs(m) # {}
        BY <2>10 DEF OpenSubs
      <3>2. \A i : Holds(cn, x, i) => Holds(d, x, i)
        BY <1>2, <2>9, <3>1 DEF Holds
      <3> QED BY <2>4, <2>8, <2>9, <3>1, <3>2
    <2>14. But(cn, d, {"pending", "reserved", "subs", "subBytes", "held", "index", "live"})
      BY <1>2, <2>5, <2>8 DEF But
    <2> QED BY <2>3, <2>10, <2>12, <2>13, <2>14, <2>15
  <1> QED BY <1>5, <1>6

OneToOne(f, S, T) == f \in [S -> T] /\ \A x, y \in S : f[x] = f[y] => x = y
MeetsAll(f, S, T) == \A t \in T : \E x \in S : f[x] = t

\* A one-to-one function between finite sets of one size meets every element.
LEMMA OneToOneOnto ==
  ASSUME NEW S, NEW T, IsFiniteSet(S), IsFiniteSet(T), Cardinality(S) = Cardinality(T), NEW f, OneToOne(f, S, T)
  PROVE  MeetsAll(f, S, T)
  <1>1. PICK R : R = {f[x] : x \in S}
    OBVIOUS
  <1>2. R \subseteq T /\ f \in [S -> R] /\ \A t \in R : \E x \in S : f[x] = t
    BY <1>1 DEF OneToOne
  <1>3. f \in Bijection(S, R)
    BY <1>2 DEF Bijection, Injection, Surjection, IsInjective, OneToOne
  <1>4. ExistsBijection(S, R)
    BY <1>3 DEF ExistsBijection
  <1>5. Cardinality(R) = Cardinality(T)
    BY <1>4, FS_Bijection
  <1>6. R = T
    BY <1>2, <1>5, FS_Subset
  <1> QED BY <1>2, <1>6 DEF MeetsAll

\* The ids of a finite set can be visited in some order, and every order meets each of them.
LEMMA OrdersMeetAll ==
  ASSUME NEW S, IsFiniteSet(S)
  PROVE  /\ Orders(S) # {} /\ Cardinality(S) \in Nat
         /\ \A q \in Orders(S) : q \in Seq(S) /\ Len(q) = Cardinality(S) /\ \A s \in S : \E k \in 1..Cardinality(S) : q[k] = s
  <1>1. PICK n \in Nat : n = Cardinality(S)
    BY FS_CardinalityType
  <1>2. PICK I : I = 1..n
    OBVIOUS
  <1>3. IsFiniteSet(I) /\ Cardinality(I) = n
    <2>1. 1 \in Int /\ n \in Int /\ n - 1 + 1 = n
      OBVIOUS
    <2>2. IsFiniteSet(1..n) /\ Cardinality(1..n) = IF 1 > n THEN 0 ELSE n - 1 + 1
      BY <2>1, FS_Interval
    <2> QED BY <1>2, <2>1, <2>2
  <1>4. PICK b : b \in Bijection(I, S)
    <2>1. ExistsBijection(I, S)
      BY <1>1, <1>3, FS_SameCardinalityBij
    <2> QED BY <2>1 DEF ExistsBijection
  <1>5. b \in Orders(S)
    <2>1. b \in [I -> S] /\ DOMAIN b = I /\ \A i, j \in I : b[i] = b[j] => i = j
      BY <1>4 DEF Bijection, Injection, IsInjective
    <2> QED BY <1>1, <1>2, <2>1 DEF Orders
  <1>6. ASSUME NEW q \in Orders(S)
        PROVE  q \in Seq(S) /\ Len(q) = n /\ \A s \in S : \E k \in I : q[k] = s
    <2>1. q \in [I -> S] /\ DOMAIN q = I /\ \A i, j \in I : q[i] = q[j] => i = j
      BY <1>1, <1>2, <1>6 DEF Orders
    <2>2. \A s \in S : \E k \in I : q[k] = s
      <3>1. Cardinality(I) = Cardinality(S)
        BY <1>1, <1>3
      <3>2. OneToOne(q, I, S)
        BY <2>1 DEF OneToOne
      <3>3. MeetsAll(q, I, S)
        BY <1>3, <3>1, <3>2, OneToOneOnto
      <3> QED BY <3>3 DEF MeetsAll
    <2>3. q \in [1..n -> S]
      BY <1>2, <2>1
    <2> QED BY <2>2, <2>3
  <1> QED BY <1>1, <1>2, <1>5, <1>6

\* reject_req: the id is closed and told so.
LEMMA RejectKeeps ==
  ASSUME NEW cn, Sound(cn), NEW s \in SubIds
  PROVE  Sound(Reject(cn, s)) /\ Preserves(cn, Reject(cn, s)) /\ OpenSubs(Reject(cn, s)) = OpenSubs(cn) \ {s}
  <1>1. PICK a : a = RemoveReqSubscription(cn, s)
    OBVIOUS
  <1>2. Sound(a) /\ Preserves(cn, a) /\ OpenSubs(a) = OpenSubs(cn) \ {s}
    BY <1>1, RemoveKeeps
  <1>3. PICK b : b = Purge(a, s)
    OBVIOUS
  <1>4. Sound(b) /\ Preserves(a, b) /\ But(a, b, {"out"})
    BY <1>2, <1>3, PurgeKeeps
  <1>5. PICK d : d = SendClosed(b, s)
    OBVIOUS
  <1>6. Sound(d) /\ Preserves(b, d) /\ But(b, d, {"out", "ctlOver"})
    BY <1>4, <1>5, SendClosedKeeps
  <1>7. d.subs = a.subs
    BY <1>4, <1>6 DEF But, ConnFields
  <1>8. OpenSubs(d) = OpenSubs(a)
    BY <1>7 DEF OpenSubs
  <1>9. Preserves(cn, d)
    BY <1>2, <1>4, <1>6, KeepsTwice
  <1> QED BY <1>1, <1>2, <1>3, <1>5, <1>6, <1>8, <1>9 DEF Reject

\* Every id of S is closed, the others stand.
LEMMA RejectAllKeeps ==
  ASSUME NEW cn, Sound(cn), NEW S, S \subseteq SubIds
  PROVE  Sound(RejectAll(cn, S)) /\ Preserves(cn, RejectAll(cn, S)) /\ OpenSubs(RejectAll(cn, S)) = OpenSubs(cn) \ S
  <1>0. IsFiniteSet(S)
    BY SessionConstants, FS_Subset
  <1>1. PICK n \in Nat : n = Cardinality(S)
    BY <1>0, OrdersMeetAll
  <1>2. PICK q : q = CHOOSE x \in Orders(S) : TRUE
    OBVIOUS
  <1>3. q \in Orders(S)
    BY <1>0, <1>2, OrdersMeetAll
  <1>4. (\A k \in 1..n : q[k] \in S /\ q[k] \in SubIds) /\ \A s \in S : \E k \in 1..n : q[k] = s
    <2>1. q \in Seq(S) /\ Len(q) = n /\ \A s \in S : \E k \in 1..n : q[k] = s
      BY <1>0, <1>1, <1>3, OrdersMeetAll
    <2> QED BY <2>1, ElementOfSeq
  <1>5. PICK D : D = {x \in ConnRecord : Sound(x) /\ Preserves(cn, x)}
    OBVIOUS
  <1>6. cn \in D
    BY <1>5, KeepsSelf DEF Sound
  <1> DEFINE G == [x \in D \X (1..n) |-> Reject(x[1], q[x[2]])]
             f == CHOOSE f : f = [k \in 0..n |-> IF k = 0 THEN cn ELSE Reject(f[k - 1], q[k])]
  <1>7. \A x \in D, k \in 1..n : Reject(x, q[k]) \in D /\ OpenSubs(Reject(x, q[k])) = OpenSubs(x) \ {q[k]}
    <2> SUFFICES ASSUME NEW x \in D, NEW k \in 1..n
                 PROVE  Reject(x, q[k]) \in D /\ OpenSubs(Reject(x, q[k])) = OpenSubs(x) \ {q[k]}
      OBVIOUS
    <2>1. PICK s : s = q[k] /\ s \in SubIds
      BY <1>4
    <2>2. Sound(x) /\ Preserves(cn, x)
      BY <1>5
    <2>3. PICK d : d = Reject(x, s)
      OBVIOUS
    <2>4. Sound(d) /\ Preserves(x, d) /\ OpenSubs(d) = OpenSubs(x) \ {s}
      BY <2>1, <2>2, <2>3, RejectKeeps
    <2>5. Preserves(cn, d)
      BY <2>2, <2>4, KeepsTwice
    <2>6. d \in D
      BY <1>5, <2>4, <2>5 DEF Sound
    <2> QED BY <2>1, <2>3, <2>4, <2>6
  <1>8. RejectAll(cn, S) = f[n]
    BY <1>1, <1>2 DEF RejectAll
  <1>9. PICK g : Walks(D, cn, G, n, g)
    <2>1. G \in [D \X (1..n) -> D]
      BY <1>7
    <2> HIDE DEF G
    <2> QED BY <1>6, <2>1, WalkExists
  <1>10. g = [k \in 0..n |-> IF k = 0 THEN cn ELSE Reject(g[k - 1], q[k])]
    <2>0. g \in [0..n -> D] /\ g[0] = cn /\ \A k \in 1..n : g[k] = G[<<g[k - 1], k>>]
      <3> HIDE DEF G
      <3> QED BY <1>9 DEF Walks
    <2>2. \A k \in 1..n : <<g[k - 1], k>> \in D \X (1..n)
      <3> TAKE k \in 1..n
      <3>1. k - 1 \in 0..n
        OBVIOUS
      <3> QED BY <2>0, <3>1
    <2>1. g \in [0..n -> D] /\ g[0] = cn /\ \A k \in 1..n : g[k] = Reject(g[k - 1], q[k])
      BY <2>0, <2>2
    <2> QED BY <2>1
  <1>11. f[0] = cn /\ \A k \in 1..n : f[k] = Reject(f[k - 1], q[k])
    <2>1. f = [k \in 0..n |-> IF k = 0 THEN cn ELSE Reject(f[k - 1], q[k])]
      BY <1>10
    <2> HIDE DEF f
    <2> QED BY <2>1
  <1> HIDE DEF f
  <1>12. PICK X : X = {x \in D \X (0..n) : OpenSubs(x[1]) = OpenSubs(cn) \ {q[k] : k \in 1..x[2]}}
    OBVIOUS
  <1> DEFINE h == [k \in 0..n |-> <<f[k], k>>]
  <1>13. h[0] \in X
    <2>1. h[0] = <<cn, 0>> /\ {q[k] : k \in 1..0} = {}
      BY <1>11
    <2> QED BY <1>6, <1>12, <2>1
  <1>14. \A k \in 1..n : h[k - 1] \in X => h[k] \in X
    <2> SUFFICES ASSUME NEW k \in 1..n, h[k - 1] \in X PROVE h[k] \in X
      OBVIOUS
    <2>0. k - 1 \in 0..n /\ k \in 0..n
      OBVIOUS
    <2>1. f[k - 1] \in D /\ OpenSubs(f[k - 1]) = OpenSubs(cn) \ {q[j] : j \in 1..(k - 1)}
      BY <2>0, <1>12
    <2>2. f[k] \in D /\ OpenSubs(f[k]) = OpenSubs(f[k - 1]) \ {q[k]}
      BY <2>1, <1>7, <1>11
    <2>3. {q[j] : j \in 1..k} = {q[j] : j \in 1..(k - 1)} \cup {q[k]}
      OBVIOUS
    <2>4. OpenSubs(f[k]) = OpenSubs(cn) \ {q[j] : j \in 1..k}
      BY <2>1, <2>2, <2>3
    <2> QED BY <2>0, <2>2, <2>4, <1>12
  <1>15. h[n] \in X
    <2>1. \A k \in 0..n : h[k] \in X
      <3> HIDE DEF h
      <3> QED BY <1>13, <1>14, WalkInduct
    <2> QED BY <2>1
  <1>16. f[n] \in D /\ OpenSubs(f[n]) = OpenSubs(cn) \ {q[j] : j \in 1..n}
    BY <1>12, <1>15
  <1>17. {q[j] : j \in 1..n} = S
    BY <1>4
  <1> QED BY <1>5, <1>8, <1>16, <1>17

-----------------------------------------------------------------------------
(* One response changes, or the first one ends *)

\* The response r has the event.
Has(r, j) == (\E n \in DOMAIN r.evs : r.evs[n] = j) \/ (\E n \in DOMAIN r.live : r.live[n] = j)

\* The queue of responses has an event that one of them has.
LEMMA RespondingHas ==
  ASSUME NEW p, NEW s, NEW i
  PROVE  Responding(p, s, i) <=> \E k \in DOMAIN p : p[k].sub = s /\ Has(p[k], i)
  BY DEF Responding, Has

\* One response is replaced by r of the same id.
LEMMA PendingPut ==
  ASSUME NEW cn, Sound(cn), NEW k \in 1..Len(cn.pending), NEW r \in Response, r.sub = cn.pending[k].sub,
         NEW d, But(cn, d, Aside \cup {"out", "pending", "reserved", "full"}), d.pending = [cn.pending EXCEPT ![k] = r],
         d.reserved = cn.reserved - cn.pending[k].reserved + r.reserved
  PROVE  /\ Sound(d) /\ Asks(d) = Asks(cn) /\ OpenSubs(d) = OpenSubs(cn) /\ d.subs = cn.subs /\ d.live = cn.live
         /\ \A x, j : Responding(cn.pending, x, j) => Responding(d.pending, x, j) \/ (x = r.sub /\ Has(cn.pending[k], j))
         /\ \A j : Has(r, j) => Responding(d.pending, r.sub, j)
  <1>1. PICK p : p = cn.pending
    OBVIOUS
  <1>2. PICK q : q = d.pending
    OBVIOUS
  <1>3. p \in Seq(Response) /\ q \in Seq(Response) /\ cn.reserved = SumReserved(p)
    BY <1>1, <1>2 DEF Sound, Accounts, But, ConnRecord
  <1>4. DOMAIN p = 1..Len(p) /\ q = [p EXCEPT ![k] = r] /\ k \in 1..Len(p) /\ DOMAIN q = 1..Len(q) /\ Len(p) \in Nat /\ Len(q) \in Nat
    BY <1>1, <1>2, <1>3, LenProperties
  <1>5. DOMAIN q = DOMAIN p /\ q[k] = r /\ \A j \in DOMAIN p : j # k => q[j] = p[j]
    BY <1>4
  <1>6. Len(q) = Len(p)
    BY <1>4, <1>5
  <1>7. SumReserved(q) = SumReserved(p) - p[k].reserved + q[k].reserved
    BY <1>3, <1>4, <1>5, <1>6, ReservedChange
  <1>8. d.reserved = SumReserved(q)
    BY <1>1, <1>3, <1>5, <1>7
  <1>9. Sound(d) /\ OpenSubs(d) = OpenSubs(cn) /\ d.subs = cn.subs /\ d.live = cn.live
    BY <1>2, <1>8, SoundAside
  <1>10. \A j \in 1..Len(p) : q[j].sub = p[j].sub
    BY <1>1, <1>4, <1>5
  <1>11. Asks(d) = Asks(cn)
    BY <1>1, <1>2, <1>6, <1>10 DEF Asks
  <1>12. \A x, j : Responding(p, x, j) => Responding(q, x, j) \/ (x = r.sub /\ Has(p[k], j))
    <2> SUFFICES ASSUME NEW x, NEW j, Responding(p, x, j) PROVE Responding(q, x, j) \/ (x = r.sub /\ Has(p[k], j))
      OBVIOUS
    <2>1. PICK m \in DOMAIN p : p[m].sub = x /\ Has(p[m], j)
      BY RespondingHas
    <2>2. CASE m = k
      BY <1>1, <2>1, <2>2
    <2>3. CASE m # k
      BY <1>5, <2>1, <2>3, RespondingHas
    <2> QED BY <2>2, <2>3
  <1>13. \A j : Has(r, j) => Responding(q, r.sub, j)
    BY <1>4, <1>5, RespondingHas
  <1> QED BY <1>1, <1>2, <1>9, <1>11, <1>12, <1>13

\* The first response goes.
LEMMA PendingTail ==
  ASSUME NEW cn, Sound(cn), cn.pending # <<>>,
         NEW d, But(cn, d, Aside \cup {"out", "pending", "reserved", "full"}), d.pending = Tail(cn.pending),
         d.reserved = cn.reserved - Head(cn.pending).reserved
  PROVE  /\ Sound(d) /\ Asks(d) \subseteq Asks(cn) /\ OpenSubs(d) = OpenSubs(cn) /\ d.subs = cn.subs /\ d.live = cn.live
         /\ \A x, j : Responding(cn.pending, x, j) =>
                         Responding(d.pending, x, j) \/ (x = Head(cn.pending).sub /\ Has(Head(cn.pending), j))
  <1>1. PICK p : p = cn.pending
    OBVIOUS
  <1>2. PICK q : q = d.pending
    OBVIOUS
  <1>3. p \in Seq(Response) /\ q \in Seq(Response) /\ cn.reserved = SumReserved(p) /\ p # <<>> /\ q = Tail(p)
    BY <1>1, <1>2 DEF Sound, Accounts, But, ConnRecord
  <1>4. DOMAIN p = 1..Len(p) /\ DOMAIN q = 1..Len(q) /\ Len(p) \in Nat /\ Len(q) \in Nat
    BY <1>3, LenProperties
  <1>5. Len(p) = Len(q) + 1 /\ Head(p) = p[1] /\ \A j \in 1..Len(q) : q[j] = p[j + 1]
    BY <1>3, HeadTailProperties
  <1>7. SumReserved(q) = SumReserved(p) - Head(p).reserved
    BY <1>3, ReservedTail
  <1>8. d.reserved = SumReserved(q)
    BY <1>1, <1>3, <1>7
  <1>9. Sound(d) /\ OpenSubs(d) = OpenSubs(cn) /\ d.subs = cn.subs /\ d.live = cn.live
    BY <1>2, <1>8, SoundAside
  <1>10. \A j \in 1..Len(q) : j + 1 \in 1..Len(p) /\ q[j] = p[j + 1]
    BY <1>4, <1>5
  <1>11. Asks(d) \subseteq Asks(cn)
    BY <1>1, <1>2, <1>10 DEF Asks
  <1>12. \A x, j : Responding(p, x, j) => Responding(q, x, j) \/ (x = Head(p).sub /\ Has(Head(p), j))
    <2> SUFFICES ASSUME NEW x, NEW j, Responding(p, x, j) PROVE Responding(q, x, j) \/ (x = Head(p).sub /\ Has(Head(p), j))
      OBVIOUS
    <2>1. PICK m \in DOMAIN p : p[m].sub = x /\ Has(p[m], j)
      BY RespondingHas
    <2>2. CASE m = 1
      BY <1>5, <2>1, <2>2
    <2>3. CASE m # 1
      <3>1. m - 1 \in 1..Len(q) /\ (m - 1) + 1 = m
        BY <1>4, <1>5, <2>3
      <3>2. PICK l : l = m - 1
        OBVIOUS
      <3>3. l \in DOMAIN q /\ q[l] = p[m]
        BY <1>4, <1>5, <3>1, <3>2
      <3> QED BY <2>1, <3>3, RespondingHas
    <2> QED BY <2>2, <2>3
  <1> QED BY <1>1, <1>2, <1>9, <1>11, <1>12

\* finish_pending_req adds to the queue only.
LEMMA FinishKeeps ==
  ASSUME NEW cn, Sound(cn), NEW p, p.sub \in SubIds
  PROVE  LET d == FinishPendingReq(cn, p)
         IN  Sound(d) /\ Preserves(cn, d) /\ But(cn, d, {"out", "ctlOver"}) /\ \A x, i : Holds(cn, x, i) => Holds(d, x, i)
  <1>1. PICK e \in Frame : e = Control(cn, "EOSE", p.sub)
    BY Frames DEF Sound
  <1>2. PICK a \in Frame : a = Plain("AUTH")
    BY Frames DEF Sound
  <1>3. PICK b : b = IF p.auth THEN SendControl(cn, a) ELSE cn
    OBVIOUS
  <1>4. Sound(b) /\ Preserves(cn, b) /\ But(cn, b, {"out", "ctlOver"}) /\ \A x, i : Holds(cn, x, i) => Holds(b, x, i)
    <2>1. CASE p.auth
      <3>1. b = SendControl(cn, a)
        BY <1>3, <2>1
      <3> QED BY <3>1, SendControlKeeps
    <2>2. CASE ~p.auth
      BY <1>3, <2>2, KeepsSelf DEF But, Sound
    <2> QED BY <2>1, <2>2
  <1>5. PICK d : d = SendControl(b, e)
    OBVIOUS
  <1>6. Sound(d) /\ Preserves(b, d) /\ But(b, d, {"out", "ctlOver"}) /\ \A x, i : Holds(b, x, i) => Holds(d, x, i)
    BY <1>4, <1>5, SendControlKeeps
  <1>7. But(cn, d, {"out", "ctlOver"})
    BY <1>4, <1>6 DEF But
  <1>8. Preserves(cn, d)
    BY <1>4, <1>6, KeepsTwice
  <1>9. FinishPendingReq(cn, p) = d
    BY <1>1, <1>2, <1>3, <1>5 DEF FinishPendingReq
  <1> QED BY <1>4, <1>6, <1>7, <1>8, <1>9

\* The cut-off ends the oldest response; whoever is told less than everything is not promised it any more.
LEMMA CutOffKeeps ==
  ASSUME NEW cn, Sound(cn)
  PROVE  /\ Sound(CutOff(cn)) /\ Preserves(cn, CutOff(cn))
         /\ \A s \in OpenSubs(cn) \ Asks(cn) : s \in OpenSubs(CutOff(cn))
  <1>1. CASE Len(cn.pending) < MaxPending
    BY <1>1, KeepsSelf DEF CutOff
  <1>2. CASE ~(Len(cn.pending) < MaxPending)
    <2>1. cn.pending \in Seq(Response) /\ cn.pending # <<>> /\ cn \in ConnRecord
      <3>1. cn.pending \in Seq(Response) /\ cn \in ConnRecord
        BY DEF Sound, ConnRecord
      <3>2. Len(cn.pending) \in Nat /\ MaxPending \in Nat /\ MaxPending # 0
        BY <3>1, LenProperties, SessionConstants
      <3>3. Len(cn.pending) # 0
        BY <1>2, <3>2
      <3> QED BY <3>1, <3>3, EmptySeq
    <2>2. PICK p \in Response : p = Head(cn.pending) /\ p = cn.pending[1]
      BY <2>1, HeadTailProperties
    <2>3. p.sub \in SubIds /\ p.reserved \in Nat /\ p.sub \in Asks(cn)
      <3>1. 1 \in 1..Len(cn.pending)
        BY <2>1, LenProperties, EmptySeq
      <3> QED BY <2>2, <3>1 DEF Response, Asks
    <2>4. PICK e : e = [cn EXCEPT !.pending = Tail(@), !.reserved = @ - p.reserved, !.full[p.sub] = FALSE]
      OBVIOUS
    <2>5. /\ But(cn, e, {"pending", "reserved", "full"}) /\ e.pending = Tail(cn.pending) /\ e.reserved = cn.reserved - p.reserved
          /\ \A s \in SubIds : e.full[s] => cn.full[s] /\ s # p.sub
      <3>1. PICK t, r, u : t = Tail(cn.pending) /\ r = cn.reserved - p.reserved /\ u = [cn.full EXCEPT ![p.sub] = FALSE]
        OBVIOUS
      <3>2. t \in Seq(Response)
        BY <2>1, <3>1, HeadTailProperties
      <3>3. cn.reserved \in Int /\ cn.full \in [SubIds -> BOOLEAN]
        BY <2>1 DEF ConnRecord
      <3>4. r \in Int
        BY <2>3, <3>1, <3>3
      <3>5. u \in [SubIds -> BOOLEAN] /\ \A s \in SubIds : u[s] => cn.full[s] /\ s # p.sub
        BY <2>3, <3>1, <3>3
      <3>6. e = [cn EXCEPT !.pending = t, !.reserved = r, !.full = u]
        BY <2>4, <3>1
      <3>7. But(cn, e, {"pending", "reserved", "full"}) /\ e.pending = t /\ e.reserved = r /\ e.full = u
        BY <2>1, <3>2, <3>4, <3>5, <3>6 DEF But, ConnRecord, ConnFields
      <3> QED BY <3>1, <3>5, <3>7
    <2>6. But(cn, e, Aside \cup {"out", "pending", "reserved", "full"}) /\ e.out = cn.out
      BY <2>5 DEF But, ConnFields
    <2>7. /\ Sound(e) /\ Asks(e) \subseteq Asks(cn) /\ OpenSubs(e) = OpenSubs(cn) /\ e.subs = cn.subs /\ e.live = cn.live
          /\ \A x, j : Responding(cn.pending, x, j) => Responding(e.pending, x, j) \/ (x = p.sub /\ Has(p, j))
      <3>1. e.pending = Tail(cn.pending) /\ e.reserved = cn.reserved - Head(cn.pending).reserved /\ cn.pending # <<>>
        BY <2>1, <2>2, <2>5
      <3>2. But(cn, e, Aside \cup {"out", "pending", "reserved", "full"})
        BY <2>6
      <3>3. /\ Sound(e) /\ Asks(e) \subseteq Asks(cn) /\ OpenSubs(e) = OpenSubs(cn) /\ e.subs = cn.subs /\ e.live = cn.live
            /\ \A x, j : Responding(cn.pending, x, j) =>
                            Responding(e.pending, x, j) \/ (x = Head(cn.pending).sub /\ Has(Head(cn.pending), j))
        BY <3>1, <3>2, PendingTail
      <3> QED BY <2>2, <3>3
    <2>8. Preserves(cn, e)
      <3> SUFFICES ASSUME NEW s \in OpenSubs(e), e.full[s] PROVE cn.full[s] /\ \A i : Holds(cn, s, i) => Holds(e, s, i)
        BY <2>7 DEF Preserves
      <3>1. cn.full[s] /\ s # p.sub
        BY <2>5 DEF OpenSubs
      <3> QED BY <2>6, <2>7, <3>1 DEF Holds
    <2>9. CASE p.sub \notin OpenSubs(cn) \/ (p.live = <<>> /\ p.eose)
      <3>1. CutOff(cn) = e
        BY <1>2, <2>2, <2>4, <2>9 DEF CutOff
      <3> QED BY <2>7, <2>8, <3>1
    <2>10. CASE p.sub \in OpenSubs(cn) /\ p.live # <<>>
      <3>1. PICK b : b = SendClosed(e, p.sub)
        OBVIOUS
      <3>2. Sound(b) /\ Preserves(e, b) /\ But(e, b, {"out", "ctlOver"})
        BY <2>3, <2>7, <3>1, SendClosedKeeps
      <3>3. PICK d : d = RemoveReqSubscription(b, p.sub)
        OBVIOUS
      <3>4. Sound(d) /\ Preserves(b, d) /\ OpenSubs(d) = OpenSubs(b) \ {p.sub}
        BY <2>3, <3>2, <3>3, RemoveKeeps
      <3>5. b.subs = e.subs
        BY <3>2 DEF But, ConnFields
      <3>6. OpenSubs(b) = OpenSubs(cn)
        BY <2>7, <3>5 DEF OpenSubs
      <3>7. CutOff(cn) = d
        BY <1>2, <2>2, <2>4, <2>10, <3>1, <3>3 DEF CutOff
      <3>8. Preserves(cn, d)
        BY <2>8, <3>2, <3>4, KeepsTwice
      <3> QED BY <2>3, <3>4, <3>6, <3>7, <3>8
    <2>11. CASE p.sub \in OpenSubs(cn) /\ p.live = <<>> /\ ~p.eose
      <3>1. PICK d : d = FinishPendingReq(e, p)
        OBVIOUS
      <3>2. Sound(d) /\ Preserves(e, d) /\ But(e, d, {"out", "ctlOver"})
        BY <2>3, <2>7, <3>1, FinishKeeps
      <3>3. d.subs = e.subs
        BY <3>2 DEF But, ConnFields
      <3>4. OpenSubs(d) = OpenSubs(cn)
        BY <2>7, <3>3 DEF OpenSubs
      <3>5. CutOff(cn) = d
        BY <1>2, <2>2, <2>4, <2>11, <3>1 DEF CutOff
      <3>6. Preserves(cn, d)
        BY <2>8, <3>2, KeepsTwice
      <3> QED BY <3>2, <3>4, <3>5, <3>6
    <2> QED BY <2>9, <2>10, <2>11
  <1> QED BY <1>1, <1>2

\* handle_req registers the subscription: every other one stands.
LEMMA RegisterKeeps ==
  ASSUME NEW cn, Sound(cn), NEW s \in SubIds, NEW f \in Filters
  PROVE  LET d == RegisterSub(cn, s, f)
         IN  /\ Sound(d) /\ d.subs = [cn.subs EXCEPT ![s] = f] /\ d.full = cn.full /\ s \notin Asks(d)
             /\ \A y \in OpenSubs(d) \ {s} :
                   y \in OpenSubs(cn) /\ d.live = cn.live /\ \A i : Holds(cn, y, i) => Holds(d, y, i)
  <1>1. PICK a : a = Purge(cn, s)
    OBVIOUS
  <1>2. Sound(a) /\ But(cn, a, {"out"}) /\ \A y, i : y # s /\ Holds(cn, y, i) => Holds(a, y, i)
    BY <1>1, PurgeKeeps
  <1>3. /\ a \in ConnRecord /\ a.subs = cn.subs /\ a.subBytes = cn.subBytes /\ a.held = cn.held /\ a.live = cn.live /\ a.full = cn.full
    BY <1>2 DEF But, ConnFields
  <1>4. OpenSubs(a) = OpenSubs(cn)
    BY <1>3 DEF OpenSubs
  <1>5. SubBytes(a, s) = SubBytes(cn, s)
    BY <1>3, <1>4 DEF SubBytes
  <1>6. PICK u, h, S : u = cn.subBytes - SubBytes(cn, s) + Cardinality(FilterComponents(f)) /\ S = [cn.subs EXCEPT ![s] = f]
                       /\ (h = IF s \in OpenSubs(cn) THEN cn.held ELSE cn.held + 1)
    <2>1. PICK u : u = cn.subBytes - SubBytes(cn, s) + Cardinality(FilterComponents(f))
      OBVIOUS
    <2>2. PICK h : h = IF s \in OpenSubs(cn) THEN cn.held ELSE cn.held + 1
      BY Zenon
    <2> QED BY <2>1, <2>2
  <1>7. PICK b : b = [a EXCEPT !.subBytes = u, !.subs = S, !.held = h]
    OBVIOUS
  <1>8. PICK T : T = Filters \cup {NoSub} /\ f \in T
    <2>1. f \in Filters \cup {NoSub}
      OBVIOUS
    <2> QED BY <2>1
  <1>9. cn.subs \in [SubIds -> T] /\ cn.subBytes \in Int /\ cn.held \in Int /\ SubBytes(cn, s) \in Nat
        /\ Cardinality(FilterComponents(f)) \in Nat
    <2>1. cn.subs \in [SubIds -> Filters \cup {NoSub}] /\ cn.subBytes \in Int /\ cn.held \in Int
      BY DEF Sound, ConnRecord
    <2>2. SubBytes(cn, s) \in Nat
      BY <2>1, Opened
    <2>3. Cardinality(FilterComponents(f)) \in Nat
      BY SessionConstants, FS_CardinalityType
    <2> QED BY <1>8, <2>1, <2>2, <2>3
  <1>10. u \in Int /\ h \in Int
    BY <1>6, <1>9
  <1>11. S \in [SubIds -> Filters \cup {NoSub}]
    BY <1>6, <1>8, <1>9
  <1>12. But(a, b, {"subBytes", "subs", "held"}) /\ b.subs = S /\ b.subBytes = u /\ b.held = h
    BY <1>3, <1>7, <1>10, <1>11 DEF But, ConnRecord, ConnFields
  <1>13. PICK e : e = EnsureLiveQueue(b)
    OBVIOUS
  <1>14. But(b, e, {"live", "gen"}) /\ e.live # NoQueue /\ (b.live # NoQueue => e.live = b.live)
    <2>1. b \in ConnRecord /\ b.gen \in Nat
      BY <1>12 DEF But, ConnRecord
    <2>2. CASE b.live # NoQueue
      BY <1>13, <2>1, <2>2 DEF EnsureLiveQueue, But
    <2>3. CASE b.live = NoQueue
      <3>1. PICK q, g : q = [gen |-> b.gen + 1, q |-> <<>>] /\ g = b.gen + 1
        OBVIOUS
      <3>2. g \in Nat
        BY <2>1, <3>1
      <3>3. q \in LiveQueue
        <4>1. <<>> \in Seq(Seq(EventIds))
          OBVIOUS
        <4> QED BY <3>1, <3>2, <4>1 DEF LiveQueue
      <3>4. e = [b EXCEPT !.live = q, !.gen = g]
        BY <1>13, <2>3, <3>1 DEF EnsureLiveQueue
      <3>5. But(b, e, {"live", "gen"}) /\ e.live = q
        BY <2>1, <3>2, <3>3, <3>4 DEF But, ConnRecord, ConnFields
      <3> QED BY <2>3, <3>3, <3>5, SessionConstants
    <2> QED BY <2>2, <2>3
  <1>15. PICK x : x = [e EXCEPT !.index = RegisteredComponents(e)]
    OBVIOUS
  <1>16. But(e, x, {"index"}) /\ x.index = RegisteredComponents(e)
    <2>1. e \in ConnRecord
      BY <1>14 DEF But
    <2>2. RegisteredComponents(e) \in SUBSET Components
      BY <2>1, Opened DEF ConnRecord
    <2> QED BY <1>15, <2>1, <2>2 DEF But, ConnRecord, ConnFields
  <1>17. /\ x \in ConnRecord /\ x.subs = S /\ x.subBytes = u /\ x.held = h /\ x.live # NoQueue /\ (cn.live # NoQueue => x.live = cn.live)
         /\ x.pending = a.pending /\ x.out = a.out /\ x.reserved = a.reserved /\ x.full = cn.full /\ e.subs = S
    <2>1. x \in ConnRecord /\ x.subs = e.subs /\ x.subBytes = e.subBytes /\ x.held = e.held /\ x.live = e.live
          /\ x.pending = e.pending /\ x.out = e.out /\ x.reserved = e.reserved /\ x.full = e.full
      BY <1>16 DEF But, ConnFields
    <2>2. e.subs = b.subs /\ e.subBytes = b.subBytes /\ e.held = b.held
          /\ e.pending = b.pending /\ e.out = b.out /\ e.reserved = b.reserved /\ e.full = b.full
      BY <1>14 DEF But, ConnFields
    <2>3. b.live = a.live /\ b.pending = a.pending /\ b.out = a.out /\ b.reserved = a.reserved /\ b.full = a.full
      BY <1>12 DEF But, ConnFields
    <2> QED BY <1>3, <1>12, <1>14, <2>1, <2>2, <2>3
  <1>18. x.index = RegisteredComponents(x)
    <2>1. OpenSubs(x) = OpenSubs(e)
      BY <1>17 DEF OpenSubs
    <2> QED BY <1>16, <1>17, <2>1 DEF RegisteredComponents
  <1>19. f # NoSub /\ s \in OpenSubs(x)
    BY <1>6, <1>9, <1>17, SessionConstants DEF OpenSubs
  <1>20. Sound(x)
    <2>1. x.held = cn.held - (IF s \in OpenSubs(cn) THEN 1 ELSE 0) + (IF f = NoSub THEN 0 ELSE 1)
      BY <1>6, <1>9, <1>17, <1>19
    <2>2. x.subBytes = cn.subBytes - SubBytes(cn, s) + (IF f = NoSub THEN 0 ELSE Cardinality(FilterComponents(f)))
      BY <1>6, <1>17, <1>19
    <2>3. x.reserved = SumReserved(x.pending)
      BY <1>2, <1>17 DEF Sound, Accounts
    <2>4. (x.live = NoQueue) <=> (OpenSubs(x) = {})
      BY <1>17, <1>19
    <2>5. x.subs = [cn.subs EXCEPT ![s] = f] /\ f \in Filters \cup {NoSub}
      BY <1>6, <1>17
    <2> QED BY <1>17, <1>18, <2>1, <2>2, <2>3, <2>4, <2>5, SubsChange
  <1>21. PICK d : d = DropPending(x, {s})
    OBVIOUS
  <1>22. Sound(d) /\ But(x, d, {"pending", "reserved"}) /\ s \notin Asks(d) /\ \A y, i : y # s /\ Holds(x, y, i) => Holds(d, y, i)
    BY <1>20, <1>21, DropPendingKeeps
  <1>23. d.subs = S /\ d.full = cn.full /\ d.live = x.live
    BY <1>17, <1>22 DEF But, ConnFields
  <1>24. ASSUME NEW y \in OpenSubs(d) \ {s}
         PROVE  y \in OpenSubs(cn) /\ d.live = cn.live /\ \A i : Holds(cn, y, i) => Holds(d, y, i)
    <2>1. y \in SubIds /\ y # s /\ d.subs[y] # NoSub
      BY <1>24 DEF OpenSubs
    <2>2. d.subs[y] = cn.subs[y]
      BY <1>6, <1>9, <1>23, <2>1
    <2>3. y \in OpenSubs(cn)
      BY <2>1, <2>2 DEF OpenSubs
    <2>4. cn.live # NoQueue
      BY <2>3 DEF Sound, Accounts
    <2>5. \A i : Holds(cn, y, i) => Holds(x, y, i)
      BY <1>2, <1>17, <2>1 DEF Holds
    <2> QED BY <1>17, <1>22, <1>23, <2>1, <2>3, <2>4, <2>5
  <1>25. RegisterSub(cn, s, f) = d
    <2>1. b = [a EXCEPT !.subBytes = @ - SubBytes(cn, s) + Cardinality(FilterComponents(f)), !.subs[s] = f,
                        !.held = IF s \in OpenSubs(cn) THEN @ ELSE @ + 1]
      BY <1>3, <1>6, <1>7
    <2> QED BY <1>1, <1>13, <1>15, <1>21, <2>1 DEF RegisterSub
  <1> QED BY <1>6, <1>22, <1>23, <1>24, <1>25

\* One subscription of a live event: it has the event, or the connection is given up.
LEMMA DeliverToKeeps ==
  ASSUME NEW cn, Sound(cn), NEW s \in SubIds, NEW i \in EventIds
  PROVE  LET d == DeliverTo(cn, s, i)
         IN  /\ Sound(d) /\ Preserves(cn, d) /\ But(cn, d, {"out", "pending", "liveOver"})
             /\ (cn.liveOver => d.liveOver) /\ (d.liveOver \/ Holds(d, s, i)) /\ \A x, j : Holds(cn, x, j) => Holds(d, x, j)
  <1>1. PICK d : d = DeliverTo(cn, s, i)
    OBVIOUS
  <1>2. PICK at : at = {k \in DOMAIN cn.pending : cn.pending[k].sub = s}
    OBVIOUS
  <1>3. PICK k : k = CHOOSE x \in at : TRUE
    OBVIOUS
  <1>4. /\ cn \in ConnRecord /\ cn.pending \in Seq(Response) /\ cn.reserved = SumReserved(cn.pending) /\ cn.reserved \in Int
        /\ DOMAIN cn.pending = 1..Len(cn.pending) /\ cn.liveOver \in BOOLEAN
    <2>1. cn \in ConnRecord /\ cn.pending \in Seq(Response) /\ cn.reserved = SumReserved(cn.pending) /\ cn.liveOver \in BOOLEAN
          /\ cn.reserved \in Int
      BY DEF Sound, Accounts, ConnRecord
    <2> QED BY <2>1, LenProperties
  <1>5. CASE cn.liveOver
    <2>1. d = cn
      BY <1>1, <1>5 DEF DeliverTo
    <2> QED BY <1>1, <1>4, <1>5, <2>1, KeepsSelf DEF But
  <1>6. CASE ~cn.liveOver /\ d = [cn EXCEPT !.liveOver = TRUE]
    <2>1. But(cn, d, {"liveOver"}) /\ d.liveOver
      BY <1>4, <1>6 DEF But, ConnRecord, ConnFields
    <2>2. But(cn, d, Aside)
      BY <2>1 DEF But, Aside
    <2>3. Sound(d) /\ Preserves(cn, d)
      BY <2>2, OnlyAside
    <2>4. d.out = cn.out /\ d.pending = cn.pending
      BY <2>1 DEF But, ConnFields
    <2>5. But(cn, d, {"out", "pending", "liveOver"})
      BY <2>1 DEF But
    <2> QED BY <1>1, <1>6, <2>1, <2>3, <2>4, <2>5 DEF Holds
  <1>7. CASE ~cn.liveOver /\ at # {} /\ d = [cn EXCEPT !.pending[k].live = Append(@, i)]
    <2>1. k \in at
      BY <1>3, <1>7
    <2>2. k \in 1..Len(cn.pending) /\ cn.pending[k].sub = s
      BY <1>2, <1>4, <2>1
    <2>3. PICK p \in Response : p = cn.pending[k]
      BY <1>4, <2>2, ElementOfSeq
    <2>4. PICK l : l = Append(p.live, i)
      OBVIOUS
    <2>5. p.live \in Seq(EventIds)
      BY DEF Response
    <2>6. /\ l \in Seq(EventIds) /\ (\E n \in DOMAIN l : l[n] = i)
          /\ \A j : (\E n \in DOMAIN p.live : p.live[n] = j) => (\E n \in DOMAIN l : l[n] = j)
      <3>1. l \in Seq(EventIds) /\ Len(l) = Len(p.live) + 1 /\ (\A n \in 1..Len(p.live) : l[n] = p.live[n]) /\ l[Len(p.live) + 1] = i
        BY <2>4, <2>5, AppendProperties
      <3>2. DOMAIN l = 1..Len(l) /\ DOMAIN p.live = 1..Len(p.live) /\ Len(p.live) \in Nat
        BY <2>5, <3>1, LenProperties
      <3>3. (\A n \in DOMAIN p.live : n \in DOMAIN l /\ l[n] = p.live[n]) /\ Len(p.live) + 1 \in DOMAIN l
        BY <3>1, <3>2
      <3> QED BY <3>1, <3>3
    <2>7. PICK r : r = [p EXCEPT !.live = l]
      OBVIOUS
    <2>8. r \in Response /\ r.sub = p.sub /\ r.reserved = p.reserved /\ r.evs = p.evs /\ r.live = l
      BY <2>3, <2>6, <2>7 DEF Response
    <2>9. (\A j : Has(p, j) => Has(r, j)) /\ Has(r, i)
      BY <2>6, <2>8 DEF Has
    <2>10. PICK q : q = [cn.pending EXCEPT ![k] = r]
      OBVIOUS
    <2>11. q \in Seq(Response)
      <3>1. cn.pending \in [1..Len(cn.pending) -> Response] /\ Len(cn.pending) \in Nat
        BY <1>4, LenProperties, ElementOfSeq
      <3>2. q \in [1..Len(cn.pending) -> Response]
        BY <2>2, <2>8, <2>10, <3>1
      <3> QED BY <3>1, <3>2
    <2>12. d = [cn EXCEPT !.pending = q]
      BY <1>7, <2>3, <2>4, <2>7, <2>10
    <2>13. But(cn, d, {"pending"}) /\ d.pending = q
      BY <1>4, <2>11, <2>12 DEF But, ConnRecord, ConnFields
    <2>14. But(cn, d, Aside \cup {"out", "pending", "reserved", "full"}) /\ d.out = cn.out /\ d.reserved = cn.reserved /\ d.full = cn.full
      BY <2>13 DEF But, ConnFields
    <2>15. d.reserved = cn.reserved - cn.pending[k].reserved + r.reserved
      <3>1. p.reserved \in Nat
        BY DEF Response
      <3> QED BY <1>4, <2>3, <2>8, <2>14, <3>1
    <2>16. r.sub = cn.pending[k].sub /\ d.pending = [cn.pending EXCEPT ![k] = r]
      BY <2>3, <2>8, <2>10, <2>13
    <2>17. /\ Sound(d) /\ Asks(d) = Asks(cn) /\ OpenSubs(d) = OpenSubs(cn) /\ d.subs = cn.subs /\ d.live = cn.live
           /\ \A x, j : Responding(cn.pending, x, j) => Responding(d.pending, x, j) \/ (x = r.sub /\ Has(cn.pending[k], j))
           /\ \A j : Has(r, j) => Responding(d.pending, r.sub, j)
      BY <2>2, <2>8, <2>14, <2>15, <2>16, PendingPut
    <2>18. \A x, j : Responding(cn.pending, x, j) => Responding(d.pending, x, j)
      BY <2>3, <2>9, <2>17
    <2>19. (\A x, j : Holds(cn, x, j) => Holds(d, x, j)) /\ Holds(d, s, i)
      BY <2>2, <2>9, <2>14, <2>16, <2>17, <2>18 DEF Holds
    <2>20. Preserves(cn, d)
      BY <2>14, <2>17, <2>19 DEF Preserves
    <2>21. But(cn, d, {"out", "pending", "liveOver"})
      BY <2>13 DEF But
    <2> QED BY <1>1, <1>7, <2>17, <2>19, <2>20, <2>21
  <1>8. CASE ~cn.liveOver /\ Len(cn.out) < OutLimit /\ d = SendTagged(cn, EventFrame(cn, s, TRUE, i))
    <2>1. PICK f : f \in Frame /\ f = EventFrame(cn, s, TRUE, i) /\ f.t = "EVENT" /\ f.sub = s /\ f.ev = i
      <3>1. PICK b \in BOOLEAN : b = TRUE
        OBVIOUS
      <3>2. EventFrame(cn, s, b, i) \in Frame /\ EventFrame(cn, s, b, i).t = "EVENT" /\ EventFrame(cn, s, b, i).sub = s
            /\ EventFrame(cn, s, b, i).ev = i
        BY <1>4, Frames
      <3> QED BY <3>1, <3>2
    <2>2. d = [cn EXCEPT !.out = Append(@, f)]
      <3>1. Len(cn.out) \in Nat /\ OutLimit \in Nat
        BY <1>4, LenProperties, SessionConstants DEF ConnRecord
      <3>2. ~(Len(cn.out) >= OutLimit)
        BY <1>8, <3>1
      <3> QED BY <1>8, <2>1, <3>2 DEF SendTagged
    <2>3. /\ Sound(d) /\ Preserves(cn, d) /\ But(cn, d, {"out"})
          /\ (\A x, j : Holds(cn, x, j) => Holds(d, x, j)) /\ Holds(d, s, i)
      BY <2>1, <2>2, LongerOut
    <2>4. But(cn, d, {"out", "pending", "liveOver"})
      BY <2>3 DEF But
    <2> QED BY <1>1, <1>8, <2>3, <2>4
  <1>9. cn.liveOver \/ (~cn.liveOver /\ (\/ d = [cn EXCEPT !.liveOver = TRUE]
                                         \/ at # {} /\ d = [cn EXCEPT !.pending[k].live = Append(@, i)]
                                         \/ ~(Len(cn.out) >= OutLimit) /\ d = SendTagged(cn, EventFrame(cn, s, TRUE, i))))
    BY <1>1, <1>2, <1>3 DEF DeliverTo
  <1>10. ~(Len(cn.out) >= OutLimit) => Len(cn.out) < OutLimit
    <2>1. Len(cn.out) \in Nat /\ OutLimit \in Nat
      BY <1>4, LenProperties, SessionConstants DEF ConnRecord
    <2> QED BY <2>1
  <1> QED BY <1>5, <1>6, <1>7, <1>8, <1>9, <1>10

\* The walk of deliver_live_at over the ids of an order.
Delivering(cn, i, n, q, f) ==
    f = CHOOSE g : g = [k \in 0..n |-> IF k = 0 THEN cn ELSE DeliverTo(g[k - 1], q[k], i)]

\* Every id of an order is visited: each has the event, or the connection is given up.
LEMMA DeliverAllKeeps ==
  ASSUME NEW cn, Sound(cn), NEW i \in EventIds, NEW n \in Nat, NEW q, \A k \in 1..n : q[k] \in SubIds,
         NEW f, Delivering(cn, i, n, q, f)
  PROVE  Sound(f[n]) /\ Preserves(cn, f[n]) /\ (f[n].liveOver \/ \A k \in 1..n : Holds(f[n], q[k], i))
  <1>5. PICK D : D = {x \in ConnRecord : Sound(x) /\ Preserves(cn, x)}
    OBVIOUS
  <1>6. cn \in D
    BY <1>5, KeepsSelf DEF Sound
  <1> DEFINE G == [x \in D \X (1..n) |-> DeliverTo(x[1], q[x[2]], i)]
             Warned(x, k) == x.liveOver \/ Holds(x, q[k], i)
  <1>7. \A x \in D, k \in 1..n : /\ DeliverTo(x, q[k], i) \in D /\ Warned(DeliverTo(x, q[k], i), k)
                                 /\ \A j \in 1..n : Warned(x, j) => Warned(DeliverTo(x, q[k], i), j)
    <2> SUFFICES ASSUME NEW x \in D, NEW k \in 1..n
                 PROVE  /\ DeliverTo(x, q[k], i) \in D /\ Warned(DeliverTo(x, q[k], i), k)
                        /\ \A j \in 1..n : Warned(x, j) => Warned(DeliverTo(x, q[k], i), j)
      OBVIOUS
    <2>1. PICK s : s = q[k] /\ s \in SubIds
      OBVIOUS
    <2>2. Sound(x) /\ Preserves(cn, x)
      BY <1>5
    <2>3. PICK d : d = DeliverTo(x, s, i)
      OBVIOUS
    <2>4. /\ Sound(d) /\ Preserves(x, d) /\ (x.liveOver => d.liveOver) /\ (d.liveOver \/ Holds(d, s, i))
          /\ \A y, j : Holds(x, y, j) => Holds(d, y, j)
      BY <2>1, <2>2, <2>3, DeliverToKeeps
    <2>5. Preserves(cn, d)
      BY <2>2, <2>4, KeepsTwice
    <2>6. d \in D
      BY <1>5, <2>4, <2>5 DEF Sound
    <2>7. Warned(d, k) /\ \A j \in 1..n : Warned(x, j) => Warned(d, j)
      BY <2>1, <2>4
    <2> QED BY <2>1, <2>3, <2>6, <2>7
  <1> HIDE DEF Warned
  <1>9. PICK g : Walks(D, cn, G, n, g)
    <2>1. G \in [D \X (1..n) -> D]
      BY <1>7
    <2> HIDE DEF G
    <2> QED BY <1>6, <2>1, WalkExists
  <1>10. g = [k \in 0..n |-> IF k = 0 THEN cn ELSE DeliverTo(g[k - 1], q[k], i)]
    <2>0. g \in [0..n -> D] /\ g[0] = cn /\ \A k \in 1..n : g[k] = G[<<g[k - 1], k>>]
      <3> HIDE DEF G
      <3> QED BY <1>9 DEF Walks
    <2>2. \A k \in 1..n : <<g[k - 1], k>> \in D \X (1..n)
      <3> TAKE k \in 1..n
      <3>1. k - 1 \in 0..n
        OBVIOUS
      <3> QED BY <2>0, <3>1
    <2>1. g \in [0..n -> D] /\ g[0] = cn /\ \A k \in 1..n : g[k] = DeliverTo(g[k - 1], q[k], i)
      BY <2>0, <2>2
    <2> QED BY <2>1
  <1>11. f[0] = cn /\ \A k \in 1..n : f[k] = DeliverTo(f[k - 1], q[k], i)
    <2>1. f = [k \in 0..n |-> IF k = 0 THEN cn ELSE DeliverTo(f[k - 1], q[k], i)]
      BY <1>10 DEF Delivering
    <2> QED BY <2>1
  <1>12. PICK X : X = {x \in D \X (0..n) : \A k \in 1..x[2] : Warned(x[1], k)}
    OBVIOUS
  <1> DEFINE h == [k \in 0..n |-> <<f[k], k>>]
  <1>13. h[0] \in X
    BY <1>6, <1>11, <1>12
  <1>14. \A k \in 1..n : h[k - 1] \in X => h[k] \in X
    <2> SUFFICES ASSUME NEW k \in 1..n, h[k - 1] \in X PROVE h[k] \in X
      OBVIOUS
    <2>0. k - 1 \in 0..n /\ k \in 0..n
      OBVIOUS
    <2>1. f[k - 1] \in D /\ \A j \in 1..(k - 1) : Warned(f[k - 1], j)
      BY <2>0, <1>12
    <2>2. f[k] \in D /\ Warned(f[k], k) /\ \A j \in 1..(k - 1) : Warned(f[k], j)
      BY <2>1, <1>7, <1>11
    <2>3. \A j \in 1..k : Warned(f[k], j)
      BY <2>2
    <2> QED BY <2>0, <2>2, <2>3, <1>12
  <1>15. h[n] \in X
    <2>1. \A k \in 0..n : h[k] \in X
      <3> HIDE DEF h
      <3> QED BY <1>13, <1>14, WalkInduct
    <2> QED BY <2>1
  <1>16. f[n] \in D /\ \A k \in 1..n : Warned(f[n], k)
    BY <1>12, <1>15
  <1> QED BY <1>5, <1>16 DEF Warned

\* close_for_live_overflow keeps the accounts.
LEMMA OverflowSound ==
  ASSUME NEW cn, Sound(cn)
  PROVE  Sound(CloseForLiveOverflow(cn))
  <1>0. PICK S : S = OpenSubs(cn) /\ S \subseteq SubIds /\ IsFiniteSet(S)
    BY Opened DEF Sound, ConnRecord
  <1>1. PICK q : q = CHOOSE x \in Orders(S) : TRUE
    OBVIOUS
  <1>2. q \in Seq(S)
    BY <1>0, <1>1, OrdersMeetAll
  <1>3. PICK n \in Nat : n = Len(q) /\ \A k \in 1..n : q[k] \in SubIds
    BY <1>0, <1>2, LenProperties, ElementOfSeq
  <1>5. PICK D : D = {x \in ConnRecord : Sound(x)}
    OBVIOUS
  <1>6. cn \in D
    BY <1>5 DEF Sound
  <1> DEFINE G == [x \in D \X (1..n) |-> SendClosed(x[1], q[x[2]])]
             f == CHOOSE f : f = [k \in 0..n |-> IF k = 0 THEN cn ELSE SendClosed(f[k - 1], q[k])]
  <1>7. \A x \in D, k \in 1..n : SendClosed(x, q[k]) \in D
    <2> SUFFICES ASSUME NEW x \in D, NEW k \in 1..n PROVE SendClosed(x, q[k]) \in D
      OBVIOUS
    <2>1. Sound(SendClosed(x, q[k]))
      BY <1>3, <1>5, SendClosedKeeps
    <2> QED BY <1>5, <2>1 DEF Sound
  <1>8. CloseForLiveOverflow(cn) = [f[n] EXCEPT !.liveOver = TRUE]
    BY <1>0, <1>1, <1>3 DEF CloseForLiveOverflow
  <1>9. PICK g : Walks(D, cn, G, n, g)
    <2>1. G \in [D \X (1..n) -> D]
      BY <1>7
    <2> HIDE DEF G
    <2> QED BY <1>6, <2>1, WalkExists
  <1>10. g = [k \in 0..n |-> IF k = 0 THEN cn ELSE SendClosed(g[k - 1], q[k])]
    <2>0. g \in [0..n -> D] /\ g[0] = cn /\ \A k \in 1..n : g[k] = G[<<g[k - 1], k>>]
      <3> HIDE DEF G
      <3> QED BY <1>9 DEF Walks
    <2>2. \A k \in 1..n : <<g[k - 1], k>> \in D \X (1..n)
      <3> TAKE k \in 1..n
      <3>1. k - 1 \in 0..n
        OBVIOUS
      <3> QED BY <2>0, <3>1
    <2>1. g \in [0..n -> D] /\ g[0] = cn /\ \A k \in 1..n : g[k] = SendClosed(g[k - 1], q[k])
      BY <2>0, <2>2
    <2> QED BY <2>1
  <1>11. f[0] = cn /\ \A k \in 1..n : f[k] = SendClosed(f[k - 1], q[k])
    <2>1. f = [k \in 0..n |-> IF k = 0 THEN cn ELSE SendClosed(f[k - 1], q[k])]
      BY <1>10
    <2> HIDE DEF f
    <2> QED BY <2>1
  <1> HIDE DEF f
  <1>12. f[n] \in D
    <2>1. \A k \in 1..n : f[k - 1] \in D => f[k] \in D
      BY <1>7, <1>11
    <2>2. f[0] \in D
      BY <1>6, <1>11
    <2>3. \A k \in 0..n : f[k] \in D
      BY <2>1, <2>2, WalkInduct
    <2> QED BY <2>3
  <1>13. PICK x : x = f[n]
    OBVIOUS
  <1>14. Sound(x) /\ x \in ConnRecord
    BY <1>5, <1>12, <1>13
  <1>15. PICK d : d = [x EXCEPT !.liveOver = TRUE]
    OBVIOUS
  <1>16. But(x, d, Aside)
    BY <1>14, <1>15 DEF But, ConnRecord, ConnFields, Aside
  <1>17. Sound(d)
    BY <1>14, <1>16, OnlyAside
  <1> QED BY <1>8, <1>13, <1>15, <1>17

\* The newest first: a sequence of all the numbers of a finite set.
LEMMA NewestFirstAll ==
  ASSUME NEW S, S \subseteq Nat, IsFiniteSet(S)
  PROVE  /\ NewestFirst(S) \in Seq(S) /\ Len(NewestFirst(S)) = Cardinality(S) /\ Cardinality(S) \in Nat
         /\ \A i \in S : \E k \in 1..Cardinality(S) : NewestFirst(S)[k] = i
  <1>1. PICK n \in Nat : n = Cardinality(S)
    BY FS_CardinalityType
  <1> DEFINE Above(i) == {j \in S : j > i}
             r == [i \in S |-> Cardinality(Above(i))]
  <1>2. \A i \in S : IsFiniteSet(Above(i)) /\ Cardinality(Above(i)) \in Nat /\ Cardinality(Above(i)) < n
    <2> TAKE i \in S
    <2>1. Above(i) \subseteq S /\ i \notin Above(i)
      OBVIOUS
    <2> HIDE DEF Above
    <2>2. IsFiniteSet(Above(i)) /\ Cardinality(Above(i)) <= Cardinality(S) /\ (Cardinality(S) = Cardinality(Above(i)) => S = Above(i))
      BY <2>1, FS_Subset
    <2>3. Cardinality(Above(i)) \in Nat
      BY <2>2, FS_CardinalityType
    <2>4. Cardinality(S) # Cardinality(Above(i))
      BY <2>1, <2>2
    <2> QED BY <1>1, <2>2, <2>3, <2>4
  <1>3. PICK T : T = 0..(n - 1)
    OBVIOUS
  <1>4. IsFiniteSet(T) /\ Cardinality(T) = n
    <2>1. 0 \in Int /\ n - 1 \in Int /\ (n - 1) - 0 + 1 = n /\ (0 > n - 1 => n = 0)
      OBVIOUS
    <2>2. IsFiniteSet(0..(n - 1)) /\ Cardinality(0..(n - 1)) = IF 0 > n - 1 THEN 0 ELSE (n - 1) - 0 + 1
      BY <2>1, FS_Interval
    <2> QED BY <1>3, <2>1, <2>2
  <1>5. r \in [S -> T]
    <2>1. \A i \in S : Cardinality(Above(i)) \in T
      BY <1>2, <1>3
    <2> QED BY <2>1
  <1>6. \A x, y \in S : r[x] = r[y] => x = y
    <2>1. ASSUME NEW x \in S, NEW y \in S, x < y
          PROVE  r[x] # r[y]
      <3>1. Above(y) \subseteq Above(x) /\ y \in Above(x) /\ y \notin Above(y)
        <4>1. x \in Nat /\ y \in Nat /\ \A j \in S : j \in Nat
          OBVIOUS
        <4>2. \A j \in S : j > y => j > x
          BY <2>1, <4>1
        <4>3. y > x /\ ~(y > y)
          BY <2>1, <4>1
        <4> QED BY <4>2, <4>3
      <3>2. r[x] = Cardinality(Above(x)) /\ r[y] = Cardinality(Above(y))
        OBVIOUS
      <3>3. IsFiniteSet(Above(x))
        BY <1>2
      <3> HIDE DEF Above, r
      <3>4. Cardinality(Above(x)) # Cardinality(Above(y))
        BY <3>1, <3>3, FS_Subset
      <3> QED BY <3>2, <3>4
    <2>2. \A x, y \in S : x < y => r[x] # r[y]
      BY <2>1
    <2> HIDE DEF r
    <2>3. \A x, y \in S : x # y => x < y \/ y < x
      OBVIOUS
    <2> QED BY <2>2, <2>3
  <1>7. \A t \in T : \E x \in S : r[x] = t
    <2> HIDE DEF r
    <2>1. Cardinality(S) = Cardinality(T)
      BY <1>1, <1>4
    <2>2. OneToOne(r, S, T)
      BY <1>5, <1>6 DEF OneToOne
    <2>3. MeetsAll(r, S, T)
      BY <1>4, <2>1, <2>2, OneToOneOnto
    <2> QED BY <2>3 DEF MeetsAll
  <1> DEFINE N == [k \in 1..n |-> CHOOSE i \in S : r[i] = k - 1]
  <1>8. NewestFirst(S) = N
    BY <1>1 DEF NewestFirst
  <1> HIDE DEF r
  <1>9. \A k \in 1..n : N[k] \in S /\ r[N[k]] = k - 1
    <2> TAKE k \in 1..n
    <2>1. k - 1 \in T
      BY <1>3
    <2>2. \E i \in S : r[i] = k - 1
      BY <1>7, <2>1
    <2> QED BY <2>2
  <1>10. \A i \in S : \E k \in 1..n : N[k] = i
    <2> TAKE i \in S
    <2>1. r[i] \in T
      BY <1>5
    <2>2. r[i] + 1 \in 1..n /\ (r[i] + 1) - 1 = r[i]
      BY <1>3, <2>1
    <2>3. PICK k \in 1..n : k - 1 = r[i]
      BY <2>2
    <2>4. N[k] \in S /\ r[N[k]] = r[i]
      BY <1>9, <2>3
    <2> QED BY <1>6, <2>4
  <1>11. N \in [1..n -> S]
    BY <1>9
  <1> HIDE DEF N
  <1>12. N \in Seq(S) /\ Len(N) = n
    BY <1>11
  <1> QED BY <1>1, <1>8, <1>10, <1>12

\* An event that a filter matches is found through one of the filter's components.
LEMMA MatchedIsFound ==
  ASSUME NEW f, NEW e, Matches(f, e)
  PROVE  FilterComponents(f) \cap EventComponents(e) # {}
  <1>1. CASE f.kinds \cup f.authors \cup f.tags = {}
    <2>1. <<"all", "">> \in FilterComponents(f) /\ <<"all", "">> \in EventComponents(e)
      BY <1>1 DEF FilterComponents, EventComponents
    <2> QED BY <2>1
  <1>2. CASE f.kinds \cup f.authors \cup f.tags # {} /\ f.kinds # {}
    <2>1. <<"kind", e.kind>> \in FilterComponents(f) /\ <<"kind", e.kind>> \in EventComponents(e)
      BY <1>2 DEF FilterComponents, EventComponents, Matches
    <2> QED BY <2>1
  <1>3. CASE f.kinds \cup f.authors \cup f.tags # {} /\ f.authors # {}
    <2>1. PICK a \in f.authors : a = e.author \/ a = e.deleg
      BY <1>3 DEF Matches
    <2>2. <<"author", a>> \in FilterComponents(f) /\ <<"author", a>> \in EventComponents(e)
      BY <1>3, <2>1 DEF FilterComponents, EventComponents
    <2> QED BY <2>2
  <1>4. CASE f.kinds \cup f.authors \cup f.tags # {} /\ f.tags # {}
    <2>1. PICK t \in f.tags : t \in e.tags
      BY <1>4 DEF Matches
    <2>2. <<"tag", t>> \in FilterComponents(f) /\ <<"tag", t>> \in EventComponents(e)
      BY <1>4, <2>1 DEF FilterComponents, EventComponents
    <2> QED BY <2>2
  <1> QED BY <1>1, <1>2, <1>3, <1>4

-----------------------------------------------------------------------------
(* The inductive invariant *)

WireView == [inc : Nat, last : Nat, ph : {"closed", "scanning", "live"}, hist : SUBSET Nat, live : SUBSET Nat]
AccessSeenBy == [denied : SUBSET Keys, busy : BOOLEAN, seen : BOOLEAN, cfgAuth : BOOLEAN, cfgSeen : BOOLEAN]
Fan == [step : {"idle", "found", "push"}, batch : Seq(EventIds), gen : Nat, overflow : BOOLEAN]
Page == [ok : BOOLEAN, evs : Seq(EventIds), more : BOOLEAN, hidden : BOOLEAN]

SessionTypes ==
    /\ access \in AccessSeenBy /\ page \in Page /\ cur \in Seq(EventIds) /\ bus \in Seq(EventIds) /\ fan \in Fan
    /\ view \in [SubIds -> WireView] /\ store \subseteq EventIds /\ menu \in Menus

\* Where the task is, and what the REQ in hand may rely on there.
Asking == req.sub \in OpenSubs(peer) /\ req.filter = peer.subs[req.sub]
TaskAt ==
    /\ after \in {"select", "top", "enqueue", "relieve"}
    /\ pc = "drain" => after # "enqueue"
    /\ cur # <<>> => pc \in {"deliver", "relieve", "teardown"} \/ (pc = "pump" /\ after = "relieve")
    /\ pc = "enqueue" \/ (pc = "pump" /\ after = "enqueue") => Asking /\ req.sub \notin Asks(peer)
    /\ pc \in {"query", "answer"} =>
          /\ Asking
          /\ \A k \in 1..Len(peer.pending) : peer.pending[k].sub = req.sub => peer.pending[k].evs = <<>> /\ peer.pending[k].reserved = 0

\* The answer the reader gave misses nothing that is not on its way.
AnswerWhole ==
    pc = "answer" /\ page.ok /\ ~page.more /\ ~fan.overflow =>
        \A i \in store : Matches(req.filter, Ev(i)) /\ Ev(i).class = "note" =>
            (\E j \in DOMAIN page.evs : page.evs[j] = i) \/ OnTheWay(req.sub, i)

SessionInv == Sound(peer) /\ SessionTypes /\ TaskAt /\ AnswerWhole /\ NothingFallsBetween

\* A step that keeps every promised subscription, what it has and what was written.
KeepsPromises ==
    \A s \in OpenSubs(peer') : peer'.full[s] =>
        /\ s \in OpenSubs(peer) /\ peer.full[s] /\ peer'.subs[s] = peer.subs[s] /\ peer'.live = peer.live
        /\ \A i : Holds(peer, s, i) => Holds(peer', s, i)
        /\ view[s].hist \cup view[s].live \subseteq view'[s].hist \cup view'[s].live

\* Such a step keeps the promise, when nothing moves outside the task.
LEMMA PromisesKept ==
  ASSUME NothingFallsBetween, KeepsPromises, UNCHANGED <<store, toBus, bus, fan, cur>>, pc \in {"teardown", "gone"} => pc' \in {"teardown", "gone"}
  PROVE  NothingFallsBetween'
  <1> SUFFICES ASSUME pc' \notin {"teardown", "gone"}, ~fan'.overflow, NEW s \in OpenSubs(peer'), peer'.full[s],
                      NEW i \in store', Matches(peer'.subs[s], Ev(i)), Ev(i).class = "note"
               PROVE  i \in view'[s].hist \cup view'[s].live \/ OnTheWay(s, i)'
    BY DEF NothingFallsBetween
  <1>1. /\ s \in OpenSubs(peer) /\ peer.full[s] /\ peer'.subs[s] = peer.subs[s] /\ peer'.live = peer.live
        /\ (Holds(peer, s, i) => Holds(peer', s, i)) /\ (i \in view[s].hist \cup view[s].live => i \in view'[s].hist \cup view'[s].live)
    BY DEF KeepsPromises
  <1>2. i \in view[s].hist \cup view[s].live \/ OnTheWay(s, i)
    BY <1>1 DEF NothingFallsBetween
  <1>3. OnTheWay(s, i) => OnTheWay(s, i)'
    BY <1>1 DEF OnTheWay
  <1> QED BY <1>1, <1>2, <1>3

\* A step that loses nothing and writes nothing is one.
LEMMA KeepsKept ==
  ASSUME Preserves(peer, peer'), UNCHANGED view, peer' \in ConnRecord
  PROVE  KeepsPromises
  <1> SUFFICES ASSUME NEW s \in OpenSubs(peer'), peer'.full[s]
               PROVE  /\ s \in OpenSubs(peer) /\ peer.full[s] /\ peer'.subs[s] = peer.subs[s] /\ peer'.live = peer.live
                      /\ \A i : Holds(peer, s, i) => Holds(peer', s, i)
                      /\ view[s].hist \cup view[s].live \subseteq view'[s].hist \cup view'[s].live
    BY DEF KeepsPromises
  <1>1. peer'.subs[s] = peer.subs[s] /\ peer'.live = peer.live /\ peer.full[s] /\ \A i : Holds(peer, s, i) => Holds(peer', s, i)
    BY DEF Preserves
  <1>2. s \in OpenSubs(peer)
    BY <1>1 DEF OpenSubs
  <1> QED BY <1>1, <1>2

\* Elsewhere there is no answer in hand.
LEMMA AnswerElse == pc' # "answer" => AnswerWhole'
  BY DEF AnswerWhole

-----------------------------------------------------------------------------
(* The parties beside the task *)

\* What one of them may do: nothing of the connection moves but its live queue, and nothing on its way is lost unless the overflow
\* says so.
Beside ==
    /\ UNCHANGED <<pc, after, req, page, cur, view, menu>> /\ But(peer, peer', {"live"}) /\ ((peer'.live = NoQueue) <=> (peer.live = NoQueue))
    /\ access' \in AccessSeenBy /\ bus' \in Seq(EventIds) /\ fan' \in Fan /\ store' \subseteq EventIds
    /\ store' \subseteq store \cup toBus' /\ (fan.overflow => fan'.overflow)
    /\ ~fan'.overflow => \A s \in OpenSubs(peer), i \in EventIds : Matches(peer.subs[s], Ev(i)) /\ OnTheWay(s, i) => OnTheWay(s, i)'

\* A step of one of them keeps the invariant.
LEMMA BesideKeeps ==
  ASSUME SessionInv, Beside
  PROVE  SessionInv'
  <1>1. /\ peer' \in ConnRecord /\ peer'.subs = peer.subs /\ peer'.full = peer.full /\ peer'.pending = peer.pending /\ peer'.out = peer.out
        /\ peer'.held = peer.held /\ peer'.subBytes = peer.subBytes /\ peer'.index = peer.index /\ peer'.reserved = peer.reserved
    BY DEF Beside, But, ConnFields
  <1>2. OpenSubs(peer') = OpenSubs(peer)
    BY <1>1 DEF OpenSubs
  <1>3. RegisteredComponents(peer') = RegisteredComponents(peer) /\ \A s \in SubIds : SubBytes(peer', s) = SubBytes(peer, s)
    BY <1>1, <1>2 DEF RegisteredComponents, SubBytes
  <1>4. [s \in SubIds |-> SubBytes(peer', s)] = [s \in SubIds |-> SubBytes(peer, s)]
    BY <1>3
  <1>5. Sound(peer')
    <2>1. Accounts(peer) /\ ((peer'.live = NoQueue) <=> (peer.live = NoQueue))
      BY DEF SessionInv, Sound, Beside
    <2> QED BY <1>1, <1>2, <1>3, <1>4, <2>1 DEF Sound, Accounts
  <1>6. SessionTypes'
    BY DEF SessionInv, SessionTypes, Beside
  <1>7. TaskAt'
    <2>1. Asks(peer') = Asks(peer)
      BY <1>1 DEF Asks
    <2>2. Asking' <=> Asking
      BY <1>1, <1>2 DEF Asking, Beside
    <2> QED BY <1>1, <2>1, <2>2 DEF SessionInv, TaskAt, Beside
  <1>8. ASSUME ~fan'.overflow, NEW s \in OpenSubs(peer), NEW i \in store', Matches(peer.subs[s], Ev(i))
        PROVE  i \notin store \/ OnTheWay(s, i) => OnTheWay(s, i)'
    <2>1. i \in EventIds
      BY <1>8 DEF Beside
    <2>2. CASE i \notin store
      BY <1>8, <2>2 DEF Beside, OnTheWay
    <2>3. CASE OnTheWay(s, i)
      BY <1>8, <2>1, <2>3 DEF Beside
    <2> QED BY <2>2, <2>3
  <1>9. AnswerWhole'
    <2> SUFFICES ASSUME pc' = "answer", page'.ok, ~page'.more, ~fan'.overflow, NEW i \in store',
                        Matches(req'.filter, Ev(i)), Ev(i).class = "note"
                 PROVE  (\E j \in DOMAIN page'.evs : page'.evs[j] = i) \/ OnTheWay(req.sub, i)'
      BY DEF AnswerWhole
    <2>1. pc = "answer" /\ page' = page /\ req' = req /\ ~fan.overflow
      BY DEF Beside
    <2>2. req.sub \in OpenSubs(peer) /\ req.filter = peer.subs[req.sub]
      BY <2>1 DEF SessionInv, TaskAt, Asking
    <2>3. PICK s : s = req.sub /\ s \in OpenSubs(peer)
      BY <2>2
    <2>4. Matches(peer.subs[s], Ev(i))
      BY <2>1, <2>2, <2>3
    <2>5. CASE i \notin store
      <3>1. OnTheWay(s, i)'
        BY <1>8, <2>3, <2>4, <2>5
      <3> QED BY <2>1, <2>3, <3>1 DEF OnTheWay, Holds
    <2>6. CASE i \in store
      <3>1. (\E j \in DOMAIN page.evs : page.evs[j] = i) \/ OnTheWay(req.sub, i)
        BY <2>1, <2>6 DEF SessionInv, AnswerWhole
      <3>2. OnTheWay(req.sub, i) => OnTheWay(s, i)
        BY <2>3
      <3>3. OnTheWay(s, i) => OnTheWay(s, i)'
        BY <1>8, <2>3, <2>4
      <3>4. OnTheWay(s, i)' => OnTheWay(req.sub, i)'
        BY <2>1, <2>3 DEF OnTheWay
      <3> QED BY <2>1, <3>1, <3>2, <3>3, <3>4
    <2> QED BY <2>5, <2>6
  <1>10. NothingFallsBetween'
    <2> SUFFICES ASSUME pc' \notin {"teardown", "gone"}, ~fan'.overflow, NEW s \in OpenSubs(peer'), peer'.full[s],
                        NEW i \in store', Matches(peer'.subs[s], Ev(i)), Ev(i).class = "note"
                 PROVE  i \in view'[s].hist \cup view'[s].live \/ OnTheWay(s, i)'
      BY DEF NothingFallsBetween
    <2>1. pc' = pc /\ view' = view /\ ~fan.overflow
      BY DEF Beside
    <2>2. s \in OpenSubs(peer) /\ peer.full[s] /\ Matches(peer.subs[s], Ev(i))
      BY <1>1, <1>2
    <2>3. i \in store => i \in view[s].hist \cup view[s].live \/ OnTheWay(s, i)
      BY <2>1, <2>2 DEF SessionInv, NothingFallsBetween
    <2> QED BY <1>8, <2>1, <2>2, <2>3
  <1> QED BY <1>5, <1>6, <1>7, <1>9, <1>10 DEF SessionInv

\* The connection is the same.
LEMMA SamePeer ==
  ASSUME SessionInv, peer' = peer
  PROVE  But(peer, peer', {"live"}) /\ ((peer'.live = NoQueue) <=> (peer.live = NoQueue))
  BY DEF SessionInv, Sound, But

\* An event that is committed is on its way to the bus.
LEMMA CommitBeside ==
  ASSUME SessionInv, NEW e \in Events, Commit(e)
  PROVE  Beside
  <1>1. UNCHANGED <<peer, access, bus, fan, pc, after, req, page, cur, view, menu>> /\ store' = store \cup {e.id} /\ toBus' = toBus \cup {e.id}
    BY DEF Commit, Others
  <1>2. e.id \in EventIds
    BY DEF EventIds
  <1>3. \A s, i : OnTheWay(s, i) => OnTheWay(s, i)'
    BY <1>1 DEF OnTheWay
  <1> QED BY <1>1, <1>2, <1>3, SamePeer DEF Beside, SessionInv, SessionTypes

\* It goes from there into the live buffer.
LEMMA BroadcastBeside ==
  ASSUME SessionInv, NEW e \in EventIds, Broadcast(e)
  PROVE  Beside
  <1>1. UNCHANGED <<peer, access, store, fan, pc, after, req, page, cur, view, menu>> /\ toBus' = toBus \ {e} /\ bus' = Append(bus, e)
    BY DEF Broadcast, Others
  <1>2. bus \in Seq(EventIds)
    BY DEF SessionInv, SessionTypes
  <1>3. /\ bus' \in Seq(EventIds) /\ Len(bus') = Len(bus) + 1 /\ (\A k \in 1..Len(bus) : bus'[k] = bus[k]) /\ bus'[Len(bus) + 1] = e
    BY <1>1, <1>2, AppendProperties
  <1>4. DOMAIN bus = 1..Len(bus) /\ DOMAIN bus' = 1..Len(bus') /\ Len(bus) \in Nat
    BY <1>2, <1>3, LenProperties
  <1>5. (\A k \in DOMAIN bus : k \in DOMAIN bus' /\ bus'[k] = bus[k]) /\ Len(bus) + 1 \in DOMAIN bus'
    BY <1>3, <1>4
  <1>6. \A i : (i \in toBus \/ \E k \in DOMAIN bus : bus[k] = i) => (i \in toBus' \/ \E k \in DOMAIN bus' : bus'[k] = i)
    BY <1>1, <1>3, <1>5
  <1>7. \A s, i : OnTheWay(s, i) => OnTheWay(s, i)'
    BY <1>1, <1>6 DEF OnTheWay
  <1> QED BY <1>1, <1>3, <1>7, SamePeer DEF Beside, SessionInv, SessionTypes

\* The flush finds every connection whose index has a component of one of the events.
LEMMA LookupBeside ==
  ASSUME SessionInv, NEW n \in 1..BatchSize, BusLookup(n)
  PROVE  Beside
  <1>1. UNCHANGED <<peer, access, store, toBus, pc, after, req, page, cur, view, menu>> /\ bus' = SubSeq(bus, n + 1, Len(bus)) /\ fan.step = "idle"
    BY DEF BusLookup, Others
  <1>2. bus \in Seq(EventIds) /\ fan \in Fan
    BY DEF SessionInv, SessionTypes
  <1>3. PICK N \in Nat : N = Len(bus) /\ n \in 1..N /\ DOMAIN bus = 1..N /\ \A k \in 1..N : bus[k] \in EventIds
    <2>1. Len(bus) \in Nat /\ DOMAIN bus = 1..Len(bus) /\ \A k \in 1..Len(bus) : bus[k] \in EventIds
      BY <1>2, LenProperties, ElementOfSeq
    <2>2. n \in Int /\ n >= 1 /\ n <= Len(bus)
      BY SessionConstants DEF BusLookup
    <2>3. n \in 1..Len(bus)
      BY <2>1, <2>2
    <2> QED BY <2>1, <2>3, Zenon
  <1>4. PICK batch : batch = SubSeq(bus, 1, n)
    OBVIOUS
  <1>5. batch \in Seq(EventIds) /\ Len(batch) = n /\ DOMAIN batch = 1..n /\ \A k \in 1..n : batch[k] = bus[k]
    <2>1. batch = [k \in 1..n |-> bus[k]]
      BY <1>2, <1>3, <1>4
    <2>2. batch \in [1..n -> EventIds] /\ n \in Nat
      BY <1>3, <2>1
    <2> QED BY <2>1, <2>2
  <1>6. bus' \in Seq(EventIds) /\ DOMAIN bus' = 1..(N - n) /\ \A k \in 1..(N - n) : bus'[k] = bus[k + n]
    <2>1. bus' = [k \in 1..(N - n) |-> bus[k + n]]
      BY <1>1, <1>2, <1>3
    <2>2. \A k \in 1..(N - n) : k + n \in 1..N
      BY <1>3
    <2>3. bus' \in [1..(N - n) -> EventIds] /\ N - n \in Nat
      BY <1>3, <2>1, <2>2
    <2> QED BY <2>1, <2>3
  <1>7. \A i : (\E k \in DOMAIN bus : bus[k] = i) => (\E k \in DOMAIN batch : batch[k] = i) \/ (\E k \in DOMAIN bus' : bus'[k] = i)
    <2> SUFFICES ASSUME NEW k \in 1..N PROVE (\E j \in DOMAIN batch : batch[j] = bus[k]) \/ (\E j \in DOMAIN bus' : bus'[j] = bus[k])
      BY <1>3
    <2>1. CASE k <= n
      <3>1. k \in 1..n
        BY <1>3, <2>1
      <3> QED BY <1>5, <3>1
    <2>2. CASE k > n
      <3>1. k - n \in 1..(N - n) /\ (k - n) + n = k
        BY <1>3, <2>2
      <3>2. bus'[k - n] = bus[k]
        BY <1>6, <3>1
      <3> QED BY <1>6, <3>1, <3>2
    <2> QED BY <1>3, <2>1, <2>2
  <1>8. CASE \E k \in 1..n : EventComponents(Ev(batch[k])) \cap peer.index # {}
    <2>1. fan' = [fan EXCEPT !.step = "found", !.batch = batch]
      BY <1>4, <1>8 DEF BusLookup
    <2>2. fan' \in Fan /\ fan'.step = "found" /\ fan'.batch = batch /\ fan'.overflow = fan.overflow
      BY <1>2, <1>5, <2>1 DEF Fan
    <2>3. \A s, i : OnTheWay(s, i) => OnTheWay(s, i)'
      BY <1>1, <1>7, <2>2 DEF OnTheWay
    <2> QED BY <1>1, <1>6, <2>2, <2>3, SamePeer DEF Beside, SessionInv, SessionTypes
  <1>9. CASE ~(\E k \in 1..n : EventComponents(Ev(batch[k])) \cap peer.index # {})
    <2>1. fan' = fan
      BY <1>4, <1>9 DEF BusLookup
    <2>2. \A s \in OpenSubs(peer), i \in EventIds : Matches(peer.subs[s], Ev(i)) => ~(\E k \in DOMAIN batch : batch[k] = i)
      <3> SUFFICES ASSUME NEW s \in OpenSubs(peer), NEW k \in 1..n, Matches(peer.subs[s], Ev(batch[k])) PROVE FALSE
        BY <1>5
      <3>1. FilterComponents(peer.subs[s]) \cap EventComponents(Ev(batch[k])) # {}
        BY MatchedIsFound
      <3>2. peer.index = RegisteredComponents(peer)
        BY DEF SessionInv, Sound, Accounts
      <3>3. FilterComponents(peer.subs[s]) \subseteq peer.index
        BY <3>2 DEF RegisteredComponents
      <3> QED BY <1>9, <3>1, <3>3
    <2>3. \A s \in OpenSubs(peer), i \in EventIds : Matches(peer.subs[s], Ev(i)) /\ OnTheWay(s, i) => OnTheWay(s, i)'
      BY <1>1, <1>7, <2>1, <2>2 DEF OnTheWay
    <2> QED BY <1>1, <1>2, <1>6, <2>1, <2>3, SamePeer DEF Beside, SessionInv, SessionTypes
  <1> QED BY <1>8, <1>9

\* The queue of a connection that was found is collected, under its generation.
LEMMA CollectBeside ==
  ASSUME SessionInv, BusCollect
  PROVE  Beside
  <1>1. UNCHANGED <<peer, access, store, toBus, bus, pc, after, req, page, cur, view, menu>> /\ fan.step = "found"
    BY DEF BusCollect, Others
  <1>2. fan \in Fan
    BY DEF SessionInv, SessionTypes
  <1>3. CASE peer.live = NoQueue
    <2>1. fan' = [fan EXCEPT !.step = "idle", !.batch = <<>>]
      BY <1>3 DEF BusCollect
    <2>2. fan' \in Fan /\ fan'.overflow = fan.overflow
      <3>1. <<>> \in Seq(EventIds)
        OBVIOUS
      <3> QED BY <1>2, <2>1, <3>1 DEF Fan
    <2>3. OpenSubs(peer) = {}
      BY <1>3 DEF SessionInv, Sound, Accounts
    <2> QED BY <1>1, <2>2, <2>3, SamePeer DEF Beside, SessionInv, SessionTypes
  <1>4. CASE peer.live # NoQueue
    <2>1. fan' = [fan EXCEPT !.step = "push", !.gen = peer.live.gen]
      BY <1>4 DEF BusCollect
    <2>2. peer.live.gen \in Nat
      BY <1>4 DEF SessionInv, Sound, ConnRecord, LiveQueue
    <2>3. fan' \in Fan /\ fan'.overflow = fan.overflow /\ fan'.step = "push" /\ fan'.gen = peer.live.gen /\ fan'.batch = fan.batch
      BY <1>2, <2>1, <2>2 DEF Fan
    <2>4. \A s, i : OnTheWay(s, i) => OnTheWay(s, i)'
      BY <1>1, <1>4, <2>3 DEF OnTheWay
    <2> QED BY <1>1, <2>3, <2>4, SamePeer DEF Beside, SessionInv, SessionTypes
  <1> QED BY <1>3, <1>4

\* The batch is in the queue of the connection that was found, or the overflow ends it.
LEMMA PushBeside ==
  ASSUME SessionInv, BusPush
  PROVE  Beside
  <1>1. UNCHANGED <<access, store, toBus, bus, pc, after, req, page, cur, view, menu>> /\ fan.step = "push"
    BY DEF BusPush, Others
  <1>2. fan \in Fan /\ peer \in ConnRecord
    BY DEF SessionInv, SessionTypes, Sound
  <1>3. PICK mine \in BOOLEAN : mine <=> (peer.live # NoQueue /\ peer.live.gen = fan.gen)
    OBVIOUS
  <1>4. PICK full \in BOOLEAN : full <=> (mine /\ Len(peer.live.q) >= QueueLimit)
    OBVIOUS
  <1>5. fan' \in Fan /\ fan'.step = "idle" /\ (fan'.overflow <=> fan.overflow \/ full)
    <2>1. <<>> \in Seq(EventIds) /\ fan.overflow \in BOOLEAN
      BY <1>2 DEF Fan
    <2>2. PICK o \in BOOLEAN : o = (fan.overflow \/ full)
      BY <2>1
    <2>3. fan' = [step |-> "idle", batch |-> <<>>, gen |-> 0, overflow |-> o]
      BY <1>3, <1>4, <2>1, <2>2 DEF BusPush
    <2> QED BY <2>1, <2>2, <2>3 DEF Fan
  <1>6. CASE mine /\ ~full
    <2>1. peer.live \in LiveQueue
      BY <1>2, <1>3, <1>6 DEF ConnRecord
    <2>2. PICK q : q = Append(peer.live.q, fan.batch)
      OBVIOUS
    <2>3. peer.live.q \in Seq(Seq(EventIds)) /\ fan.batch \in Seq(EventIds)
      BY <1>2, <2>1 DEF LiveQueue, Fan
    <2>4. /\ q \in Seq(Seq(EventIds)) /\ Len(q) = Len(peer.live.q) + 1 /\ (\A k \in 1..Len(peer.live.q) : q[k] = peer.live.q[k])
          /\ q[Len(peer.live.q) + 1] = fan.batch
      BY <2>2, <2>3, AppendProperties
    <2>5. DOMAIN q = 1..Len(q) /\ DOMAIN peer.live.q = 1..Len(peer.live.q) /\ Len(peer.live.q) \in Nat
      BY <2>3, <2>4, LenProperties
    <2>6. (\A k \in DOMAIN peer.live.q : k \in DOMAIN q /\ q[k] = peer.live.q[k]) /\ Len(peer.live.q) + 1 \in DOMAIN q
      BY <2>4, <2>5
    <2>7. PICK l : l = [peer.live EXCEPT !.q = q]
      OBVIOUS
    <2>8. l \in LiveQueue /\ l.q = q
      BY <2>1, <2>4, <2>7 DEF LiveQueue
    <2>9. peer' = [peer EXCEPT !.live = l]
      <3>1. peer' = [peer EXCEPT !.live.q = Append(@, fan.batch)]
        BY <1>3, <1>4, <1>6 DEF BusPush
      <3> QED BY <2>2, <2>7, <3>1
    <2>10. But(peer, peer', {"live"}) /\ peer'.live = l
      BY <1>2, <2>8, <2>9 DEF But, ConnRecord, ConnFields
    <2>11. peer'.live # NoQueue /\ peer.live # NoQueue
      BY <1>3, <1>6, <2>8, <2>10, SessionConstants
    <2>12. peer'.pending = peer.pending /\ peer'.out = peer.out
      BY <2>10 DEF But, ConnFields
    <2>13. \A s, i : OnTheWay(s, i) => OnTheWay(s, i)'
      <3> SUFFICES ASSUME NEW s, NEW i, OnTheWay(s, i) PROVE OnTheWay(s, i)'
        OBVIOUS
      <3>1. CASE \E k \in DOMAIN fan.batch : fan.batch[k] = i
        <4>1. \E b \in DOMAIN q : \E k \in DOMAIN q[b] : q[b][k] = i
          BY <2>4, <2>6, <3>1
        <4> QED BY <2>8, <2>10, <2>11, <4>1 DEF OnTheWay
      <3>2. CASE \E b \in DOMAIN peer.live.q : \E k \in DOMAIN peer.live.q[b] : peer.live.q[b][k] = i
        <4>1. \E b \in DOMAIN q : \E k \in DOMAIN q[b] : q[b][k] = i
          BY <2>6, <3>2
        <4> QED BY <2>8, <2>10, <2>11, <4>1 DEF OnTheWay
      <3>3. CASE i \in toBus \/ (\E k \in DOMAIN bus : bus[k] = i) \/ (\E k \in DOMAIN cur : cur[k] = i) \/ Holds(peer, s, i)
        <4>1. Holds(peer, s, i) => Holds(peer', s, i)
          BY <2>12 DEF Holds
        <4> QED BY <1>1, <3>3, <4>1 DEF OnTheWay
      <3> QED BY <3>1, <3>2, <3>3 DEF OnTheWay
    <2> QED BY <1>1, <1>5, <2>10, <2>11, <2>13 DEF Beside, SessionInv, SessionTypes
  <1>7. CASE ~(mine /\ ~full)
    <2>1. peer' = peer
      BY <1>3, <1>4, <1>7 DEF BusPush
    <2>2. ~fan'.overflow => ~mine
      BY <1>4, <1>5, <1>7
    <2>3. ~fan'.overflow => \A s, i : OnTheWay(s, i) => OnTheWay(s, i)'
      <3> HAVE ~fan'.overflow
      <3> QED BY <1>1, <1>3, <2>1, <2>2 DEF OnTheWay
    <2> QED BY <1>1, <1>5, <2>1, <2>3, SamePeer DEF Beside, SessionInv, SessionTypes
  <1> QED BY <1>6, <1>7

\* A flush that panics raises the overflow for whoever has a queue.
LEMMA PanicBeside ==
  ASSUME SessionInv, BusPanic
  PROVE  Beside
  <1>1. UNCHANGED <<peer, access, store, toBus, bus, pc, after, req, page, cur, view, menu>>
    BY DEF BusPanic, Others
  <1>2. fan \in Fan
    BY DEF SessionInv, SessionTypes
  <1>3. fan' \in Fan /\ (fan'.overflow <=> fan.overflow \/ peer.live # NoQueue)
    <2>1. <<>> \in Seq(EventIds) /\ fan.overflow \in BOOLEAN
      BY <1>2 DEF Fan
    <2>2. PICK o \in BOOLEAN : o = (fan.overflow \/ peer.live # NoQueue)
      BY <2>1
    <2>3. fan' = [step |-> "idle", batch |-> <<>>, gen |-> 0, overflow |-> o]
      BY <2>1, <2>2 DEF BusPanic
    <2> QED BY <2>1, <2>2, <2>3 DEF Fan
  <1>4. ~fan'.overflow => OpenSubs(peer) = {}
    BY <1>3 DEF SessionInv, Sound, Accounts
  <1> QED BY <1>1, <1>3, <1>4, SamePeer DEF Beside, SessionInv, SessionTypes

\* The lists and the reload touch nothing of this.
LEMMA AdministratorBeside ==
  ASSUME SessionInv, Administrator
  PROVE  Beside
  <1>1. UNCHANGED <<peer, store, toBus, bus, fan, pc, after, req, page, cur, view, menu>>
    BY DEF Administrator, DenyStart, Deny, Reload, Others
  <1>2. access' \in AccessSeenBy
    <2>1. access \in AccessSeenBy
      BY DEF SessionInv, SessionTypes
    <2>2. CASE DenyStart
      BY <2>1, <2>2 DEF DenyStart, AccessSeenBy
    <2>3. CASE \E k \in Keys : Deny(k)
      <3>1. PICK k \in Keys : Deny(k)
        BY <2>3
      <3>0. access.denied \in SUBSET Keys
        BY <2>1 DEF AccessSeenBy
      <3>4. access.denied \cup {k} \in SUBSET Keys
        BY <3>0
      <3>2. PICK D : D = access.denied \cup {k} /\ D \in SUBSET Keys
        BY <3>4
      <3>3. access' = [access EXCEPT !.busy = FALSE, !.denied = D, !.seen = FALSE]
        BY <3>1, <3>2 DEF Deny
      <3> QED BY <2>1, <3>2, <3>3 DEF AccessSeenBy
    <2>4. CASE Reload
      BY <2>1, <2>4 DEF Reload, AccessSeenBy
    <2> QED BY <2>2, <2>3, <2>4 DEF Administrator
  <1>3. \A s, i : OnTheWay(s, i) => OnTheWay(s, i)'
    BY <1>1 DEF OnTheWay
  <1> QED BY <1>1, <1>2, <1>3, SamePeer DEF Beside, SessionInv, SessionTypes

-----------------------------------------------------------------------------
(* The task's own steps *)

\* A step of the task that keeps the accounts, the types, its place and the promises keeps the invariant.
LEMMA TaskStep ==
  ASSUME SessionInv, Sound(peer'), SessionTypes', TaskAt', KeepsPromises, UNCHANGED <<store, toBus, bus, fan, cur>>,
         pc' # "answer", pc \in {"teardown", "gone"} => pc' \in {"teardown", "gone"}
  PROVE  SessionInv'
  BY PromisesKept, AnswerElse DEF SessionInv

\* The task is at a place where no REQ is in hand.
LEMMA AtElsewhere ==
  ASSUME SessionInv, UNCHANGED cur, after' \in {"select", "top", "enqueue", "relieve"},
         pc' \notin {"enqueue", "pump", "query", "answer"}, pc' = "drain" => after' # "enqueue",
         cur # <<>> => pc' \in {"deliver", "relieve", "teardown"}
  PROVE  TaskAt'
  BY DEF TaskAt

\* Live events are in hand only while a batch is delivered.
LEMMA NothingInHand ==
  ASSUME SessionInv
  PROVE  /\ pc \in {"drain", "select", "window", "enqueue", "query", "answer"} => cur = <<>>
         /\ pc = "pump" /\ after # "relieve" => cur = <<>>
         /\ after \in {"select", "top", "enqueue", "relieve"}
  BY DEF SessionInv, TaskAt

\* The types stand when nothing typed moves.
LEMMA SameTypes ==
  ASSUME SessionInv, UNCHANGED <<access, page, cur, bus, fan, view, store, menu>>
  PROVE  SessionTypes'
  BY DEF SessionInv, SessionTypes

\* The cached verdict, the cached requirement and the keys are aside.
LEMMA CacheKeeps ==
  ASSUME NEW cn, Sound(cn), NEW b \in BOOLEAN
  PROVE  /\ LET d == [cn EXCEPT !.cache = b]
            IN  Sound(d) /\ Preserves(cn, d) /\ But(cn, d, {"cache"}) /\ OpenSubs(d) = OpenSubs(cn) /\ \A x, i : Holds(cn, x, i) => Holds(d, x, i)
         /\ LET d == [cn EXCEPT !.reqAuth = b]
            IN  Sound(d) /\ Preserves(cn, d) /\ But(cn, d, {"reqAuth"}) /\ OpenSubs(d) = OpenSubs(cn)
  <1>1. cn \in ConnRecord
    BY DEF Sound
  <1>2. PICK d : d = [cn EXCEPT !.cache = b]
    OBVIOUS
  <1>3. But(cn, d, {"cache"})
    BY <1>1, <1>2 DEF But, ConnRecord, ConnFields
  <1>4. But(cn, d, Aside)
    BY <1>3 DEF But, Aside
  <1>5. Sound(d) /\ Preserves(cn, d) /\ OpenSubs(d) = OpenSubs(cn)
    BY <1>4, OnlyAside
  <1>6. d.out = cn.out /\ d.pending = cn.pending
    BY <1>3 DEF But, ConnFields
  <1>7. \A x, i : Holds(cn, x, i) => Holds(d, x, i)
    BY <1>6 DEF Holds
  <1>8. PICK e : e = [cn EXCEPT !.reqAuth = b]
    OBVIOUS
  <1>9. But(cn, e, {"reqAuth"})
    BY <1>1, <1>8 DEF But, ConnRecord, ConnFields
  <1>10. But(cn, e, Aside)
    BY <1>9 DEF But, Aside
  <1>11. Sound(e) /\ Preserves(cn, e) /\ OpenSubs(e) = OpenSubs(cn)
    BY <1>10, OnlyAside
  <1> QED BY <1>2, <1>3, <1>5, <1>7, <1>8, <1>9, <1>11

\* The verdicts are Booleans.
LEMMA VerdictType ==
  ASSUME SessionInv, NEW cn \in ConnRecord
  PROVE  Verdict(cn) \in BOOLEAN /\ SyncVerdict(cn) \in BOOLEAN /\ access.cfgAuth \in BOOLEAN
  <1>1. cn.cache \in BOOLEAN
    BY DEF ConnRecord
  <1>2. access.cfgAuth \in BOOLEAN
    BY DEF SessionInv, SessionTypes, AccessSeenBy
  <1> QED BY <1>1, <1>2 DEF Verdict, SyncVerdict

\* Steps that only move the task, or a field aside.
LEMMA MoveKeeps ==
  ASSUME SessionInv, EndWindow \/ DeliverDone \/ RelieveDone \/ FlushWake \/ Stop \/ DrainDone
  PROVE  SessionInv'
  <1>0. UNCHANGED <<page, cur, access, view, store, toBus, bus, fan, menu>> /\ Sound(peer) /\ peer \in ConnRecord
    BY DEF EndWindow, DeliverDone, RelieveDone, FlushWake, Stop, DrainDone, relayVars, SessionInv, Sound
  <1>1. Sound(peer') /\ Preserves(peer, peer')
    <2>1. CASE peer' = peer
      BY <1>0, <2>1, KeepsSelf
    <2>2. CASE DrainDone
      <3>1. PICK b \in BOOLEAN : b = access.cfgAuth
        BY <1>0, VerdictType
      <3>2. peer' = [peer EXCEPT !.reqAuth = b]
        BY <2>2, <3>1 DEF DrainDone
      <3> QED BY <1>0, <3>2, CacheKeeps
    <2> QED BY <2>1, <2>2 DEF EndWindow, DeliverDone, RelieveDone, FlushWake, Stop
  <1>2. TaskAt'
    <2>1. CASE EndWindow \/ DeliverDone \/ FlushWake
      <3>1. cur = <<>>
        BY <2>1, NothingInHand DEF EndWindow, DeliverDone, FlushWake
      <3> QED BY <1>0, <2>1, <3>1, AtElsewhere DEF EndWindow, DeliverDone, FlushWake, LoopTop
    <2>2. CASE RelieveDone \/ Stop
      BY <1>0, <2>2, NothingInHand, AtElsewhere DEF RelieveDone, Stop
    <2>3. CASE DrainDone
      <3>1. cur = <<>> /\ pc' = "pump" /\ after' = after /\ after # "enqueue" /\ after \in {"select", "top", "enqueue", "relieve"}
        BY <2>3, NothingInHand DEF DrainDone, SessionInv, TaskAt
      <3> QED BY <1>0, <3>1 DEF TaskAt
    <2> QED BY <2>1, <2>2, <2>3
  <1>3. pc' # "answer" /\ pc \notin {"teardown", "gone"}
    BY DEF EndWindow, DeliverDone, RelieveDone, FlushWake, Stop, DrainDone, LoopTop
  <1>4. KeepsPromises
    BY <1>0, <1>1, KeepsKept DEF Sound
  <1>5. SessionTypes'
    BY <1>0, SameTypes
  <1> QED BY <1>0, <1>1, <1>2, <1>3, <1>4, <1>5, TaskStep

\* The watches: the lists are applied, or every subscription is closed.
LEMMA EnforceKeeps ==
  ASSUME SessionInv, NEW cn, Sound(cn)
  PROVE  Sound(Enforce(cn)) /\ Preserves(cn, Enforce(cn))
  <1>1. PICK b \in BOOLEAN : b = Verdict(cn)
    BY VerdictType DEF Sound
  <1>2. PICK d : d = [cn EXCEPT !.cache = b]
    OBVIOUS
  <1>3. Sound(d) /\ Preserves(cn, d)
    BY <1>2, CacheKeeps
  <1>4. OpenSubs(d) \subseteq SubIds
    BY DEF OpenSubs
  <1>5. PICK e : e = RejectAll(d, OpenSubs(d))
    OBVIOUS
  <1>6. Sound(e) /\ Preserves(d, e)
    BY <1>3, <1>4, <1>5, RejectAllKeeps
  <1>7. Preserves(cn, e)
    BY <1>3, <1>6, KeepsTwice
  <1>8. Enforce(cn) = d \/ Enforce(cn) = e
    BY <1>1, <1>2, <1>5 DEF Enforce, CloseAllSubs
  <1> QED BY <1>3, <1>6, <1>7, <1>8

\* The access watch and the configuration watch.
LEMMA WatchKeeps ==
  ASSUME SessionInv, AccessSeen \/ ConfigSeen
  PROVE  SessionInv'
  <1>0. UNCHANGED <<page, cur, view, store, toBus, bus, fan, menu>> /\ Sound(peer) /\ pc = "select" /\ LoopTop(peer')
    BY DEF AccessSeen, ConfigSeen, relayVars, SessionInv
  <1>1. Sound(peer') /\ Preserves(peer, peer')
    <2>1. CASE AccessSeen
      BY <1>0, <2>1, EnforceKeeps DEF AccessSeen
    <2>2. CASE ConfigSeen
      <3>1. PICK b \in BOOLEAN : b = access.cfgAuth
        BY <1>0, VerdictType DEF Sound
      <3>2. PICK d : d = [peer EXCEPT !.reqAuth = b]
        OBVIOUS
      <3>3. Sound(d) /\ Preserves(peer, d)
        BY <1>0, <3>2, CacheKeeps
      <3>4. peer' = Enforce(d)
        BY <2>2, <3>1, <3>2 DEF ConfigSeen
      <3>5. Sound(peer') /\ Preserves(d, peer')
        BY <3>3, <3>4, EnforceKeeps
      <3> QED BY <3>3, <3>5, KeepsTwice
    <2> QED BY <2>1, <2>2
  <1>2. TaskAt'
    <2>1. cur = <<>>
      BY <1>0, NothingInHand
    <2> QED BY <1>0, <2>1, AtElsewhere DEF LoopTop
  <1>3. pc' # "answer"
    BY <1>0 DEF LoopTop
  <1>4. KeepsPromises
    BY <1>0, <1>1, KeepsKept DEF Sound
  <1>5. SessionTypes'
    <2>1. access \in AccessSeenBy
      BY DEF SessionInv, SessionTypes
    <2>2. access' \in AccessSeenBy
      BY <2>1 DEF AccessSeen, ConfigSeen, AccessSeenBy
    <2> QED BY <1>0, <2>2 DEF SessionInv, SessionTypes
  <1> QED BY <1>0, <1>1, <1>2, <1>3, <1>4, <1>5, TaskStep

\* COUNT and AUTH.
LEMMA CountKeeps ==
  ASSUME SessionInv, NEW s \in SubIds, NEW m \in BOOLEAN, HandleCount(s, m)
  PROVE  SessionInv'
  <1>0. UNCHANGED <<after, page, cur, access, view, store, toBus, bus, fan, menu>> /\ Sound(peer) /\ pc \in {"select", "window"} /\ pc' = "window"
    BY DEF HandleCount, Reading, relayVars, SessionInv
  <1>1. PICK b \in BOOLEAN : b = Verdict(peer)
    BY <1>0, VerdictType DEF Sound
  <1>2. PICK cn : cn = [peer EXCEPT !.cache = b]
    OBVIOUS
  <1>3. Sound(cn) /\ Preserves(peer, cn)
    BY <1>0, <1>2, CacheKeeps
  <1>4. peer' = Reject(cn, s) \/ peer' = SendControl(cn, Plain("COUNT"))
    BY <1>1, <1>2 DEF HandleCount
  <1>5. Sound(peer') /\ Preserves(cn, peer')
    <2>1. CASE peer' = Reject(cn, s)
      BY <1>3, <2>1, RejectKeeps
    <2>2. CASE peer' = SendControl(cn, Plain("COUNT"))
      <3>1. PICK f \in Frame : f = Plain("COUNT")
        BY <1>3, Frames DEF Sound
      <3>2. peer' = SendControl(cn, f)
        BY <2>2, <3>1
      <3> QED BY <1>3, <3>2, SendControlKeeps
    <2> QED BY <1>4, <2>1, <2>2
  <1>6. Preserves(peer, peer')
    BY <1>3, <1>5, KeepsTwice
  <1>7. TaskAt'
    <2>1. cur = <<>> /\ after \in {"select", "top", "enqueue", "relieve"}
      BY <1>0, NothingInHand
    <2> QED BY <1>0, <2>1, AtElsewhere
  <1>8. KeepsPromises
    BY <1>0, <1>5, <1>6, KeepsKept DEF Sound
  <1>9. SessionTypes'
    BY <1>0, SameTypes
  <1> QED BY <1>0, <1>5, <1>7, <1>8, <1>9, TaskStep

\* handle_auth keeps the invariant.
LEMMA AuthKeeps ==
  ASSUME SessionInv, NEW k \in Keys, HandleAuth(k)
  PROVE  SessionInv'
  <1>0. UNCHANGED <<after, page, cur, access, view, store, toBus, bus, fan, menu>> /\ Sound(peer) /\ pc \in {"select", "window"} /\ pc' = "window"
    BY DEF HandleAuth, Reading, relayVars, SessionInv
  <1>1. PICK n, A : n = peer.auths + 1 /\ A = IF peer.auths >= MaxAuths THEN peer.authed ELSE peer.authed \cup {k}
    <2>1. PICK n : n = peer.auths + 1
      OBVIOUS
    <2>2. PICK A : A = IF peer.auths >= MaxAuths THEN peer.authed ELSE peer.authed \cup {k}
      BY Zenon
    <2> QED BY <2>1, <2>2
  <1>2. PICK cn : cn = [peer EXCEPT !.auths = n, !.authed = A]
    OBVIOUS
  <1>3. peer \in ConnRecord /\ peer.authed \in SUBSET Keys /\ peer.auths \in Nat
    BY <1>0 DEF Sound, ConnRecord
  <1>4. n \in Nat
    BY <1>1, <1>3
  <1>5. A \in SUBSET Keys
    BY <1>1, <1>3
  <1>6. But(peer, cn, Aside)
    BY <1>2, <1>3, <1>4, <1>5 DEF But, ConnRecord, ConnFields, Aside
  <1>7. Sound(cn) /\ Preserves(peer, cn)
    BY <1>0, <1>6, OnlyAside
  <1>8. PICK f \in Frame : f = Plain("OK")
    <2>1. Plain("OK") \in Frame
      BY DEF Plain, Frame
    <2> QED BY <2>1
  <1>9. peer' = SendControl(cn, f)
    BY <1>1, <1>2, <1>8 DEF HandleAuth
  <1>10. Sound(peer') /\ Preserves(cn, peer')
    BY <1>7, <1>9, SendControlKeeps
  <1>11. Preserves(peer, peer')
    BY <1>7, <1>10, KeepsTwice
  <1>12. TaskAt'
    <2>1. cur = <<>> /\ after \in {"select", "top", "enqueue", "relieve"}
      BY <1>0, NothingInHand
    <2> QED BY <1>0, <2>1, AtElsewhere
  <1>13. KeepsPromises
    BY <1>0, <1>10, <1>11, KeepsKept DEF Sound
  <1>14. SessionTypes'
    BY <1>0, SameTypes
  <1> QED BY <1>0, <1>10, <1>12, <1>13, <1>14, TaskStep

\* One iteration of the pump: what has no response pending stays open.
LEMMA PumpStep ==
  ASSUME SessionInv, pc = "pump", Sound(peer'), Preserves(peer, peer'), \A s \in OpenSubs(peer) \ Asks(peer) : s \in OpenSubs(peer'),
         UNCHANGED <<req, page, cur, access, relayVars, view>>, UNCHANGED <<pc, after>> \/ PumpReturns
  PROVE  SessionInv'
  <1>0. UNCHANGED <<req, page, cur, access, view, store, toBus, bus, fan, menu>>
    BY DEF relayVars
  <1>1. Asking /\ req.sub \notin Asks(peer) => Asking' /\ req'.sub \notin Asks(peer')
    BY <1>0 DEF Asking, Preserves
  <1>2. after \in {"select", "top", "enqueue", "relieve"} /\ (after # "relieve" => cur = <<>>)
    BY NothingInHand
  <1>3. (pc' = "pump" /\ after' = after) \/ (pc' = after /\ after' = after /\ after # "top") \/ (pc' \in {"teardown", "drain"} /\ after' = "select" /\ after = "top")
    BY DEF PumpReturns, LoopTop
  <1>4. TaskAt'
    <2>1. CASE pc' = "pump" /\ after' = after
      BY <1>0, <1>1, <2>1 DEF TaskAt, SessionInv
    <2>2. CASE pc' = after /\ after' = after /\ after # "top"
      BY <1>0, <1>1, <1>2, <2>2 DEF TaskAt, SessionInv
    <2>3. CASE pc' \in {"teardown", "drain"} /\ after' = "select" /\ after = "top"
      BY <1>0, <1>2, <2>3 DEF TaskAt
    <2> QED BY <1>3, <2>1, <2>2, <2>3
  <1>5. pc' # "answer"
    BY <1>2, <1>3
  <1>6. KeepsPromises
    BY <1>0, KeepsKept DEF Sound
  <1>7. SessionTypes'
    BY <1>0, SameTypes
  <1> QED BY <1>0, <1>4, <1>5, <1>6, <1>7, TaskStep

\* The response at the head.
LEMMA HeadResponse ==
  ASSUME NEW cn, Sound(cn), cn.pending # <<>>
  PROVE  \E p \in Response : /\ p = Head(cn.pending) /\ p = cn.pending[1] /\ 1 \in 1..Len(cn.pending) /\ p.sub \in SubIds
                             /\ p.sub \in Asks(cn) /\ p.evs \in Seq(EventIds) /\ p.live \in Seq(EventIds) /\ p.reserved \in Nat /\ p.sent \in Nat
  <1>1. cn.pending \in Seq(Response)
    BY DEF Sound, ConnRecord
  <1>2. PICK p \in Response : p = Head(cn.pending) /\ p = cn.pending[1]
    BY <1>1, HeadTailProperties
  <1>3. 1 \in 1..Len(cn.pending)
    BY <1>1, LenProperties, EmptySeq
  <1>4. p.sub \in SubIds /\ p.evs \in Seq(EventIds) /\ p.live \in Seq(EventIds) /\ p.reserved \in Nat /\ p.sent \in Nat
    BY DEF Response
  <1>5. p.sub \in Asks(cn)
    BY <1>2, <1>3 DEF Asks
  <1> QED BY <1>2, <1>3, <1>4, <1>5

\* The head response gives its first event to the queue.
Listed(q, j) == \E n \in DOMAIN q : q[n] = j

\* An element of a sequence is its first or in the rest.
LEMMA HeadMoves ==
  ASSUME NEW q \in Seq(EventIds), q # <<>>, NEW j, Listed(q, j)
  PROVE  j = Head(q) \/ Listed(Tail(q), j)
  <1>1. /\ Head(q) \in EventIds /\ Head(q) = q[1] /\ Tail(q) \in Seq(EventIds) /\ Len(Tail(q)) = Len(q) - 1
        /\ \A n \in 1..Len(Tail(q)) : Tail(q)[n] = q[n + 1]
    BY HeadTailProperties
  <1>2. PICK t : t = Tail(q)
    OBVIOUS
  <1>3. t \in Seq(EventIds) /\ Len(t) = Len(q) - 1 /\ \A n \in 1..Len(t) : t[n] = q[n + 1]
    BY <1>1, <1>2
  <1>4. PICK n \in DOMAIN q : q[n] = j
    BY DEF Listed
  <1>5. DOMAIN q = 1..Len(q) /\ DOMAIN t = 1..Len(t) /\ Len(q) \in Nat
    BY <1>3, LenProperties
  <1>6. CASE n = 1
    BY <1>1, <1>4, <1>6
  <1>7. CASE n # 1
    <2>1. n - 1 \in 1..Len(t) /\ (n - 1) + 1 = n
      BY <1>3, <1>5, <1>7
    <2>2. t[n - 1] = j
      BY <1>3, <1>4, <2>1
    <2> QED BY <1>2, <1>5, <2>1, <2>2 DEF Listed
  <1> QED BY <1>6, <1>7

\* An event of the head response goes out: r is what is left of it.
HeadOut(cn, d, r, live, i, b) ==
    d = [cn EXCEPT !.out = Append(@, EventFrame(cn, r.sub, live, i)), !.pending[1] = r, !.cache = b]

\* The subscription still has it: in the queue now.
LEMMA EventGoesOut ==
  ASSUME NEW cn, Sound(cn), cn.pending # <<>>, NEW i \in EventIds, NEW r \in Response, r.sub = cn.pending[1].sub,
         r.reserved = cn.pending[1].reserved, \A j : Has(cn.pending[1], j) => j = i \/ Has(r, j), NEW live \in BOOLEAN, NEW b \in BOOLEAN,
         NEW d, HeadOut(cn, d, r, live, i, b)
  PROVE  Sound(d) /\ Preserves(cn, d) /\ OpenSubs(d) = OpenSubs(cn)
  <1>1. PICK p \in Response : p = cn.pending[1] /\ 1 \in 1..Len(cn.pending) /\ p.sub \in SubIds /\ p.reserved \in Nat
    BY HeadResponse
  <1>2. cn \in ConnRecord /\ cn.pending \in Seq(Response) /\ cn.out \in Seq(Frame) /\ cn.reserved \in Int
    BY DEF Sound, ConnRecord
  <1>3. PICK f : f \in Frame /\ f = EventFrame(cn, r.sub, live, i) /\ f.t = "EVENT" /\ f.sub = r.sub /\ f.ev = i
    <2>1. r.sub \in SubIds
      BY <1>1
    <2> QED BY <1>2, <2>1, Frames
  <1>4. PICK o : o = Append(cn.out, f)
    OBVIOUS
  <1>5. o \in Seq(Frame) /\ (\A x, j : Queued(cn.out, x, j) => Queued(o, x, j)) /\ Queued(o, r.sub, i)
    BY <1>2, <1>3, <1>4, QueuedMore
  <1>6. PICK q : q = [cn.pending EXCEPT ![1] = r]
    OBVIOUS
  <1>7. q \in Seq(Response)
    <2>1. cn.pending \in [1..Len(cn.pending) -> Response] /\ Len(cn.pending) \in Nat
      BY <1>2, LenProperties, ElementOfSeq
    <2>2. q \in [1..Len(cn.pending) -> Response]
      BY <1>1, <1>6, <2>1
    <2> QED BY <2>1, <2>2
  <1>8. d = [cn EXCEPT !.out = o, !.pending = q, !.cache = b]
    BY <1>3, <1>4, <1>6 DEF HeadOut
  <1>9. But(cn, d, {"out", "pending", "cache"}) /\ d.out = o /\ d.pending = q
    BY <1>2, <1>5, <1>7, <1>8 DEF But, ConnRecord, ConnFields
  <1>10. But(cn, d, Aside \cup {"out", "pending", "reserved", "full"}) /\ d.reserved = cn.reserved /\ d.full = cn.full
    BY <1>9 DEF But, ConnFields, Aside
  <1>11. d.reserved = cn.reserved - cn.pending[1].reserved + r.reserved
    BY <1>1, <1>2, <1>10
  <1>12. /\ Sound(d) /\ Asks(d) = Asks(cn) /\ OpenSubs(d) = OpenSubs(cn) /\ d.subs = cn.subs /\ d.live = cn.live
         /\ \A x, j : Responding(cn.pending, x, j) => Responding(d.pending, x, j) \/ (x = r.sub /\ Has(cn.pending[1], j))
         /\ \A j : Has(r, j) => Responding(d.pending, r.sub, j)
    <2>1. d.pending = [cn.pending EXCEPT ![1] = r]
      BY <1>6, <1>9
    <2>2. PICK k \in 1..Len(cn.pending) : k = 1
      BY <1>1
    <2>3. r.sub = cn.pending[k].sub /\ d.pending = [cn.pending EXCEPT ![k] = r] /\ d.reserved = cn.reserved - cn.pending[k].reserved + r.reserved
      BY <1>11, <2>1, <2>2
    <2>4. /\ Sound(d) /\ Asks(d) = Asks(cn) /\ OpenSubs(d) = OpenSubs(cn) /\ d.subs = cn.subs /\ d.live = cn.live
          /\ \A x, j : Responding(cn.pending, x, j) => Responding(d.pending, x, j) \/ (x = r.sub /\ Has(cn.pending[k], j))
          /\ \A j : Has(r, j) => Responding(d.pending, r.sub, j)
      BY <1>10, <2>3, PendingPut
    <2> QED BY <2>2, <2>4
  <1>13. \A x, j : Responding(cn.pending, x, j) => Responding(d.pending, x, j) \/ (x = r.sub /\ j = i)
    BY <1>12
  <1>14. \A x, j : Holds(cn, x, j) => Holds(d, x, j)
    BY <1>5, <1>9, <1>13 DEF Holds
  <1>15. Preserves(cn, d)
    BY <1>10, <1>12, <1>14 DEF Preserves
  <1> QED BY <1>12, <1>15

\* The pump queues a stored event.
LEMMA PumpEventKeeps ==
  ASSUME SessionInv, peer.pending # <<>>, PumpEvent
  PROVE  Sound(peer') /\ Preserves(peer, peer') /\ OpenSubs(peer') = OpenSubs(peer)
  <1>0. Sound(peer) /\ peer \in ConnRecord
    BY DEF SessionInv, Sound
  <1>1. PICK p \in Response : p = Head(peer.pending) /\ p = peer.pending[1] /\ p.evs \in Seq(EventIds) /\ p.sent \in Nat
                              /\ 1 \in 1..Len(peer.pending)
    BY <1>0, HeadResponse
  <1>2. PICK q : q = p.evs /\ q \in Seq(EventIds) /\ q # <<>>
    BY <1>1 DEF PumpEvent
  <1>3. PICK i, t, n : i = Head(q) /\ t = Tail(q) /\ n = p.sent + 1
    OBVIOUS
  <1>4. i \in EventIds /\ t \in Seq(EventIds)
    BY <1>2, <1>3, HeadTailProperties
  <1>5. n \in Nat
    BY <1>1, <1>3
  <1>6. PICK r : r = [p EXCEPT !.evs = t, !.sent = n]
    OBVIOUS
  <1>7. r \in Response /\ r.sub = p.sub /\ r.reserved = p.reserved /\ r.evs = t /\ r.live = p.live
    BY <1>4, <1>5, <1>6 DEF Response
  <1>8. \A j : Has(p, j) => j = i \/ Has(r, j)
    <2> SUFFICES ASSUME NEW j, Has(p, j) PROVE j = i \/ Has(r, j)
      OBVIOUS
    <2>1. CASE Listed(q, j)
      <3>1. j = i \/ Listed(t, j)
        BY <1>2, <1>3, <2>1, HeadMoves
      <3> QED BY <1>7, <3>1 DEF Has, Listed
    <2>2. CASE Listed(p.live, j)
      BY <1>7, <2>2 DEF Has, Listed
    <2> QED BY <1>2, <2>1, <2>2 DEF Has, Listed
  <1>9. PICK b \in BOOLEAN : b = SyncVerdict(peer)
    BY <1>0, VerdictType
  <1>10. PICK l \in BOOLEAN : l = FALSE
    OBVIOUS
  <1>11. HeadOut(peer, peer', r, l, i, b)
    <2>1. peer' = [peer EXCEPT !.out = Append(@, EventFrame(peer, p.sub, FALSE, i)), !.pending[1] = [p EXCEPT !.evs = t, !.sent = n], !.cache = b]
      BY <1>1, <1>2, <1>3, <1>9 DEF PumpEvent
    <2> QED BY <1>6, <1>7, <1>10, <2>1 DEF HeadOut
  <1>12. r.sub = peer.pending[1].sub /\ r.reserved = peer.pending[1].reserved /\ \A j : Has(peer.pending[1], j) => j = i \/ Has(r, j)
    BY <1>1, <1>7, <1>8
  <1> QED BY <1>0, <1>4, <1>7, <1>11, <1>12, EventGoesOut

\* The head response changes, and has what it had.
HeadPut(cn, d, r) == d.pending = [cn.pending EXCEPT ![1] = r]

\* Nothing is lost.
LEMMA HeadPutKeeps ==
  ASSUME NEW cn, Sound(cn), cn.pending # <<>>, NEW r \in Response, r.sub = cn.pending[1].sub, r.reserved = cn.pending[1].reserved,
         \A j : Has(cn.pending[1], j) => Has(r, j), NEW d, But(cn, d, {"pending", "cache"}), HeadPut(cn, d, r)
  PROVE  Sound(d) /\ Preserves(cn, d) /\ OpenSubs(d) = OpenSubs(cn)
  <1>1. PICK p \in Response : p = cn.pending[1] /\ 1 \in 1..Len(cn.pending) /\ p.reserved \in Nat
    BY HeadResponse
  <1>2. cn \in ConnRecord /\ cn.reserved \in Int
    BY DEF Sound, ConnRecord
  <1>3. /\ But(cn, d, Aside \cup {"out", "pending", "reserved", "full"}) /\ d.reserved = cn.reserved /\ d.full = cn.full /\ d.out = cn.out
        /\ d.subs = cn.subs /\ d.live = cn.live
    BY DEF But, ConnFields, Aside
  <1>4. d.reserved = cn.reserved - cn.pending[1].reserved + r.reserved
    BY <1>1, <1>2, <1>3
  <1>5. PICK k \in 1..Len(cn.pending) : k = 1
    BY <1>1
  <1>6. r.sub = cn.pending[k].sub /\ d.pending = [cn.pending EXCEPT ![k] = r] /\ d.reserved = cn.reserved - cn.pending[k].reserved + r.reserved
    BY <1>4, <1>5 DEF HeadPut
  <1>7. /\ Sound(d) /\ Asks(d) = Asks(cn) /\ OpenSubs(d) = OpenSubs(cn) /\ d.subs = cn.subs /\ d.live = cn.live
        /\ \A x, j : Responding(cn.pending, x, j) => Responding(d.pending, x, j) \/ (x = r.sub /\ Has(cn.pending[k], j))
        /\ \A j : Has(r, j) => Responding(d.pending, r.sub, j)
    <2>1. But(cn, d, Aside \cup {"out", "pending", "reserved", "full"})
      BY <1>3
    <2> QED BY <1>6, <2>1, PendingPut
  <1>8. \A x, j : Responding(cn.pending, x, j) => Responding(d.pending, x, j)
    BY <1>5, <1>7
  <1>9. \A x, j : Holds(cn, x, j) => Holds(d, x, j)
    BY <1>3, <1>8 DEF Holds
  <1> QED BY <1>3, <1>7, <1>9 DEF Preserves

\* The pump queues the EOSE.
LEMMA PumpEoseKeeps ==
  ASSUME SessionInv, peer.pending # <<>>, PumpEose
  PROVE  Sound(peer') /\ Preserves(peer, peer') /\ OpenSubs(peer') = OpenSubs(peer)
  <1>0. Sound(peer) /\ peer \in ConnRecord /\ peer.pending \in Seq(Response)
    BY DEF SessionInv, Sound, ConnRecord
  <1>1. PICK p \in Response : p = Head(peer.pending) /\ p = peer.pending[1] /\ p.sub \in SubIds /\ 1 \in 1..Len(peer.pending)
    BY <1>0, HeadResponse
  <1>2. PICK r : r = [p EXCEPT !.eose = TRUE]
    OBVIOUS
  <1>3. r \in Response /\ r.sub = p.sub /\ r.reserved = p.reserved /\ r.evs = p.evs /\ r.live = p.live
    BY <1>2 DEF Response
  <1>4. \A j : Has(peer.pending[1], j) => Has(r, j)
    BY <1>1, <1>3 DEF Has
  <1>5. PICK b \in BOOLEAN : b = SyncVerdict(peer)
    BY <1>0, VerdictType
  <1>6. PICK q : q = [peer.pending EXCEPT ![1] = r]
    OBVIOUS
  <1>7. q \in Seq(Response)
    <2>1. peer.pending \in [1..Len(peer.pending) -> Response] /\ Len(peer.pending) \in Nat
      BY <1>0, LenProperties, ElementOfSeq
    <2>2. q \in [1..Len(peer.pending) -> Response]
      BY <1>1, <1>3, <1>6, <2>1
    <2> QED BY <2>1, <2>2
  <1>8. PICK d : d = [peer EXCEPT !.pending = q, !.cache = b]
    OBVIOUS
  <1>9. But(peer, d, {"pending", "cache"}) /\ d.pending = q
    BY <1>0, <1>7, <1>8 DEF But, ConnRecord, ConnFields
  <1>10. Sound(d) /\ Preserves(peer, d) /\ OpenSubs(d) = OpenSubs(peer)
    <2>1. r.sub = peer.pending[1].sub /\ r.reserved = peer.pending[1].reserved /\ HeadPut(peer, d, r)
      BY <1>1, <1>3, <1>6, <1>9 DEF HeadPut
    <2> QED BY <1>0, <1>3, <1>4, <1>9, <2>1, HeadPutKeeps
  <1>11. peer' = FinishPendingReq(d, p)
    BY <1>1, <1>2, <1>5, <1>6, <1>8 DEF PumpEose
  <1>12. Sound(peer') /\ Preserves(d, peer') /\ But(d, peer', {"out", "ctlOver"})
    BY <1>1, <1>10, <1>11, FinishKeeps
  <1>13. Preserves(peer, peer')
    BY <1>10, <1>12, KeepsTwice
  <1>14. OpenSubs(peer') = OpenSubs(d)
    BY <1>12 DEF But, ConnFields, OpenSubs
  <1> QED BY <1>10, <1>12, <1>13, <1>14

\* The response at the head ends, with nothing left in it for an open subscription.
LEMMA HeadEndsKeeps ==
  ASSUME NEW cn, Sound(cn), cn.pending # <<>>, Head(cn.pending).sub \notin OpenSubs(cn) \/ \A j : ~Has(Head(cn.pending), j)
  PROVE  LET d == [cn EXCEPT !.pending = Tail(@), !.reserved = @ - Head(cn.pending).reserved]
         IN  Sound(d) /\ Preserves(cn, d) /\ OpenSubs(d) = OpenSubs(cn)
  <1>0. cn \in ConnRecord /\ cn.pending \in Seq(Response) /\ cn.reserved \in Int
    BY DEF Sound, ConnRecord
  <1>1. PICK p \in Response : p = Head(cn.pending) /\ p.reserved \in Nat
    BY HeadResponse
  <1>2. PICK t, n : t = Tail(cn.pending) /\ n = cn.reserved - p.reserved
    OBVIOUS
  <1>3. t \in Seq(Response)
    BY <1>0, <1>2, HeadTailProperties
  <1>4. n \in Int
    BY <1>0, <1>1, <1>2
  <1>5. PICK d : d = [cn EXCEPT !.pending = t, !.reserved = n]
    OBVIOUS
  <1>6. But(cn, d, {"pending", "reserved"}) /\ d.pending = t /\ d.reserved = n
    BY <1>0, <1>3, <1>4, <1>5 DEF But, ConnRecord, ConnFields
  <1>7. But(cn, d, Aside \cup {"out", "pending", "reserved", "full"}) /\ d.full = cn.full /\ d.out = cn.out
    BY <1>6 DEF But, ConnFields, Aside
  <1>8. /\ Sound(d) /\ Asks(d) \subseteq Asks(cn) /\ OpenSubs(d) = OpenSubs(cn) /\ d.subs = cn.subs /\ d.live = cn.live
        /\ \A x, j : Responding(cn.pending, x, j) => Responding(d.pending, x, j) \/ (x = Head(cn.pending).sub /\ Has(Head(cn.pending), j))
    <2>1. d.pending = Tail(cn.pending) /\ d.reserved = cn.reserved - Head(cn.pending).reserved
      BY <1>1, <1>2, <1>6
    <2> QED BY <1>7, <2>1, PendingTail
  <1>9. \A x \in OpenSubs(cn) : \A j : Responding(cn.pending, x, j) => Responding(d.pending, x, j)
    BY <1>8
  <1>10. \A x \in OpenSubs(cn) : \A j : Holds(cn, x, j) => Holds(d, x, j)
    BY <1>7, <1>9 DEF Holds
  <1>11. Preserves(cn, d)
    BY <1>7, <1>8, <1>10 DEF Preserves
  <1>12. d = [cn EXCEPT !.pending = Tail(@), !.reserved = @ - Head(cn.pending).reserved]
    BY <1>1, <1>2, <1>5
  <1> QED BY <1>8, <1>11, <1>12

\* The pump queues a live event held back, or ends the response.
LEMMA PumpLiveKeeps ==
  ASSUME SessionInv, peer.pending # <<>>, PumpLive
  PROVE  Sound(peer') /\ Preserves(peer, peer') /\ OpenSubs(peer') = OpenSubs(peer)
  <1>0. Sound(peer) /\ peer \in ConnRecord /\ peer.cache \in BOOLEAN
    BY DEF SessionInv, Sound, ConnRecord
  <1>1. PICK p \in Response : p = Head(peer.pending) /\ p = peer.pending[1] /\ p.live \in Seq(EventIds) /\ p.sub \in SubIds
    BY <1>0, HeadResponse
  <1>2. p.evs = <<>>
    BY <1>1 DEF PumpLive
  <1>3. CASE p.live # <<>> /\ peer' = [peer EXCEPT !.out = Append(@, EventFrame(peer, p.sub, TRUE, Head(p.live))),
                                                     !.pending[1] = [p EXCEPT !.live = Tail(@)]]
    <2>1. PICK q : q = p.live /\ q \in Seq(EventIds) /\ q # <<>>
      BY <1>1, <1>3
    <2>2. PICK i, t : i = Head(q) /\ t = Tail(q)
      OBVIOUS
    <2>3. i \in EventIds /\ t \in Seq(EventIds)
      BY <2>1, <2>2, HeadTailProperties
    <2>4. PICK r : r = [p EXCEPT !.live = t]
      OBVIOUS
    <2>5. r \in Response /\ r.sub = p.sub /\ r.reserved = p.reserved /\ r.evs = p.evs /\ r.live = t
      BY <2>3, <2>4 DEF Response
    <2>6. \A j : Has(p, j) => j = i \/ Has(r, j)
      <3> SUFFICES ASSUME NEW j, Has(p, j) PROVE j = i \/ Has(r, j)
        OBVIOUS
      <3>1. CASE Listed(q, j)
        <4>1. j = i \/ Listed(t, j)
          BY <2>1, <2>2, <3>1, HeadMoves
        <4> QED BY <2>5, <4>1 DEF Has, Listed
      <3>2. CASE Listed(p.evs, j)
        BY <2>5, <3>2 DEF Has, Listed
      <3> QED BY <2>1, <3>1, <3>2 DEF Has, Listed
    <2>7. PICK l \in BOOLEAN : l = TRUE
      OBVIOUS
    <2>8. PICK b \in BOOLEAN : b = peer.cache
      BY <1>0
    <2>9. HeadOut(peer, peer', r, l, i, b)
      <3>1. PICK o, w : o = Append(peer.out, EventFrame(peer, r.sub, l, i)) /\ w = [peer.pending EXCEPT ![1] = r]
        OBVIOUS
      <3>2. peer' = [peer EXCEPT !.out = o, !.pending = w]
        BY <1>1, <1>3, <2>1, <2>2, <2>4, <2>5, <2>7, <3>1
      <3>3. peer' = [peer EXCEPT !.out = o, !.pending = w, !.cache = b]
        BY <1>0, <2>8, <3>2 DEF ConnRecord
      <3> QED BY <3>1, <3>3 DEF HeadOut
    <2>10. r.sub = peer.pending[1].sub /\ r.reserved = peer.pending[1].reserved /\ \A j : Has(peer.pending[1], j) => j = i \/ Has(r, j)
      BY <1>1, <2>5, <2>6
    <2> QED BY <1>0, <2>3, <2>5, <2>9, <2>10, EventGoesOut
  <1>4. CASE p.live = <<>> /\ peer' = [peer EXCEPT !.pending = Tail(@), !.reserved = @ - p.reserved]
    <2>1. \A j : ~Has(Head(peer.pending), j)
      BY <1>1, <1>2, <1>4 DEF Has
    <2>2. peer' = [peer EXCEPT !.pending = Tail(@), !.reserved = @ - Head(peer.pending).reserved]
      BY <1>1, <1>4
    <2> QED BY <1>0, <2>1, <2>2, HeadEndsKeeps
  <1> QED BY <1>1, <1>3, <1>4 DEF PumpLive

\* A response past its budget closes its subscription.
LEMMA PumpTooLargeKeeps ==
  ASSUME SessionInv, peer.pending # <<>>, PumpTooLarge
  PROVE  Sound(peer') /\ Preserves(peer, peer') /\ \A s \in OpenSubs(peer) \ Asks(peer) : s \in OpenSubs(peer')
  <1>0. Sound(peer) /\ peer \in ConnRecord
    BY DEF SessionInv, Sound
  <1>1. PICK s \in SubIds : s = Head(peer.pending).sub /\ s \in Asks(peer)
    BY <1>0, HeadResponse
  <1>2. PICK b \in BOOLEAN : b = SyncVerdict(peer)
    BY <1>0, VerdictType
  <1>3. PICK d : d = [peer EXCEPT !.cache = b]
    OBVIOUS
  <1>4. Sound(d) /\ Preserves(peer, d) /\ OpenSubs(d) = OpenSubs(peer)
    BY <1>0, <1>3, CacheKeeps
  <1>5. PICK e : e = SendClosed(d, s)
    OBVIOUS
  <1>6. Sound(e) /\ Preserves(d, e) /\ But(d, e, {"out", "ctlOver"})
    BY <1>4, <1>5, SendClosedKeeps
  <1>7. OpenSubs(e) = OpenSubs(d)
    BY <1>6 DEF But, ConnFields, OpenSubs
  <1>8. peer' = RemoveReqSubscription(e, s)
    BY <1>1, <1>2, <1>3, <1>5 DEF PumpTooLarge
  <1>9. Sound(peer') /\ Preserves(e, peer') /\ OpenSubs(peer') = OpenSubs(e) \ {s}
    BY <1>6, <1>8, RemoveKeeps
  <1>10. Preserves(peer, peer')
    BY <1>4, <1>6, <1>9, KeepsTwice
  <1> QED BY <1>1, <1>4, <1>7, <1>9, <1>10

\* A refused connection: every response is dropped, its id closed.
LEMMA PumpRefusedKeeps ==
  ASSUME SessionInv, PumpRefused
  PROVE  Sound(peer') /\ Preserves(peer, peer') /\ \A s \in OpenSubs(peer) \ Asks(peer) : s \in OpenSubs(peer')
  <1>0. Sound(peer) /\ peer \in ConnRecord /\ peer.pending \in Seq(Response)
    BY DEF SessionInv, Sound, ConnRecord
  <1>1. PICK ids : ids = Asks(peer)
    OBVIOUS
  <1>2. ids = {peer.pending[i].sub : i \in DOMAIN peer.pending} /\ ids \subseteq SubIds
    <2>1. DOMAIN peer.pending = 1..Len(peer.pending) /\ \A k \in 1..Len(peer.pending) : peer.pending[k] \in Response
      BY <1>0, LenProperties, ElementOfSeq
    <2>2. \A r \in Response : r.sub \in SubIds
      BY DEF Response
    <2> QED BY <1>1, <2>1, <2>2 DEF Asks
  <1>3. PICK b \in BOOLEAN : b = SyncVerdict(peer)
    BY <1>0, VerdictType
  <1>4. PICK d : d = [peer EXCEPT !.cache = b]
    OBVIOUS
  <1>5. Sound(d) /\ Preserves(peer, d) /\ OpenSubs(d) = OpenSubs(peer)
    BY <1>0, <1>4, CacheKeeps
  <1>6. PICK e : e = DropPending(d, ids)
    OBVIOUS
  <1>7. Sound(e) /\ But(d, e, {"pending", "reserved"}) /\ Asks(e) \subseteq Asks(d) \ ids /\ \A x, i : x \notin ids /\ Holds(d, x, i) => Holds(e, x, i)
    BY <1>5, <1>6, DropPendingKeeps
  <1>8. e.subs = d.subs /\ e.live = d.live /\ e.full = d.full /\ OpenSubs(e) = OpenSubs(d)
    BY <1>7 DEF But, ConnFields, OpenSubs
  <1>9. peer' = RejectAll(e, ids)
    BY <1>2, <1>3, <1>4, <1>6 DEF PumpRefused
  <1>10. Sound(peer') /\ Preserves(e, peer') /\ OpenSubs(peer') = OpenSubs(e) \ ids
    BY <1>2, <1>7, <1>9, RejectAllKeeps
  <1>11. Preserves(d, peer')
    BY <1>7, <1>8, <1>10 DEF Preserves
  <1>12. Preserves(peer, peer')
    BY <1>5, <1>11, KeepsTwice
  <1> QED BY <1>1, <1>5, <1>8, <1>10, <1>12

\* pump_pending_reqs keeps the invariant.
LEMMA PumpKeeps ==
  ASSUME SessionInv, Pump
  PROVE  SessionInv'
  <1>0. Sound(peer) /\ peer \in ConnRecord /\ pc = "pump" /\ UNCHANGED <<req, page, cur, access, relayVars, view>>
    BY DEF SessionInv, Sound, Pump
  <1>1. CASE PumpRefused /\ PumpReturns
    BY <1>0, <1>1, PumpRefusedKeeps, PumpStep
  <1>2. CASE peer.pending # <<>> /\ UNCHANGED <<pc, after>> /\ Head(peer.pending).sub \notin OpenSubs(peer)
             /\ peer' = [peer EXCEPT !.pending = Tail(@), !.reserved = @ - Head(peer.pending).reserved]
    <2>1. Sound(peer') /\ Preserves(peer, peer') /\ OpenSubs(peer') = OpenSubs(peer)
      BY <1>0, <1>2, HeadEndsKeeps
    <2> QED BY <1>0, <1>2, <2>1, PumpStep
  <1>3. CASE peer.pending # <<>> /\ UNCHANGED <<pc, after>> /\ (PumpEvent \/ PumpTooLarge \/ PumpEose \/ PumpLive)
    <2>1. Sound(peer') /\ Preserves(peer, peer') /\ \A s \in OpenSubs(peer) \ Asks(peer) : s \in OpenSubs(peer')
      BY <1>3, PumpEventKeeps, PumpTooLargeKeeps, PumpEoseKeeps, PumpLiveKeeps
    <2> QED BY <1>0, <1>3, <2>1, PumpStep
  <1>4. CASE peer' = [peer EXCEPT !.cache = SyncVerdict(peer)] /\ PumpReturns
    <2>1. PICK b \in BOOLEAN : b = SyncVerdict(peer)
      BY <1>0, VerdictType
    <2>2. peer' = [peer EXCEPT !.cache = b]
      BY <1>4, <2>1
    <2>3. Sound(peer') /\ Preserves(peer, peer') /\ OpenSubs(peer') = OpenSubs(peer)
      BY <1>0, <2>2, CacheKeeps
    <2> QED BY <1>0, <1>4, <2>3, PumpStep
  <1> QED BY <1>1, <1>2, <1>3, <1>4 DEF Pump

-----------------------------------------------------------------------------
(* REQ and CLOSE *)

\* The new incarnation of an id: nothing is promised for it.
LEMMA IncarnateKeeps ==
  ASSUME NEW cn, Sound(cn), NEW s \in SubIds, NEW b \in BOOLEAN
  PROVE  LET d == [cn EXCEPT !.inc[s] = @ + 1, !.full[s] = FALSE, !.cache = b]
         IN  Sound(d) /\ Preserves(cn, d) /\ OpenSubs(d) = OpenSubs(cn) /\ ~d.full[s]
  <1>0. cn \in ConnRecord /\ cn.inc \in [SubIds -> Nat] /\ cn.full \in [SubIds -> BOOLEAN] /\ cn.reserved = SumReserved(cn.pending)
    BY DEF Sound, ConnRecord, Accounts
  <1>1. PICK v, u : v = [cn.inc EXCEPT ![s] = @ + 1] /\ u = [cn.full EXCEPT ![s] = FALSE]
    OBVIOUS
  <1>2. v \in [SubIds -> Nat]
    <2>1. cn.inc[s] + 1 \in Nat
      BY <1>0
    <2> QED BY <1>0, <1>1, <2>1
  <1>3. u \in [SubIds -> BOOLEAN] /\ ~u[s] /\ \A x \in SubIds : u[x] => cn.full[x]
    BY <1>0, <1>1
  <1>4. PICK d : d = [cn EXCEPT !.inc = v, !.full = u, !.cache = b]
    OBVIOUS
  <1>5. But(cn, d, {"inc", "full", "cache"}) /\ d.full = u
    BY <1>0, <1>2, <1>3, <1>4 DEF But, ConnRecord, ConnFields
  <1>6. But(cn, d, Aside \cup {"out", "pending", "reserved", "full"}) /\ d.reserved = cn.reserved /\ d.pending = cn.pending /\ d.out = cn.out
    BY <1>5 DEF But, ConnFields, Aside
  <1>7. d.reserved = SumReserved(d.pending) /\ Asks(d) \subseteq Asks(cn)
    BY <1>0, <1>6 DEF Asks
  <1>8. \A x \in OpenSubs(cn) : d.full[x] => cn.full[x] /\ \A i : Holds(cn, x, i) => Holds(d, x, i)
    BY <1>3, <1>5, <1>6 DEF OpenSubs, Holds
  <1>9. Sound(d) /\ Preserves(cn, d) /\ OpenSubs(d) = OpenSubs(cn)
    BY <1>6, <1>7, <1>8, KeepsAside
  <1>10. d = [cn EXCEPT !.inc[s] = @ + 1, !.full[s] = FALSE, !.cache = b]
    BY <1>1, <1>4
  <1> QED BY <1>3, <1>5, <1>9, <1>10

\* handle_req up to the query: refused, or registered before the history is read.
LEMMA HandleReqKeeps ==
  ASSUME SessionInv, NEW s \in SubIds, NEW f \in Filters, NEW m \in BOOLEAN, HandleReq(s, f, m)
  PROVE  SessionInv'
  <1>0. /\ UNCHANGED <<page, cur, access, store, toBus, bus, fan, menu>> /\ Sound(peer) /\ peer \in ConnRecord /\ pc \in {"select", "window"}
        /\ view' = [view EXCEPT ![s] = [view[s] EXCEPT !.inc = @ + 1, !.ph = "scanning", !.hist = {}, !.live = {}]]
        /\ view \in [SubIds -> WireView]
    BY DEF HandleReq, Reading, relayVars, SessionInv, Sound, SessionTypes
  <1>1. cur = <<>> /\ after \in {"select", "top", "enqueue", "relieve"}
    BY <1>0, NothingInHand
  <1>2. PICK b \in BOOLEAN : b = IF m THEN peer.cache ELSE Verdict(peer)
    <2>1. peer.cache \in BOOLEAN /\ Verdict(peer) \in BOOLEAN
      BY <1>0, VerdictType DEF ConnRecord
    <2> QED BY <2>1
  <1>3. PICK cn : cn = [peer EXCEPT !.inc[s] = @ + 1, !.full[s] = FALSE, !.cache = b]
    OBVIOUS
  <1>4. Sound(cn) /\ Preserves(peer, cn) /\ OpenSubs(cn) = OpenSubs(peer) /\ ~cn.full[s]
    BY <1>0, <1>3, IncarnateKeeps
  <1>5. \/ peer' = Reject(cn, s) /\ pc' = "window" /\ UNCHANGED <<after, req>>
        \/ peer' = RegisterSub(cn, s, f) /\ req' = [sub |-> s, filter |-> f] /\ pc' = "pump" /\ after' = "enqueue"
    BY <1>2, <1>3 DEF HandleReq
  <1>6. SessionTypes'
    <2>1. view[s] \in WireView
      BY <1>0
    <2>2. PICK n : n \in Nat /\ n = view[s].inc + 1
      BY <2>1 DEF WireView
    <2>3. PICK w : w = [view[s] EXCEPT !.inc = n, !.ph = "scanning", !.hist = {}, !.live = {}]
      OBVIOUS
    <2>4. w \in WireView /\ view' = [view EXCEPT ![s] = w]
      <3>1. w \in WireView
        BY <2>1, <2>2, <2>3 DEF WireView
      <3>2. view' = [view EXCEPT ![s] = [view[s] EXCEPT !.inc = n, !.ph = "scanning", !.hist = {}, !.live = {}]]
        BY <1>0, <2>2
      <3> QED BY <2>3, <3>1, <3>2
    <2>5. view' \in [SubIds -> WireView]
      BY <1>0, <2>4
    <2> QED BY <1>0, <2>5 DEF SessionInv, SessionTypes
  <1>7. \A x \in SubIds : x # s => view'[x] = view[x]
    BY <1>0
  <1>8. CASE peer' = Reject(cn, s) /\ pc' = "window" /\ UNCHANGED <<after, req>>
    <2>1. Sound(peer') /\ Preserves(cn, peer') /\ OpenSubs(peer') = OpenSubs(cn) \ {s}
      BY <1>4, <1>8, RejectKeeps
    <2>2. Preserves(peer, peer')
      BY <1>4, <2>1, KeepsTwice
    <2>3. KeepsPromises
      <3> SUFFICES ASSUME NEW x \in OpenSubs(peer'), peer'.full[x]
                   PROVE  /\ x \in OpenSubs(peer) /\ peer.full[x] /\ peer'.subs[x] = peer.subs[x] /\ peer'.live = peer.live
                          /\ \A i : Holds(peer, x, i) => Holds(peer', x, i)
                          /\ view[x].hist \cup view[x].live \subseteq view'[x].hist \cup view'[x].live
        BY DEF KeepsPromises
      <3>1. x \in OpenSubs(peer) /\ x # s /\ x \in SubIds
        BY <1>4, <2>1 DEF OpenSubs
      <3>2. peer.full[x] /\ peer'.subs[x] = peer.subs[x] /\ peer'.live = peer.live /\ \A i : Holds(peer, x, i) => Holds(peer', x, i)
        BY <2>2 DEF Preserves
      <3> QED BY <1>7, <3>1, <3>2
    <2>4. TaskAt'
      BY <1>0, <1>1, <1>8, AtElsewhere
    <2> QED BY <1>0, <1>6, <1>8, <2>1, <2>3, <2>4, TaskStep
  <1>9. CASE peer' = RegisterSub(cn, s, f) /\ req' = [sub |-> s, filter |-> f] /\ pc' = "pump" /\ after' = "enqueue"
    <2>1. /\ Sound(peer') /\ peer'.subs = [cn.subs EXCEPT ![s] = f] /\ peer'.full = cn.full /\ s \notin Asks(peer')
          /\ \A y \in OpenSubs(peer') \ {s} :
                y \in OpenSubs(cn) /\ peer'.live = cn.live /\ \A i : Holds(cn, y, i) => Holds(peer', y, i)
      BY <1>4, <1>9, RegisterKeeps
    <2>2. cn.subs \in [SubIds -> Filters \cup {NoSub}]
      BY <1>4 DEF Sound, ConnRecord
    <2>3. KeepsPromises
      <3> SUFFICES ASSUME NEW x \in OpenSubs(peer'), peer'.full[x]
                   PROVE  /\ x \in OpenSubs(peer) /\ peer.full[x] /\ peer'.subs[x] = peer.subs[x] /\ peer'.live = peer.live
                          /\ \A i : Holds(peer, x, i) => Holds(peer', x, i)
                          /\ view[x].hist \cup view[x].live \subseteq view'[x].hist \cup view'[x].live
        BY DEF KeepsPromises
      <3>1. x # s /\ cn.full[x] /\ x \in SubIds
        BY <1>4, <2>1 DEF OpenSubs
      <3>2. x \in OpenSubs(cn) /\ peer'.live = cn.live /\ \A i : Holds(cn, x, i) => Holds(peer', x, i)
        BY <2>1, <3>1
      <3>3. cn.subs[x] = peer.subs[x] /\ cn.live = peer.live /\ peer.full[x] /\ \A i : Holds(peer, x, i) => Holds(cn, x, i)
        BY <1>4, <3>1, <3>2 DEF Preserves
      <3>4. peer'.subs[x] = cn.subs[x]
        BY <2>1, <2>2, <3>1
      <3>5. x \in OpenSubs(peer) /\ view'[x] = view[x]
        BY <1>4, <1>7, <3>1, <3>2
      <3> QED BY <3>2, <3>3, <3>4, <3>5
    <2>4. Asking' /\ req'.sub \notin Asks(peer')
      <3>1. peer'.subs[s] = f /\ f # NoSub
        BY <2>1, <2>2, SessionConstants
      <3>2. s \in OpenSubs(peer')
        BY <3>1 DEF OpenSubs
      <3>3. req'.sub = s /\ req'.filter = f
        BY <1>9
      <3> QED BY <2>1, <3>1, <3>2, <3>3 DEF Asking
    <2>5. TaskAt'
      BY <1>0, <1>1, <1>9, <2>4 DEF TaskAt
    <2> QED BY <1>0, <1>6, <1>9, <2>1, <2>3, <2>5, TaskStep
  <1> QED BY <1>5, <1>8, <1>9

\* handle_close keeps the invariant.
LEMMA HandleCloseKeeps ==
  ASSUME SessionInv, NEW s \in SubIds, HandleClose(s)
  PROVE  SessionInv'
  <1>0. /\ UNCHANGED <<after, page, cur, access, store, toBus, bus, fan, menu>> /\ Sound(peer) /\ pc \in {"select", "window"} /\ pc' = "window"
        /\ view' = [view EXCEPT ![s].ph = "closed"] /\ view \in [SubIds -> WireView]
    BY DEF HandleClose, Reading, relayVars, SessionInv, SessionTypes
  <1>1. PICK d : d = RemoveReqSubscription(peer, s)
    OBVIOUS
  <1>2. Sound(d) /\ Preserves(peer, d) /\ OpenSubs(d) = OpenSubs(peer) \ {s}
    BY <1>0, <1>1, RemoveKeeps
  <1>3. peer' = Purge(d, s)
    BY <1>1 DEF HandleClose
  <1>4. Sound(peer') /\ Preserves(d, peer')
    BY <1>2, <1>3, PurgeKeeps
  <1>5. Preserves(peer, peer')
    BY <1>2, <1>4, KeepsTwice
  <1>6. view[s] \in WireView
    BY <1>0
  <1>7. PICK w : w = [view[s] EXCEPT !.ph = "closed"]
    OBVIOUS
  <1>8. w \in WireView /\ w.hist = view[s].hist /\ w.live = view[s].live
    BY <1>6, <1>7 DEF WireView
  <1>9. view' = [view EXCEPT ![s] = w]
    BY <1>0, <1>7
  <1>10. view' \in [SubIds -> WireView] /\ \A x \in SubIds : view'[x].hist = view[x].hist /\ view'[x].live = view[x].live
    BY <1>0, <1>8, <1>9
  <1>11. SessionTypes'
    BY <1>0, <1>10 DEF SessionInv, SessionTypes
  <1>12. KeepsPromises
    <2> SUFFICES ASSUME NEW x \in OpenSubs(peer'), peer'.full[x]
                 PROVE  /\ x \in OpenSubs(peer) /\ peer.full[x] /\ peer'.subs[x] = peer.subs[x] /\ peer'.live = peer.live
                        /\ \A i : Holds(peer, x, i) => Holds(peer', x, i)
                        /\ view[x].hist \cup view[x].live \subseteq view'[x].hist \cup view'[x].live
      BY DEF KeepsPromises
    <2>1. peer.full[x] /\ peer'.subs[x] = peer.subs[x] /\ peer'.live = peer.live /\ \A i : Holds(peer, x, i) => Holds(peer', x, i)
      BY <1>5 DEF Preserves
    <2>2. x \in SubIds /\ x \in OpenSubs(peer)
      BY <2>1 DEF OpenSubs
    <2> QED BY <1>10, <2>1, <2>2
  <1>13. TaskAt'
    BY <1>0, NothingInHand, AtElsewhere
  <1> QED BY <1>0, <1>4, <1>11, <1>12, <1>13, TaskStep

\* A response is queued behind the others.
LEMMA PendingAppend ==
  ASSUME NEW cn, Sound(cn), NEW r \in Response, r.reserved = 0
  PROVE  LET d == [cn EXCEPT !.pending = Append(@, r)]
         IN  /\ Sound(d) /\ OpenSubs(d) = OpenSubs(cn) /\ d.subs = cn.subs /\ d.live = cn.live /\ d.full = cn.full
             /\ \A x, i : Holds(cn, x, i) => Holds(d, x, i)
             /\ \A k \in 1..Len(d.pending) : d.pending[k] = r \/ d.pending[k].sub \in Asks(cn)
  <1>0. cn \in ConnRecord /\ cn.pending \in Seq(Response) /\ cn.reserved = SumReserved(cn.pending)
    BY DEF Sound, ConnRecord, Accounts
  <1>1. PICK n : n \in Nat /\ n = Len(cn.pending) /\ DOMAIN cn.pending = 1..n
    BY <1>0, LenProperties
  <1>2. PICK q : q = Append(cn.pending, r)
    OBVIOUS
  <1>3. q \in Seq(Response) /\ Len(q) = n + 1 /\ q[n + 1] = r /\ \A k \in 1..n : q[k] = cn.pending[k]
    BY <1>0, <1>1, <1>2, AppendProperties
  <1>4. DOMAIN q = 1..(n + 1)
    BY <1>3, LenProperties
  <1>5. \A k \in 1..(n + 1) : q[k] = r \/ q[k].sub \in Asks(cn)
    <2> SUFFICES ASSUME NEW k \in 1..(n + 1), k # n + 1 PROVE q[k].sub \in Asks(cn)
      BY <1>3
    <2>1. k \in 1..n
      BY <1>1
    <2> QED BY <1>1, <1>3, <2>1 DEF Asks
  <1>6. \A x, i : Responding(cn.pending, x, i) => Responding(q, x, i)
    <2> SUFFICES ASSUME NEW x, NEW i, Responding(cn.pending, x, i) PROVE Responding(q, x, i)
      OBVIOUS
    <2>1. PICK k \in 1..n : cn.pending[k].sub = x /\ Has(cn.pending[k], i)
      BY <1>1, RespondingHas
    <2>2. k \in DOMAIN q /\ q[k] = cn.pending[k]
      BY <1>1, <1>3, <1>4
    <2> QED BY <2>1, <2>2, RespondingHas
  <1>7. SumReserved(q) = SumReserved(cn.pending)
    <2>1. SumReserved(q) = SumReserved(cn.pending) + r.reserved /\ SumReserved(cn.pending) \in Nat
      BY <1>0, <1>2, ReservedAppend, ReservedNat
    <2> QED BY <2>1
  <1>8. PICK d : d = [cn EXCEPT !.pending = q]
    OBVIOUS
  <1>9. But(cn, d, {"pending"}) /\ d.pending = q
    BY <1>0, <1>3, <1>8 DEF But, ConnRecord, ConnFields
  <1>10. But(cn, d, Aside \cup {"out", "pending", "reserved", "full"}) /\ d.reserved = cn.reserved /\ d.full = cn.full /\ d.out = cn.out
    BY <1>9 DEF But, ConnFields, Aside
  <1>11. d.reserved = SumReserved(d.pending)
    BY <1>0, <1>7, <1>9, <1>10
  <1>12. Sound(d) /\ OpenSubs(d) = OpenSubs(cn) /\ d.subs = cn.subs /\ d.live = cn.live
    BY <1>10, <1>11, SoundAside
  <1>13. \A x, i : Holds(cn, x, i) => Holds(d, x, i)
    BY <1>6, <1>9, <1>10 DEF Holds
  <1>14. \A k \in 1..Len(d.pending) : d.pending[k] = r \/ d.pending[k].sub \in Asks(cn)
    BY <1>3, <1>5, <1>9
  <1>15. d = [cn EXCEPT !.pending = Append(@, r)]
    BY <1>2, <1>8
  <1> QED BY <1>10, <1>12, <1>13, <1>14, <1>15

\* The barrier is queued after the cut-off.
LEMMA EnqueueKeeps ==
  ASSUME SessionInv, EnqueueBarrier
  PROVE  SessionInv'
  <1>0. /\ UNCHANGED <<after, req, page, cur, access, view, store, toBus, bus, fan, menu>> /\ Sound(peer) /\ pc = "enqueue" /\ pc' = "query"
        /\ Asking /\ req.sub \notin Asks(peer)
    BY DEF EnqueueBarrier, relayVars, SessionInv, TaskAt
  <1>1. PICK s \in SubIds : s = req.sub /\ s \in OpenSubs(peer) /\ s \notin Asks(peer) /\ req.filter = peer.subs[s]
    BY <1>0 DEF Asking, OpenSubs
  <1>2. PICK cut : cut = CutOff(peer)
    OBVIOUS
  <1>3. Sound(cut) /\ Preserves(peer, cut) /\ s \in OpenSubs(cut) /\ Asks(cut) \subseteq Asks(peer)
    BY <1>0, <1>1, <1>2, CutOffKeeps DEF Preserves
  <1>4. PICK r : r = PendingReq(s)
    OBVIOUS
  <1>5. r \in Response /\ r.sub = s /\ r.evs = <<>> /\ r.reserved = 0
    BY <1>4 DEF PendingReq, Response
  <1>6. peer' = [cut EXCEPT !.pending = Append(@, r)]
    BY <1>1, <1>2, <1>4 DEF EnqueueBarrier
  <1>7. /\ Sound(peer') /\ OpenSubs(peer') = OpenSubs(cut) /\ peer'.subs = cut.subs /\ peer'.live = cut.live /\ peer'.full = cut.full
        /\ \A x, i : Holds(cut, x, i) => Holds(peer', x, i)
        /\ \A k \in 1..Len(peer'.pending) : peer'.pending[k] = r \/ peer'.pending[k].sub \in Asks(cut)
    BY <1>3, <1>5, <1>6, PendingAppend
  <1>8. KeepsPromises
    <2> SUFFICES ASSUME NEW x \in OpenSubs(peer'), peer'.full[x]
                 PROVE  /\ x \in OpenSubs(peer) /\ peer.full[x] /\ peer'.subs[x] = peer.subs[x] /\ peer'.live = peer.live
                        /\ \A i : Holds(peer, x, i) => Holds(peer', x, i)
                        /\ view[x].hist \cup view[x].live \subseteq view'[x].hist \cup view'[x].live
      BY DEF KeepsPromises
    <2>1. x \in OpenSubs(cut) /\ cut.full[x]
      BY <1>7
    <2>2. peer.full[x] /\ cut.subs[x] = peer.subs[x] /\ cut.live = peer.live /\ \A i : Holds(peer, x, i) => Holds(cut, x, i)
      BY <1>3, <2>1 DEF Preserves
    <2>3. x \in OpenSubs(peer)
      BY <2>1, <2>2 DEF OpenSubs
    <2> QED BY <1>0, <1>7, <2>2, <2>3
  <1>9. Asking' /\ \A k \in 1..Len(peer'.pending) : peer'.pending[k].sub = req'.sub => peer'.pending[k].evs = <<>> /\ peer'.pending[k].reserved = 0
    <2>1. s \in OpenSubs(peer') /\ peer'.subs[s] = peer.subs[s]
      BY <1>3, <1>7 DEF Preserves
    <2>2. req' = req
      BY <1>0
    <2>3. Asking'
      BY <1>1, <2>1, <2>2 DEF Asking
    <2>4. ASSUME NEW k \in 1..Len(peer'.pending), peer'.pending[k].sub = s
          PROVE  peer'.pending[k] = r
      BY <1>1, <1>3, <1>7, <2>4
    <2> QED BY <1>1, <1>5, <2>2, <2>3, <2>4
  <1>10. TaskAt'
    <2>1. cur = <<>> /\ after \in {"select", "top", "enqueue", "relieve"}
      BY <1>0, NothingInHand
    <2> QED BY <1>0, <1>9, <2>1 DEF TaskAt
  <1>11. SessionTypes'
    BY <1>0, SameTypes
  <1> QED BY <1>0, <1>7, <1>8, <1>10, <1>11, TaskStep

-----------------------------------------------------------------------------
(* The reader's answer *)

\* The ids are finitely many numbers.
LEMMA EventIdsFinite == IsFiniteSet(EventIds) /\ EventIds \subseteq Nat
  <1>1. PICK g : g = [e \in Events |-> e.id]
    OBVIOUS
  <1>2. g \in Surjection(Events, EventIds)
    BY <1>1 DEF Surjection, EventIds
  <1> QED BY <1>2, SessionConstants, FS_Surjection

\* Anyone may read a note.
LEMMA NoteIsVisible ==
  ASSUME NEW keys, NEW e, e.class = "note"
  PROVE  VisibleTo(keys, e)
  BY DEF VisibleTo

\* A page that was not cut has every match that anyone may read.
Scanned(S) == {NewestFirst(S)[k] : k \in {k \in DOMAIN NewestFirst(S) : k <= PageLimit}}
Readable(S, keys) == {i \in Scanned(S) : VisibleTo(keys, Ev(i))}

\* All of them are read from one snapshot.
LEMMA ReaderFinds ==
  ASSUME NEW S, S \subseteq EventIds, NEW keys
  PROVE  /\ NewestFirst(Readable(S, keys)) \in Seq(EventIds) /\ Len(NewestFirst(S)) \in Nat
         /\ ~(Len(NewestFirst(S)) > PageLimit) => \A i \in S : Ev(i).class = "note" => Listed(NewestFirst(Readable(S, keys)), i)
  <1>0. PICK all, got, shown : all = NewestFirst(S) /\ got = Scanned(S) /\ shown = Readable(S, keys)
    OBVIOUS
  <1>1. IsFiniteSet(S) /\ S \subseteq Nat
    BY EventIdsFinite, FS_Subset
  <1>2. all \in Seq(S) /\ Len(all) = Cardinality(S) /\ Cardinality(S) \in Nat /\ \A i \in S : \E k \in 1..Cardinality(S) : all[k] = i
    BY <1>0, <1>1, NewestFirstAll
  <1>3. DOMAIN all = 1..Len(all) /\ \A k \in 1..Len(all) : all[k] \in S
    BY <1>2, LenProperties, ElementOfSeq
  <1>4. shown \subseteq S
    BY <1>0, <1>3 DEF Readable, Scanned
  <1>5. IsFiniteSet(shown) /\ shown \subseteq Nat
    BY <1>1, <1>4, FS_Subset
  <1>6. PICK q : q = NewestFirst(shown)
    OBVIOUS
  <1>7. q \in Seq(shown) /\ Len(q) = Cardinality(shown) /\ \A i \in shown : \E k \in 1..Cardinality(shown) : q[k] = i
    BY <1>5, <1>6, NewestFirstAll
  <1>8. q \in Seq(EventIds) /\ DOMAIN q = 1..Cardinality(shown)
    BY <1>4, <1>7, LenProperties, SeqMonotonic
  <1>9. ASSUME ~(Len(all) > PageLimit), NEW i \in S, Ev(i).class = "note"
        PROVE  Listed(q, i)
    <2>1. PICK k \in 1..Len(all) : all[k] = i
      BY <1>2
    <2>2. k <= PageLimit
      BY <1>2, <1>9, <2>1, SessionConstants
    <2>3. i \in got
      BY <1>0, <1>3, <2>1, <2>2 DEF Scanned
    <2>4. i \in shown
      BY <1>0, <1>9, <2>3, NoteIsVisible DEF Readable
    <2> QED BY <1>7, <1>8, <2>4 DEF Listed
  <1> QED BY <1>0, <1>2, <1>6, <1>8, <1>9

\* The reader's answer misses nothing that is not on its way.
LEMMA ReaderKeeps ==
  ASSUME SessionInv, ReaderAnswers
  PROVE  SessionInv'
  <1>0. UNCHANGED <<peer, after, req, cur, access, view, store, toBus, bus, fan, menu>> /\ Sound(peer) /\ pc = "query" /\ pc' = "answer"
    BY DEF ReaderAnswers, relayVars, SessionInv
  <1>1. PICK S : S = {i \in store : Matches(req.filter, Ev(i))}
    OBVIOUS
  <1>2. PICK all : all = NewestFirst(S)
    OBVIOUS
  <1>3. PICK got, shown : got = Scanned(S) /\ shown = Readable(S, peer.authed)
    OBVIOUS
  <1>4. got = {all[k] : k \in {k \in DOMAIN all : k <= PageLimit}} /\ shown = {i \in got : VisibleTo(peer.authed, Ev(i))}
    BY <1>2, <1>3 DEF Scanned, Readable
  <1>5. S \subseteq EventIds
    BY <1>1 DEF SessionInv, SessionTypes
  <1>6. PICK evs : evs = NewestFirst(shown)
    OBVIOUS
  <1>7. /\ evs \in Seq(EventIds) /\ Len(all) \in Nat
        /\ ~(Len(all) > PageLimit) => \A i \in S : Ev(i).class = "note" => Listed(evs, i)
    BY <1>2, <1>3, <1>5, <1>6, ReaderFinds
  <1>8. PICK more \in BOOLEAN : more <=> Len(all) > PageLimit
    <2>1. (Len(all) > PageLimit) \in BOOLEAN
      OBVIOUS
    <2> QED BY <2>1
  <1>9. \/ page' = [ok |-> TRUE, evs |-> evs, more |-> more, hidden |-> got # shown]
        \/ page' = [ok |-> FALSE, evs |-> <<>>, more |-> FALSE, hidden |-> FALSE]
    <2>1. more = (Len(all) > PageLimit)
      BY <1>8
    <2> QED BY <1>1, <1>2, <1>4, <1>6, <2>1 DEF ReaderAnswers
  <1>10. page' \in Page
    <2>1. CASE page' = [ok |-> TRUE, evs |-> evs, more |-> more, hidden |-> got # shown]
      <3>1. PICK h \in BOOLEAN : h = (got # shown)
        OBVIOUS
      <3>2. page' = [ok |-> TRUE, evs |-> evs, more |-> more, hidden |-> h]
        BY <2>1, <3>1
      <3> QED BY <1>7, <3>2 DEF Page
    <2>2. CASE page' = [ok |-> FALSE, evs |-> <<>>, more |-> FALSE, hidden |-> FALSE]
      BY <2>2 DEF Page
    <2> QED BY <1>9, <2>1, <2>2
  <1>11. SessionTypes'
    BY <1>0, <1>10 DEF SessionInv, SessionTypes
  <1>12. TaskAt'
    <2>1. Asking' <=> Asking
      BY <1>0 DEF Asking
    <2> QED BY <1>0, <2>1 DEF SessionInv, TaskAt
  <1>13. AnswerWhole'
    <2> SUFFICES ASSUME page'.ok, ~page'.more, NEW i \in store', Matches(req'.filter, Ev(i)), Ev(i).class = "note"
                 PROVE  \E j \in DOMAIN page'.evs : page'.evs[j] = i
      BY DEF AnswerWhole
    <2>1. page'.evs = evs /\ ~more
      BY <1>9
    <2>2. i \in S
      BY <1>0, <1>1
    <2> QED BY <1>7, <1>8, <2>1, <2>2 DEF Listed
  <1>14. NothingFallsBetween'
    <2>1. KeepsPromises
      BY <1>0, KeepsSelf, KeepsKept DEF Sound
    <2> QED BY <1>0, <2>1, PromisesKept DEF SessionInv
  <1> QED BY <1>0, <1>11, <1>12, <1>13, <1>14 DEF SessionInv

\* The page of a response is a prefix of the answer; the whole of it unless it is shorter.
LEMMA PageOf ==
  ASSUME SessionInv
  PROVE  /\ ResponsePage \in Seq(EventIds) /\ Len(ResponsePage) \in Nat
         /\ ~(Len(ResponsePage) < Len(page.evs)) => ResponsePage = page.evs
  <1>1. PICK q : q = page.evs /\ q \in Seq(EventIds)
    BY DEF SessionInv, SessionTypes, Page
  <1>2. Len(q) \in Nat /\ RespLimit \in Nat /\ \A k \in 1..Len(q) : q[k] \in EventIds
    BY <1>1, SessionConstants, LenProperties, ElementOfSeq
  <1>3. CASE RespLimit = 0 \/ Len(q) <= RespLimit
    BY <1>1, <1>2, <1>3 DEF ResponsePage
  <1>4. CASE ~(RespLimit = 0 \/ Len(q) <= RespLimit)
    <2>1. PICK n : n = RespLimit + 1 /\ n \in Int /\ 1 \in Int
      BY <1>2
    <2>2. n <= Len(q) /\ 1 <= n /\ n - 1 + 1 = n /\ \A k \in 1..n : k \in 1..Len(q)
      BY <1>2, <1>4, <2>1
    <2>3. PICK r : r = SubSeq(q, 1, n)
      OBVIOUS
    <2>4. r \in Seq(EventIds) /\ Len(r) = n
      <3>1. \A k \in 1..n : q[k] \in EventIds
        BY <1>2, <2>2
      <3>2. r \in Seq(EventIds) /\ Len(r) = IF 1 <= n THEN n - 1 + 1 ELSE 0
        BY <2>1, <2>3, <3>1, SubSeqProperties
      <3> QED BY <2>2, <3>2
    <2>5. ~(Len(r) < Len(q)) => r = q
      <3>1. ~(Len(r) < Len(q)) => n = Len(q)
        BY <1>2, <2>1, <2>2, <2>4
      <3> QED BY <1>1, <2>3, <3>1, SubSeqFull
    <2>6. ResponsePage = r
      BY <1>1, <1>4, <2>1, <2>3 DEF ResponsePage
    <2> QED BY <1>1, <2>1, <2>2, <2>4, <2>5, <2>6, LenProperties
  <1> QED BY <1>3, <1>4

\* The barrier is filled: r is the response with the page.
Filled(cn, d, k, r, u) ==
    d = [cn EXCEPT !.reserved = @ + r.reserved, !.full = u, !.pending[k] = r]

\* The response has its page, and the live events it held back.
LEMMA FillKeeps ==
  ASSUME NEW cn, Sound(cn), NEW k \in 1..Len(cn.pending), cn.pending[k].evs = <<>>, cn.pending[k].reserved = 0,
         NEW r \in Response, r.sub = cn.pending[k].sub, r.live = cn.pending[k].live, NEW u \in [SubIds -> BOOLEAN],
         NEW d, Filled(cn, d, k, r, u)
  PROVE  /\ Sound(d) /\ OpenSubs(d) = OpenSubs(cn) /\ d.subs = cn.subs /\ d.live = cn.live /\ d.full = u
         /\ \A x, i : Holds(cn, x, i) => Holds(d, x, i)
         /\ \A i : Listed(r.evs, i) => Holds(d, r.sub, i)
  <1>0. cn \in ConnRecord /\ cn.pending \in Seq(Response) /\ cn.reserved \in Int
    BY DEF Sound, ConnRecord
  <1>1. PICK n : n = cn.reserved + r.reserved
    OBVIOUS
  <1>2. r.reserved \in Nat
    BY DEF Response
  <1>3. n \in Int /\ n = cn.reserved - cn.pending[k].reserved + r.reserved
    BY <1>0, <1>1, <1>2
  <1>4. PICK q : q = [cn.pending EXCEPT ![k] = r]
    OBVIOUS
  <1>5. q \in Seq(Response)
    <2>1. cn.pending \in [1..Len(cn.pending) -> Response] /\ Len(cn.pending) \in Nat
      BY <1>0, LenProperties, ElementOfSeq
    <2>2. q \in [1..Len(cn.pending) -> Response]
      BY <1>4, <2>1
    <2> QED BY <2>1, <2>2
  <1>6. d = [cn EXCEPT !.reserved = n, !.full = u, !.pending = q]
    BY <1>1, <1>4 DEF Filled
  <1>7. But(cn, d, {"reserved", "full", "pending"}) /\ d.reserved = n /\ d.full = u /\ d.pending = q
    BY <1>0, <1>3, <1>5, <1>6 DEF But, ConnRecord, ConnFields
  <1>8. But(cn, d, Aside \cup {"out", "pending", "reserved", "full"}) /\ d.out = cn.out
    BY <1>7 DEF But, ConnFields, Aside
  <1>9. d.pending = [cn.pending EXCEPT ![k] = r] /\ d.reserved = cn.reserved - cn.pending[k].reserved + r.reserved
    BY <1>3, <1>4, <1>7
  <1>10. /\ Sound(d) /\ Asks(d) = Asks(cn) /\ OpenSubs(d) = OpenSubs(cn) /\ d.subs = cn.subs /\ d.live = cn.live
         /\ \A x, j : Responding(cn.pending, x, j) => Responding(d.pending, x, j) \/ (x = r.sub /\ Has(cn.pending[k], j))
         /\ \A j : Has(r, j) => Responding(d.pending, r.sub, j)
    <2>1. But(cn, d, Aside \cup {"out", "pending", "reserved", "full"})
      BY <1>8
    <2> QED BY <1>9, <2>1, PendingPut
  <1>11. \A j : Has(cn.pending[k], j) => Has(r, j)
    BY DEF Has
  <1>12. \A x, j : Responding(cn.pending, x, j) => Responding(d.pending, x, j)
    BY <1>10, <1>11
  <1>13. \A x, j : Holds(cn, x, j) => Holds(d, x, j)
    BY <1>8, <1>12 DEF Holds
  <1>14. \A i : Listed(r.evs, i) => Has(r, i)
    BY DEF Listed, Has
  <1>15. \A i : Listed(r.evs, i) => Holds(d, r.sub, i)
    BY <1>10, <1>14 DEF Holds
  <1> QED BY <1>7, <1>10, <1>13, <1>15

\* handle_req after the query: what was committed since the scan is on its way, so the promise can be made.
LEMMA AnswerKeeps ==
  ASSUME SessionInv, AnswerReq
  PROVE  SessionInv'
  <1>0. /\ UNCHANGED <<after, req, cur, access, view, store, toBus, bus, fan, menu>> /\ Sound(peer) /\ pc = "answer" /\ pc' = "window"
        /\ page' = [page EXCEPT !.evs = <<>>] /\ page \in Page /\ peer \in ConnRecord
    BY DEF AnswerReq, relayVars, SessionInv, SessionTypes, Sound
  <1>1. PICK s \in SubIds : s = req.sub /\ s \in OpenSubs(peer) /\ req.filter = peer.subs[s]
    BY <1>0 DEF SessionInv, TaskAt, Asking, OpenSubs
  <1>2. SessionTypes'
    <2>1. PICK e : e = <<>> /\ e \in Seq(EventIds)
      <3>1. <<>> \in Seq(EventIds)
        OBVIOUS
      <3> QED BY <3>1, Zenon
    <2>2. page' = [page EXCEPT !.evs = e]
      BY <1>0, <2>1
    <2>3. page' \in Page
      <3>1. e \in Seq(EventIds)
        BY <2>1
      <3> QED BY <1>0, <2>2, <3>1 DEF Page
    <2> QED BY <1>0, <2>3 DEF SessionInv, SessionTypes
  <1>3. TaskAt'
    BY <1>0, NothingInHand, AtElsewhere
  <1>4. PICK evs : evs = ResponsePage /\ evs \in Seq(EventIds) /\ Len(evs) \in Nat /\ (~(Len(evs) < Len(page.evs)) => evs = page.evs)
    BY PageOf
  <1>5. PICK more \in BOOLEAN : more = (page.more \/ Len(evs) < Len(page.evs))
    OBVIOUS
  <1>6. PICK at : at = {k \in DOMAIN peer.pending : peer.pending[k].sub = s}
    OBVIOUS
  <1>7. \/ peer' = SendClosed(RemoveReqSubscription(peer, s), s)
        \/ page.ok /\ \E k \in at : peer' = [peer EXCEPT !.reserved = @ + Len(evs), !.full[s] = ~more,
                                 !.pending[k] = [peer.pending[k] EXCEPT !.evs = evs, !.reserved = Len(evs), !.more = more, !.auth = page.hidden]]
    <2>1. \/ peer' = SendClosed(RemoveReqSubscription(peer, s), s)
          \/ /\ page.ok /\ at # {}
             /\ LET k == CHOOSE k \in at : TRUE IN
                peer' = [peer EXCEPT !.reserved = @ + Len(evs), !.full[s] = ~more,
                          !.pending[k] = [peer.pending[k] EXCEPT !.evs = evs, !.reserved = Len(evs), !.more = more, !.auth = page.hidden]]
      BY <1>1, <1>4, <1>5, <1>6 DEF AnswerReq
    <2> QED BY <2>1
  <1>8. CASE peer' = SendClosed(RemoveReqSubscription(peer, s), s)
    <2>1. PICK d : d = RemoveReqSubscription(peer, s)
      OBVIOUS
    <2>2. Sound(d) /\ Preserves(peer, d)
      BY <1>0, <2>1, RemoveKeeps
    <2>3. Sound(peer') /\ Preserves(d, peer')
      BY <1>8, <2>1, <2>2, SendClosedKeeps
    <2>4. Preserves(peer, peer')
      BY <2>2, <2>3, KeepsTwice
    <2>5. KeepsPromises
      BY <1>0, <2>3, <2>4, KeepsKept DEF Sound
    <2> QED BY <1>0, <1>2, <1>3, <2>3, <2>5, TaskStep
  <1>9. CASE page.ok /\ \E k \in at : peer' = [peer EXCEPT !.reserved = @ + Len(evs), !.full[s] = ~more,
                                 !.pending[k] = [peer.pending[k] EXCEPT !.evs = evs, !.reserved = Len(evs), !.more = more, !.auth = page.hidden]]
    <2>1. PICK k \in at : peer' = [peer EXCEPT !.reserved = @ + Len(evs), !.full[s] = ~more,
                                 !.pending[k] = [peer.pending[k] EXCEPT !.evs = evs, !.reserved = Len(evs), !.more = more, !.auth = page.hidden]]
      BY <1>9
    <2>2. peer.pending \in Seq(Response) /\ peer.full \in [SubIds -> BOOLEAN]
      BY <1>0 DEF ConnRecord
    <2>3. k \in 1..Len(peer.pending) /\ peer.pending[k] \in Response /\ peer.pending[k].sub = s
      BY <1>6, <2>2, LenProperties, ElementOfSeq
    <2>4. peer.pending[k].evs = <<>> /\ peer.pending[k].reserved = 0
      BY <1>0, <1>1, <2>3 DEF SessionInv, TaskAt
    <2>5. PICK n, h : n = Len(evs) /\ h = page.hidden /\ n \in Nat /\ h \in BOOLEAN
      BY <1>0, <1>4 DEF Page
    <2>6. PICK r : r = [peer.pending[k] EXCEPT !.evs = evs, !.reserved = n, !.more = more, !.auth = h]
      OBVIOUS
    <2>7. r \in Response /\ r.sub = peer.pending[k].sub /\ r.live = peer.pending[k].live /\ r.evs = evs /\ r.reserved = n
      BY <1>4, <2>3, <2>5, <2>6 DEF Response
    <2>8. PICK u : u = [peer.full EXCEPT ![s] = ~more]
      OBVIOUS
    <2>9. u \in [SubIds -> BOOLEAN] /\ u[s] = ~more /\ \A x \in SubIds : x # s => u[x] = peer.full[x]
      BY <2>2, <2>8
    <2>10. Filled(peer, peer', k, r, u)
      BY <2>1, <2>5, <2>6, <2>7, <2>8 DEF Filled
    <2>11. /\ Sound(peer') /\ OpenSubs(peer') = OpenSubs(peer) /\ peer'.subs = peer.subs /\ peer'.live = peer.live /\ peer'.full = u
           /\ \A x, i : Holds(peer, x, i) => Holds(peer', x, i)
           /\ \A i : Listed(r.evs, i) => Holds(peer', r.sub, i)
      BY <1>0, <2>3, <2>4, <2>7, <2>9, <2>10, FillKeeps
    <2>12. NothingFallsBetween'
      <3> SUFFICES ASSUME ~fan'.overflow, NEW x \in OpenSubs(peer'), peer'.full[x],
                          NEW i \in store', Matches(peer'.subs[x], Ev(i)), Ev(i).class = "note"
                   PROVE  i \in view'[x].hist \cup view'[x].live \/ OnTheWay(x, i)'
        BY DEF NothingFallsBetween
      <3>1. x \in OpenSubs(peer) /\ x \in SubIds /\ i \in store /\ Matches(peer.subs[x], Ev(i)) /\ ~fan.overflow
        BY <1>0, <2>11 DEF OpenSubs
      <3>2. OnTheWay(x, i) => OnTheWay(x, i)'
        <4>1. Holds(peer, x, i) => Holds(peer', x, i)
          BY <2>11
        <4>2. peer'.live = peer.live /\ UNCHANGED <<toBus, bus, fan, cur>>
          BY <1>0, <2>11
        <4> QED BY <4>1, <4>2 DEF OnTheWay
      <3>3. CASE x # s
        <4>1. peer.full[x]
          BY <2>9, <2>11, <3>1, <3>3
        <4>2. i \in view[x].hist \cup view[x].live \/ OnTheWay(x, i)
          BY <1>0, <3>1, <4>1 DEF SessionInv, NothingFallsBetween
        <4> QED BY <1>0, <3>2, <4>2
      <3>4. CASE x = s
        <4>1. ~page.more /\ evs = page.evs
          BY <1>4, <1>5, <2>9, <2>11, <3>4
        <4>2. (\E j \in DOMAIN page.evs : page.evs[j] = i) \/ OnTheWay(req.sub, i)
          BY <1>0, <1>1, <1>9, <3>1, <3>4, <4>1 DEF SessionInv, AnswerWhole
        <4>3. CASE OnTheWay(req.sub, i)
          BY <1>1, <3>2, <3>4, <4>3
        <4>4. CASE \E j \in DOMAIN page.evs : page.evs[j] = i
          <5>1. Listed(r.evs, i)
            BY <2>7, <4>1, <4>4 DEF Listed
          <5>2. Holds(peer', x, i)
            BY <2>3, <2>7, <2>11, <3>4, <5>1
          <5> QED BY <5>2 DEF OnTheWay
        <4> QED BY <4>2, <4>3, <4>4
      <3> QED BY <3>3, <3>4
    <2> QED BY <1>0, <1>2, <1>3, <2>11, <2>12, AnswerElse DEF SessionInv
  <1> QED BY <1>7, <1>8, <1>9

-----------------------------------------------------------------------------
(* Live delivery and the wire *)

\* deliver_live_at: every open subscription that matches an event anyone may read has it, or the connection is given up.
Matched(i) == {s \in OpenSubs(peer) : Matches(peer.subs[s], Ev(i))}

\* By the gates, or along the order.
LEMMA DeliverLiveKeeps ==
  ASSUME SessionInv, NEW i \in EventIds, NEW M, M = Matched(i), NEW path \in Orders(M),
         NEW d, d = DeliverLiveAt(path, i)
  PROVE  /\ Sound(d) /\ Preserves(peer, d)
         /\ d.liveOver \/ \A s \in OpenSubs(d) : Matches(peer.subs[s], Ev(i)) /\ Ev(i).class = "note" => Holds(d, s, i)
  <1>0. Sound(peer) /\ peer \in ConnRecord
    BY DEF SessionInv, Sound
  <1>1. PICK b \in BOOLEAN : b = SyncVerdict(peer)
    BY <1>0, VerdictType
  <1>2. PICK cn : cn = [peer EXCEPT !.cache = b]
    OBVIOUS
  <1>3. Sound(cn) /\ Preserves(peer, cn) /\ OpenSubs(cn) = OpenSubs(peer)
    BY <1>0, <1>2, CacheKeeps
  <1>4. PICK n, f : n = Len(path) /\ Delivering(cn, i, n, path, f)
    BY DEF Delivering
  <1>5. \/ OpenSubs(peer) = {} /\ d = peer
        \/ d = CloseAllSubs(cn)
        \/ ~VisibleTo(peer.authed, Ev(i)) /\ d = cn
        \/ d = f[n]
    BY <1>1, <1>2, <1>4 DEF DeliverLiveAt, Delivering
  <1>6. CASE OpenSubs(peer) = {} /\ d = peer
    BY <1>0, <1>6, KeepsSelf
  <1>7. CASE d = CloseAllSubs(cn)
    <2>1. OpenSubs(cn) \subseteq SubIds
      BY DEF OpenSubs
    <2>2. PICK S : S = OpenSubs(cn)
      OBVIOUS
    <2>3. Sound(d) /\ Preserves(cn, d) /\ OpenSubs(d) = OpenSubs(cn) \ S
      BY <1>3, <1>7, <2>1, <2>2, RejectAllKeeps DEF CloseAllSubs
    <2>4. OpenSubs(d) = {}
      BY <2>2, <2>3
    <2>5. Preserves(peer, d)
      BY <1>3, <2>3, KeepsTwice
    <2> QED BY <2>3, <2>4, <2>5
  <1>8. CASE ~VisibleTo(peer.authed, Ev(i)) /\ d = cn
    BY <1>3, <1>8, NoteIsVisible
  <1>9. CASE d = f[n]
    <2>1. M \subseteq SubIds /\ IsFiniteSet(M)
      <3>1. M \subseteq SubIds
        BY DEF OpenSubs, Matched
      <3> QED BY <3>1, SessionConstants, FS_Subset
    <2>2. path \in Seq(M) /\ Len(path) = Cardinality(M) /\ Cardinality(M) \in Nat /\ \A s \in M : \E k \in 1..Cardinality(M) : path[k] = s
      BY <2>1, OrdersMeetAll
    <2>3. n \in Nat /\ (\A k \in 1..n : path[k] \in SubIds) /\ \A s \in M : \E k \in 1..n : path[k] = s
      BY <1>4, <2>1, <2>2, ElementOfSeq
    <2>4. Sound(d) /\ Preserves(cn, d) /\ (d.liveOver \/ \A k \in 1..n : Holds(d, path[k], i))
      BY <1>3, <1>4, <1>9, <2>3, DeliverAllKeeps
    <2>5. Preserves(peer, d)
      BY <1>3, <2>4, KeepsTwice
    <2>6. ASSUME ~d.liveOver, NEW s \in OpenSubs(d), Matches(peer.subs[s], Ev(i)) PROVE Holds(d, s, i)
      <3>1. s \in OpenSubs(peer)
        BY <2>5 DEF Preserves, OpenSubs
      <3>2. s \in M
        BY <2>6, <3>1 DEF Matched
      <3> QED BY <2>3, <2>4, <2>6, <3>2
    <2> QED BY <2>4, <2>5, <2>6
  <1> QED BY <1>5, <1>6, <1>7, <1>8, <1>9

\* One event of a batch is delivered.
LEMMA DeliverKeeps ==
  ASSUME SessionInv, DeliverOne
  PROVE  SessionInv'
  <1>0. /\ UNCHANGED <<req, page, access, view, store, toBus, bus, fan, menu>> /\ Sound(peer) /\ pc = "deliver" /\ cur # <<>>
        /\ cur' = Tail(cur) /\ cur \in Seq(EventIds)
    BY DEF DeliverOne, relayVars, SessionInv, SessionTypes
  <1>1. PICK i \in EventIds : i = Head(cur)
    BY <1>0, HeadTailProperties
  <1>2. PICK M : M = Matched(i)
    OBVIOUS
  <1>3. PICK path \in Orders(M) : LET cn == DeliverLiveAt(path, i) IN
           \/ cn.liveOver /\ peer' = CloseForLiveOverflow(cn) /\ pc' = "teardown" /\ UNCHANGED after
           \/ ~cn.liveOver /\ peer' = cn /\ ((pc' = "pump" /\ after' = "relieve") \/ UNCHANGED <<pc, after>>)
    BY <1>1, <1>2 DEF DeliverOne, Matched
  <1>4. PICK d : d = DeliverLiveAt(path, i)
    OBVIOUS
  <1>5. /\ Sound(d) /\ Preserves(peer, d)
        /\ d.liveOver \/ \A s \in OpenSubs(d) : Matches(peer.subs[s], Ev(i)) /\ Ev(i).class = "note" => Holds(d, s, i)
    BY <1>2, <1>3, <1>4, DeliverLiveKeeps
  <1>6. \/ peer' = CloseForLiveOverflow(d) /\ pc' = "teardown" /\ UNCHANGED after
        \/ ~d.liveOver /\ peer' = d /\ ((pc' = "pump" /\ after' = "relieve") \/ UNCHANGED <<pc, after>>)
    BY <1>3, <1>4
  <1>7. cur' \in Seq(EventIds)
    BY <1>0, HeadTailProperties
  <1>8. SessionTypes'
    BY <1>0, <1>7 DEF SessionInv, SessionTypes
  <1>9. after \in {"select", "top", "enqueue", "relieve"}
    BY NothingInHand
  <1>10. TaskAt'
    BY <1>0, <1>6, <1>9 DEF TaskAt
  <1>11. AnswerWhole'
    BY <1>0, <1>6 DEF AnswerWhole
  <1>12. CASE peer' = CloseForLiveOverflow(d) /\ pc' = "teardown"
    <2>1. Sound(peer')
      BY <1>5, <1>12, OverflowSound
    <2>2. NothingFallsBetween'
      BY <1>12 DEF NothingFallsBetween
    <2> QED BY <1>8, <1>10, <1>11, <2>1, <2>2 DEF SessionInv
  <1>13. CASE ~d.liveOver /\ peer' = d
    <2>1. NothingFallsBetween'
      <3> SUFFICES ASSUME ~fan'.overflow, NEW s \in OpenSubs(peer'), peer'.full[s],
                          NEW j \in store', Matches(peer'.subs[s], Ev(j)), Ev(j).class = "note"
                   PROVE  j \in view'[s].hist \cup view'[s].live \/ OnTheWay(s, j)'
        BY DEF NothingFallsBetween
      <3>1. peer.full[s] /\ peer'.subs[s] = peer.subs[s] /\ peer'.live = peer.live /\ (Holds(peer, s, j) => Holds(peer', s, j))
        BY <1>5, <1>13 DEF Preserves
      <3>2. s \in OpenSubs(peer) /\ ~fan.overflow /\ j \in store
        BY <1>0, <3>1 DEF OpenSubs
      <3>3. j \in view[s].hist \cup view[s].live \/ OnTheWay(s, j)
        BY <1>0, <3>1, <3>2 DEF SessionInv, NothingFallsBetween
      <3>4. Listed(cur, j) => Listed(cur', j) \/ Holds(peer', s, j)
        <4> SUFFICES ASSUME Listed(cur, j) PROVE Listed(cur', j) \/ Holds(peer', s, j)
          OBVIOUS
        <4>1. j = Head(cur) \/ Listed(cur', j)
          BY <1>0, HeadMoves
        <4>2. CASE j = Head(cur)
          BY <1>1, <1>5, <1>13, <3>1, <4>2
        <4> QED BY <4>1, <4>2
      <3>5. OnTheWay(s, j) => OnTheWay(s, j)'
        BY <1>0, <3>1, <3>4 DEF OnTheWay, Listed
      <3> QED BY <1>0, <3>3, <3>5
    <2> QED BY <1>5, <1>8, <1>10, <1>11, <1>13, <2>1 DEF SessionInv
  <1> QED BY <1>6, <1>12, <1>13

\* A frame is written: what it carried is in the view.
LEMMA SeenKeeps ==
  ASSUME NEW v \in WireView, NEW f \in Frame
  PROVE  /\ Seen(v, f) \in WireView /\ v.hist \cup v.live \subseteq Seen(v, f).hist \cup Seen(v, f).live
         /\ f.t = "EVENT" => f.ev \in Seen(v, f).hist \cup Seen(v, f).live
  <1>1. PICK h : h = IF f.t = "EVENT" /\ ~f.live THEN v.hist \cup {f.ev} ELSE v.hist
    OBVIOUS
  <1>2. PICK l : l = IF f.t = "EVENT" /\ f.live THEN v.live \cup {f.ev} ELSE v.live
    OBVIOUS
  <1>3. PICK p : p = CASE f.t = "CLOSED" -> "closed" [] f.t = "EOSE" -> "live" [] OTHER -> v.ph
    OBVIOUS
  <1>4. f.inc \in Nat /\ f.ev \in Nat /\ v.hist \in SUBSET Nat /\ v.live \in SUBSET Nat /\ v.ph \in {"closed", "scanning", "live"} /\ f.live \in BOOLEAN
    BY DEF Frame, WireView
  <1>5. h \in SUBSET Nat /\ l \in SUBSET Nat
    BY <1>1, <1>2, <1>4
  <1>6. p \in {"closed", "scanning", "live"}
    BY <1>3, <1>4
  <1>7. PICK w : w = Seen(v, f)
    OBVIOUS
  <1>8. w = [v EXCEPT !.last = f.inc, !.ph = p, !.hist = h, !.live = l]
    BY <1>1, <1>2, <1>3, <1>7 DEF Seen
  <1>9. w \in WireView /\ w.hist = h /\ w.live = l
    BY <1>4, <1>5, <1>6, <1>8 DEF WireView
  <1>10. v.hist \cup v.live \subseteq h \cup l /\ (f.t = "EVENT" => f.ev \in h \cup l)
    BY <1>1, <1>2, <1>4
  <1> QED BY <1>7, <1>9, <1>10

\* The queue loses its first frame.
Popped(cn, d) == d = [cn EXCEPT !.out = Tail(@)]

\* Only what it carried goes.
LEMMA FrameGoes ==
  ASSUME NEW cn, Sound(cn), cn.out # <<>>, NEW f, f = Head(cn.out), NEW d, Popped(cn, d)
  PROVE  /\ f \in Frame /\ Sound(d) /\ OpenSubs(d) = OpenSubs(cn) /\ d.subs = cn.subs /\ d.live = cn.live /\ d.full = cn.full
         /\ \A x, j : Holds(cn, x, j) => Holds(d, x, j) \/ (f.t = "EVENT" /\ f.sub = x /\ f.ev = j)
  <1>0. cn \in ConnRecord /\ cn.out \in Seq(Frame) /\ cn.reserved = SumReserved(cn.pending)
    BY DEF Sound, ConnRecord, Accounts
  <1>1. PICK o : o = Tail(cn.out)
    OBVIOUS
  <1>2. PICK n : n \in Nat /\ n = Len(cn.out) /\ DOMAIN cn.out = 1..n
    BY <1>0, LenProperties
  <1>3. o \in Seq(Frame) /\ f \in Frame /\ f = cn.out[1] /\ Len(o) = n - 1 /\ \A k \in 1..Len(o) : o[k] = cn.out[k + 1]
    BY <1>0, <1>1, <1>2, HeadTailProperties
  <1>4. DOMAIN o = 1..(n - 1)
    BY <1>3, LenProperties
  <1>5. \A x, j : Queued(cn.out, x, j) => Queued(o, x, j) \/ (f.t = "EVENT" /\ f.sub = x /\ f.ev = j)
    <2> SUFFICES ASSUME NEW x, NEW j, Queued(cn.out, x, j) PROVE Queued(o, x, j) \/ (f.t = "EVENT" /\ f.sub = x /\ f.ev = j)
      OBVIOUS
    <2>1. PICK k \in 1..n : cn.out[k].t = "EVENT" /\ cn.out[k].sub = x /\ cn.out[k].ev = j
      BY <1>2 DEF Queued
    <2>2. CASE k = 1
      BY <1>3, <2>1, <2>2
    <2>3. CASE k # 1
      <3>1. k - 1 \in 1..(n - 1) /\ (k - 1) + 1 = k
        BY <1>2, <2>3
      <3>2. o[k - 1] = cn.out[k]
        BY <1>3, <3>1
      <3> QED BY <1>4, <2>1, <3>1, <3>2 DEF Queued
    <2> QED BY <2>2, <2>3
  <1>6. d = [cn EXCEPT !.out = o]
    BY <1>1 DEF Popped
  <1>7. But(cn, d, {"out"}) /\ d.out = o
    <2>1. o \in Seq(Frame)
      BY <1>3
    <2> QED BY <1>0, <1>6, <2>1, SetOut
  <1>8. But(cn, d, Aside \cup {"out", "pending", "reserved", "full"}) /\ d.reserved = cn.reserved /\ d.full = cn.full /\ d.pending = cn.pending
    BY <1>7 DEF But, ConnFields, Aside
  <1>9. d.reserved = SumReserved(d.pending)
    BY <1>0, <1>8
  <1>10. Sound(d) /\ OpenSubs(d) = OpenSubs(cn) /\ d.subs = cn.subs /\ d.live = cn.live
    <2>1. But(cn, d, Aside \cup {"out", "pending", "reserved", "full"})
      BY <1>8
    <2> QED BY <1>9, <2>1, SoundAside
  <1>11. \A x, j : Holds(cn, x, j) => Holds(d, x, j) \/ (f.t = "EVENT" /\ f.sub = x /\ f.ev = j)
    BY <1>5, <1>7, <1>8 DEF Holds
  <1> QED BY <1>3, <1>8, <1>10, <1>11

\* drain_outgoing and flush_and_close: what leaves the queue is in the view.
LEMMA WriteKeeps ==
  ASSUME SessionInv, WriteFrame
  PROVE  SessionInv'
  <1>0. /\ UNCHANGED <<pc, after, req, page, cur, access, store, toBus, bus, fan, menu>> /\ Sound(peer) /\ pc \in {"drain", "relieve", "teardown"}
        /\ peer.out # <<>> /\ peer' = [peer EXCEPT !.out = Tail(@)] /\ view \in [SubIds -> WireView]
    BY DEF WriteFrame, relayVars, SessionInv, SessionTypes
  <1>1. PICK f : f = Head(peer.out)
    OBVIOUS
  <1>2. /\ f \in Frame /\ Sound(peer') /\ OpenSubs(peer') = OpenSubs(peer) /\ peer'.subs = peer.subs /\ peer'.live = peer.live /\ peer'.full = peer.full
        /\ \A x, j : Holds(peer, x, j) => Holds(peer', x, j) \/ (f.t = "EVENT" /\ f.sub = x /\ f.ev = j)
    BY <1>0, <1>1, FrameGoes DEF Popped
  <1>3. view' = IF f.sub = NoSub THEN view ELSE [view EXCEPT ![f.sub] = Seen(view[f.sub], f)]
    BY <1>1 DEF WriteFrame
  <1>4. f.sub \in SubIds \cup {NoSub} /\ NoSub \notin SubIds
    BY <1>2, SessionConstants DEF Frame
  <1>5. /\ view' \in [SubIds -> WireView]
        /\ \A x \in SubIds : view[x].hist \cup view[x].live \subseteq view'[x].hist \cup view'[x].live
        /\ \A x \in SubIds : f.t = "EVENT" /\ f.sub = x => f.ev \in view'[x].hist \cup view'[x].live
    <2>1. CASE f.sub = NoSub
      BY <1>0, <1>3, <1>4, <2>1
    <2>2. CASE f.sub # NoSub
      <3>1. PICK s \in SubIds : s = f.sub
        BY <1>4, <2>2
      <3>2. view[s] \in WireView
        BY <1>0
      <3>3. PICK w : w = Seen(view[s], f)
        OBVIOUS
      <3>4. /\ w \in WireView /\ view[s].hist \cup view[s].live \subseteq w.hist \cup w.live /\ (f.t = "EVENT" => f.ev \in w.hist \cup w.live)
        BY <1>2, <3>2, <3>3, SeenKeeps
      <3>5. view' = [view EXCEPT ![s] = w]
        BY <1>3, <2>2, <3>1, <3>3
      <3>6. view' \in [SubIds -> WireView] /\ view'[s] = w /\ \A x \in SubIds : x # s => view'[x] = view[x]
        BY <1>0, <3>4, <3>5
      <3> QED BY <3>1, <3>4, <3>6
    <2> QED BY <2>1, <2>2
  <1>6. SessionTypes'
    BY <1>0, <1>5 DEF SessionInv, SessionTypes
  <1>7. TaskAt'
    BY <1>0 DEF SessionInv, TaskAt
  <1>8. AnswerWhole'
    BY <1>0 DEF AnswerWhole
  <1>9. NothingFallsBetween'
    <2> SUFFICES ASSUME pc' \notin {"teardown", "gone"}, ~fan'.overflow, NEW s \in OpenSubs(peer'), peer'.full[s],
                        NEW j \in store', Matches(peer'.subs[s], Ev(j)), Ev(j).class = "note"
                 PROVE  j \in view'[s].hist \cup view'[s].live \/ OnTheWay(s, j)'
      BY DEF NothingFallsBetween
    <2>1. s \in OpenSubs(peer) /\ s \in SubIds /\ ~fan.overflow /\ j \in store /\ peer.full[s] /\ Matches(peer.subs[s], Ev(j)) /\ pc \notin {"teardown", "gone"}
      BY <1>0, <1>2 DEF OpenSubs
    <2>2. j \in view[s].hist \cup view[s].live \/ OnTheWay(s, j)
      BY <2>1 DEF SessionInv, NothingFallsBetween
    <2>3. Holds(peer, s, j) => Holds(peer', s, j) \/ j \in view'[s].hist \cup view'[s].live
      BY <1>2, <1>5, <2>1
    <2>4. OnTheWay(s, j) => OnTheWay(s, j)' \/ j \in view'[s].hist \cup view'[s].live
      BY <1>0, <1>2, <2>3 DEF OnTheWay
    <2> QED BY <1>5, <2>1, <2>2, <2>4
  <1> QED BY <1>2, <1>6, <1>7, <1>8, <1>9 DEF SessionInv

\* The live queue moves: the accounts stand while there is still one.
LEMMA LiveMoves ==
  ASSUME NEW cn, Sound(cn), NEW d, But(cn, d, {"live", "reqAuth"}), (d.live = NoQueue) <=> (cn.live = NoQueue)
  PROVE  /\ Sound(d) /\ OpenSubs(d) = OpenSubs(cn) /\ d.subs = cn.subs /\ d.full = cn.full
         /\ \A x, j : Holds(cn, x, j) => Holds(d, x, j)
  <1>1. /\ d \in ConnRecord /\ d.subs = cn.subs /\ d.full = cn.full /\ d.pending = cn.pending /\ d.out = cn.out
        /\ d.held = cn.held /\ d.subBytes = cn.subBytes /\ d.index = cn.index /\ d.reserved = cn.reserved
    BY DEF But, ConnFields
  <1>2. OpenSubs(d) = OpenSubs(cn)
    BY <1>1 DEF OpenSubs
  <1>3. RegisteredComponents(d) = RegisteredComponents(cn) /\ \A s \in SubIds : SubBytes(d, s) = SubBytes(cn, s)
    BY <1>1, <1>2 DEF RegisteredComponents, SubBytes
  <1>4. [s \in SubIds |-> SubBytes(d, s)] = [s \in SubIds |-> SubBytes(cn, s)]
    BY <1>3
  <1>5. Sound(d)
    <2>1. Accounts(cn)
      BY DEF Sound
    <2> QED BY <1>1, <1>2, <1>3, <1>4, <2>1 DEF Sound, Accounts
  <1> QED BY <1>1, <1>2, <1>5 DEF Holds

\* A batch goes from the live queue into the hands of the task.
LEMMA TakeKeeps ==
  ASSUME SessionInv, TakeBatch
  PROVE  SessionInv'
  <1>0. /\ UNCHANGED <<after, req, page, access, view, store, toBus, bus, fan, menu>> /\ Sound(peer) /\ pc = "select" /\ pc' = "deliver"
        /\ peer.live # NoQueue /\ peer.live.q # <<>> /\ cur' = Head(peer.live.q)
        /\ peer' = [peer EXCEPT !.live.q = Tail(@), !.reqAuth = access.cfgAuth]
    BY DEF TakeBatch, relayVars, SessionInv
  <1>1. cur = <<>> /\ after \in {"select", "top", "enqueue", "relieve"}
    BY <1>0, NothingInHand
  <1>2. peer \in ConnRecord /\ peer.live \in LiveQueue
    BY <1>0 DEF Sound, ConnRecord
  <1>3. PICK q : q = peer.live.q /\ q \in Seq(Seq(EventIds)) /\ q # <<>>
    BY <1>0, <1>2 DEF LiveQueue
  <1>4. PICK t : t = Tail(q)
    OBVIOUS
  <1>5. PICK n : n \in Nat /\ n = Len(q) /\ DOMAIN q = 1..n
    BY <1>3, LenProperties
  <1>6. Head(q) \in Seq(EventIds) /\ Head(q) = q[1] /\ t \in Seq(Seq(EventIds)) /\ Len(t) = n - 1 /\ \A k \in 1..Len(t) : t[k] = q[k + 1]
    BY <1>3, <1>4, <1>5, HeadTailProperties
  <1>7. DOMAIN t = 1..(n - 1)
    BY <1>6, LenProperties
  <1>8. PICK l : l = [peer.live EXCEPT !.q = t]
    OBVIOUS
  <1>9. l \in LiveQueue /\ l.q = t /\ l.gen = peer.live.gen
    BY <1>2, <1>6, <1>8 DEF LiveQueue
  <1>10. l # NoQueue
    BY <1>9, SessionConstants
  <1>11. PICK b \in BOOLEAN : b = access.cfgAuth
    BY <1>2, VerdictType
  <1>12. peer' = [peer EXCEPT !.live = l, !.reqAuth = b]
    BY <1>0, <1>3, <1>4, <1>8, <1>11
  <1>13. But(peer, peer', {"live", "reqAuth"}) /\ peer'.live = l
    BY <1>2, <1>9, <1>12 DEF But, ConnRecord, ConnFields
  <1>14. /\ Sound(peer') /\ OpenSubs(peer') = OpenSubs(peer) /\ peer'.subs = peer.subs /\ peer'.full = peer.full
         /\ \A x, j : Holds(peer, x, j) => Holds(peer', x, j)
    BY <1>0, <1>10, <1>13, LiveMoves
  <1>15. SessionTypes'
    <2>1. cur' \in Seq(EventIds)
      BY <1>0, <1>3, <1>6
    <2> QED BY <1>0, <2>1 DEF SessionInv, SessionTypes
  <1>16. TaskAt'
    BY <1>0, <1>1 DEF TaskAt
  <1>17. NothingFallsBetween'
    <2> SUFFICES ASSUME ~fan'.overflow, NEW s \in OpenSubs(peer'), peer'.full[s],
                        NEW j \in store', Matches(peer'.subs[s], Ev(j)), Ev(j).class = "note"
                 PROVE  j \in view'[s].hist \cup view'[s].live \/ OnTheWay(s, j)'
      BY DEF NothingFallsBetween
    <2>1. s \in OpenSubs(peer) /\ ~fan.overflow /\ j \in store /\ peer.full[s] /\ Matches(peer.subs[s], Ev(j)) /\ view' = view
      BY <1>0, <1>14
    <2>2. j \in view[s].hist \cup view[s].live \/ OnTheWay(s, j)
      BY <1>0, <2>1 DEF SessionInv, NothingFallsBetween
    <2>3. (\E a \in DOMAIN q : Listed(q[a], j)) => (\E a \in DOMAIN t : Listed(t[a], j)) \/ Listed(cur', j)
      <3> SUFFICES ASSUME NEW a \in DOMAIN q, Listed(q[a], j) PROVE (\E k \in DOMAIN t : Listed(t[k], j)) \/ Listed(cur', j)
        OBVIOUS
      <3>1. CASE a = 1
        BY <1>0, <1>3, <1>6, <3>1
      <3>2. CASE a # 1
        <4>1. a - 1 \in 1..(n - 1) /\ (a - 1) + 1 = a
          BY <1>5, <3>2
        <4>2. t[a - 1] = q[a]
          BY <1>6, <4>1
        <4> QED BY <1>7, <4>1, <4>2
      <3> QED BY <3>1, <3>2
    <2>4. ~Listed(cur, j)
      BY <1>1 DEF Listed
    <2>5. OnTheWay(s, j) => OnTheWay(s, j)'
      <3>1. /\ UNCHANGED <<toBus, bus, fan>> /\ peer.live # NoQueue /\ peer'.live # NoQueue /\ peer'.live.gen = peer.live.gen
            /\ peer.live.q = q /\ peer'.live.q = t /\ (Holds(peer, s, j) => Holds(peer', s, j))
        BY <1>0, <1>3, <1>9, <1>10, <1>13, <1>14
      <3>2. CASE \E a \in DOMAIN q : Listed(q[a], j)
        BY <2>3, <3>1, <3>2 DEF OnTheWay, Listed
      <3>3. CASE ~(\E a \in DOMAIN q : Listed(q[a], j))
        BY <2>4, <3>1, <3>3 DEF OnTheWay, Listed
      <3> QED BY <3>2, <3>3
    <2> QED BY <2>1, <2>2, <2>5
  <1>18. AnswerWhole'
    BY <1>0 DEF AnswerWhole
  <1> QED BY <1>14, <1>15, <1>16, <1>17, <1>18 DEF SessionInv

\* The overflow watch ends the connection.
LEMMA OverflowKeeps ==
  ASSUME SessionInv, OverflowSeen
  PROVE  SessionInv'
  <1>0. /\ UNCHANGED <<after, req, page, cur, access, store, toBus, bus, menu, view>> /\ Sound(peer) /\ pc \in {"drain", "relieve", "select"}
        /\ pc' = "teardown" /\ peer' = CloseForLiveOverflow(peer) /\ fan' = [fan EXCEPT !.overflow = FALSE] /\ fan \in Fan
    BY DEF OverflowSeen, SessionInv, SessionTypes
  <1>1. Sound(peer')
    BY <1>0, OverflowSound
  <1>2. fan' \in Fan
    BY <1>0 DEF Fan
  <1>3. SessionTypes'
    BY <1>0, <1>2 DEF SessionInv, SessionTypes
  <1>4. TaskAt'
    BY <1>0, NothingInHand, AtElsewhere
  <1>5. AnswerWhole' /\ NothingFallsBetween'
    BY <1>0 DEF AnswerWhole, NothingFallsBetween
  <1> QED BY <1>1, <1>3, <1>4, <1>5 DEF SessionInv

\* A connection without subscriptions.
LEMMA EmptySound ==
  ASSUME NEW cn, cn \in ConnRecord, cn.subs = [s \in SubIds |-> NoSub], cn.subBytes = 0, cn.held = 0, cn.index = {}, cn.live = NoQueue,
         cn.reserved = SumReserved(cn.pending)
  PROVE  Sound(cn)
  <1>1. OpenSubs(cn) = {}
    BY DEF OpenSubs
  <1>2. RegisteredComponents(cn) = {} /\ Cardinality(OpenSubs(cn)) = 0
    BY <1>1, FS_EmptySet DEF RegisteredComponents
  <1>3. PICK g : g = [s \in SubIds |-> SubBytes(cn, s)]
    OBVIOUS
  <1>4. \A s \in SubIds : g[s] = 0
    BY <1>1, <1>3 DEF SubBytes
  <1>5. SumOver(g, SubIds) = 0
    BY <1>4, SumZero
  <1> QED BY <1>1, <1>2, <1>3, <1>5 DEF Sound, Accounts

\* The end of the connection gives everything back.
LEMMA TeardownKeeps ==
  ASSUME SessionInv, Teardown
  PROVE  SessionInv'
  <1>0. /\ UNCHANGED <<after, req, page, access, view, store, toBus, bus, fan, menu>> /\ Sound(peer) /\ pc' = "gone" /\ cur' = <<>>
    BY DEF Teardown, relayVars, SessionInv
  <1>1. PICK d : d = DropPending(peer, SubIds)
    OBVIOUS
  <1>2. Sound(d)
    BY <1>0, <1>1, DropPendingKeeps
  <1>3. d \in ConnRecord /\ d.reserved = SumReserved(d.pending)
    BY <1>2 DEF Sound, Accounts
  <1>4. PICK o, g : o = <<>> /\ g = [s \in SubIds |-> NoSub]
    OBVIOUS
  <1>5. o \in Seq(Frame) /\ g \in [SubIds -> Filters \cup {NoSub}]
    BY <1>4
  <1>6. PICK z, l, X : z = 0 /\ l = NoQueue /\ X = {}
    OBVIOUS
  <1>7. z \in Int /\ l \in LiveQueue \cup {NoQueue} /\ X \in SUBSET Components
    BY <1>6
  <1>8. peer' = [d EXCEPT !.out = o, !.subs = g, !.subBytes = z, !.held = z, !.index = X, !.live = l]
    BY <1>1, <1>4, <1>6 DEF Teardown
  <1>9. But(d, peer', {"out", "subs", "subBytes", "held", "index", "live"}) /\ peer'.subs = g /\ peer'.subBytes = z /\ peer'.held = z
        /\ peer'.index = X /\ peer'.live = l
    BY <1>3, <1>5, <1>7, <1>8 DEF But, ConnRecord, ConnFields
  <1>10. peer' \in ConnRecord /\ peer'.reserved = SumReserved(peer'.pending)
    BY <1>3, <1>9 DEF But, ConnFields
  <1>11. Sound(peer')
    BY <1>4, <1>6, <1>9, <1>10, EmptySound
  <1>12. SessionTypes'
    <2>1. cur' \in Seq(EventIds)
      BY <1>0
    <2> QED BY <1>0, <2>1 DEF SessionInv, SessionTypes
  <1>13. TaskAt'
    BY <1>0, NothingInHand DEF TaskAt
  <1>14. AnswerWhole' /\ NothingFallsBetween'
    BY <1>0 DEF AnswerWhole, NothingFallsBetween
  <1> QED BY <1>11, <1>12, <1>13, <1>14 DEF SessionInv

-----------------------------------------------------------------------------
(* The session *)

\* A new connection.
LEMMA SessionStarts ==
  ASSUME SessionInit
  PROVE  SessionInv
  <1>1. peer = FreshConn
    BY DEF SessionInit
  <1>2. /\ peer.subs = [s \in SubIds |-> NoSub] /\ peer.subBytes = 0 /\ peer.held = 0 /\ peer.index = {} /\ peer.live = NoQueue
        /\ peer.reserved = 0 /\ peer.pending = <<>>
    BY <1>1 DEF FreshConn
  <1>3. peer \in ConnRecord
    <2>1. [s \in SubIds |-> NoSub] \in [SubIds -> Filters \cup {NoSub}] /\ [s \in SubIds |-> 0] \in [SubIds -> Nat]
          /\ [s \in SubIds |-> FALSE] \in [SubIds -> BOOLEAN]
      OBVIOUS
    <2>2. <<>> \in Seq(Response) /\ <<>> \in Seq(Frame)
      OBVIOUS
    <2> QED BY <1>1, <2>1, <2>2 DEF FreshConn, ConnRecord
  <1>4. SumReserved(peer.pending) = 0
    <2>1. SumReserved(<<>>) = 0
      <3>1. DOMAIN <<>> = {}
        OBVIOUS
      <3> QED BY <3>1, SumEmpty DEF SumReserved
    <2> QED BY <1>2, <2>1
  <1>5. Sound(peer)
    BY <1>2, <1>3, <1>4, EmptySound
  <1>6. OpenSubs(peer) = {}
    BY <1>2 DEF OpenSubs
  <1>7. SessionTypes
    <2>1. access \in AccessSeenBy /\ page \in Page /\ fan \in Fan /\ cur \in Seq(EventIds) /\ bus \in Seq(EventIds)
      <3>1. <<>> \in Seq(EventIds)
        OBVIOUS
      <3>2. access \in AccessSeenBy
        BY DEF SessionInit, AccessSeenBy
      <3>3. page \in Page
        BY <3>1 DEF SessionInit, Page
      <3>4. fan \in Fan
        BY <3>1 DEF SessionInit, Fan
      <3> QED BY <3>1, <3>2, <3>3, <3>4 DEF SessionInit
    <2>2. view \in [SubIds -> WireView]
      BY DEF SessionInit, WireView
    <2>3. store \subseteq EventIds /\ menu \in Menus
      BY SessionConstants DEF SessionInit
    <2> QED BY <2>1, <2>2, <2>3 DEF SessionTypes
  <1>8. TaskAt
    BY DEF SessionInit, TaskAt
  <1>9. AnswerWhole
    BY DEF SessionInit, AnswerWhole
  <1>10. NothingFallsBetween
    BY <1>6 DEF NothingFallsBetween
  <1> QED BY <1>5, <1>7, <1>8, <1>9, <1>10 DEF SessionInv

\* Every step of the session keeps the invariant.
LEMMA SessionSteps ==
  ASSUME SessionInv, [SessionNext]_svars
  PROVE  SessionInv'
  <1>1. CASE UNCHANGED svars
    BY <1>1 DEF svars, SessionInv, Sound, ConnRecord, SessionTypes, TaskAt, Asking, Asks, AnswerWhole, NothingFallsBetween, OnTheWay, Holds
  <1>2. CASE ClientFrame
    BY <1>2, HandleReqKeeps, HandleCloseKeeps, CountKeeps, AuthKeeps DEF ClientFrame
  <1>3. CASE Task
    BY <1>3, PumpKeeps, EnqueueKeeps, AnswerKeeps, MoveKeeps, DeliverKeeps, WriteKeeps, OverflowKeeps, WatchKeeps, TakeKeeps, TeardownKeeps DEF Task
  <1>4. CASE ReaderAnswers \/ Stop
    BY <1>4, ReaderKeeps, MoveKeeps
  <1>5. CASE Bus \/ BusPanic \/ AcceptEvent \/ Administrator
    <2>1. Beside
      BY <1>5, LookupBeside, CollectBeside, PushBeside, PanicBeside, CommitBeside, BroadcastBeside, AdministratorBeside DEF Bus, AcceptEvent
    <2> QED BY <2>1, BesideKeeps
  <1> QED BY <1>1, <1>2, <1>3, <1>4, <1>5 DEF SessionNext

\* The accounts of a connection are exact in every reachable state: the slots held, the filter bytes, the index entries, the
\* live queue and the relay-wide reservation, for any filters, events, limits and interleaving of the connection task, the accept
\* path, the reader and the bus (ws/mod.rs Conn, pump_pending_reqs, ws/handler.rs handle_req).
THEOREM AccountsCorrect == SessionSpec => []AccountsExact
  <1>1. SessionInv => AccountsExact
    BY DEF SessionInv, Sound, AccountsExact
  <1> QED BY <1>1, SessionStarts, SessionSteps, PTL DEF SessionSpec

\* No open subscription that was promised a complete history misses an event: each stored one that matches and that anyone may
\* read was written to it or is still on its way, under the same interleavings (ws/handler.rs handle_req, ws/mod.rs deliver_live_at, relay/mod.rs
\* broadcast).
THEOREM DeliveryCorrect == SessionSpec => []NothingFallsBetween
  <1>1. SessionInv => NothingFallsBetween
    BY DEF SessionInv
  <1> QED BY <1>1, SessionStarts, SessionSteps, PTL DEF SessionSpec
=============================================================================
