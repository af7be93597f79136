-------------------------- MODULE EventStore_proofs --------------------------
(***************************************************************************)
(* Theorems about EventStore, for every set of events, pubkeys, addresses, *)
(* groups and requests and every chunk size and bound.                     *)
(***************************************************************************)
EXTENDS EventStore, TLAPS

\* Families of the derived state.
LEMMA FamilyType == \A e \in Event : Family(e) \in {"Group", "Role", "none"}
  BY DEF Family

\* The saturating counter stays within its width.
LEMMA IncType == \A n \in 0..MaxCounter : Inc(n) \in 0..MaxCounter
  BY BoundsType DEF Inc

\* MaxOf of integers is one of them and an upper bound of both.
LEMMA MaxOfProps ==
  \A x, y \in Int : /\ MaxOf(x, y) \in Int
                    /\ MaxOf(x, y) >= x /\ MaxOf(x, y) >= y
                    /\ MaxOf(x, y) = x \/ MaxOf(x, y) = y
  BY DEF MaxOf

\* remove_event over any set of ids keeps the event tables well typed.
LEMMA RemoveType ==
  ASSUME TypeOK, NEW R, NEW D, Remove(R, D)
  PROVE  /\ events' \subseteq Event
         /\ byPubkey' \subseteq Pubkey \X Event
         /\ byRecipient' \subseteq Pubkey \X Event
         /\ slot' \in [Address -> Event \cup {None}]
  BY DEF TypeOK, Remove

\* The generation counters stay within their width across a removal.
LEMMA BumpType ==
  ASSUME TypeOK, NEW R, BumpFor(R)
  PROVE  stamp' \in 0..MaxCounter /\ seq' \in [{"Group", "Role"} -> 0..MaxCounter]
  BY IncType DEF TypeOK, BumpFor

\* A scoped marker extended by a pubkey is still a set of deleters.
LEMMA ExtendType ==
  ASSUME NEW m \in SUBSET (Pubkey \cup {Anyone}), NEW p \in Pubkey
  PROVE  ExtendMarker(m, p) \in SUBSET (Pubkey \cup {Anyone})
  BY DEF ExtendMarker

\* The feeds an event is in.
LEMMA FeedsType == \A e \in Event : Feeds(e) \subseteq Pubkey /\ Ev[e].author \in Feeds(e)
  BY EvType DEF Feeds, EventRecord

\* No walk,
LEMMA IdleWalk == Idle \in Walk
  BY DEF Walk, Idle

\* the walk of a deletion request,
LEMMA DeleteWalkType ==
  ASSUME NEW r \in DeletionRequests, Scoped(r), NEW T \in SUBSET Event,
         NEW s \in {"targets", "addrs", "wraps", "clear"}
  PROVE  DeleteWalk(r, s, T) \in Walk
  BY DEF DeleteWalk, Walk

\* of a vanish request
LEMMA VanishWalkType ==
  ASSUME NEW p \in Pubkey, NEW s \in {"authored", "wraps"}
  PROVE  VanishWalk(p, s) \in Walk
  BY DEF VanishWalk, Walk

\* and of a group purge have the type of walks.
LEMMA PurgeWalkType ==
  ASSUME NEW g \in Group, NEW s \in {"history", "metadata"}
  PROVE  PurgeWalk(g, s) \in Walk
  BY DEF PurgeWalk, Walk

\* What the fields of a walk are, by the operation it belongs to.
LEMMA WalkFields ==
  ASSUME TypeOK
  PROVE  /\ walk.op = "delete" => /\ walk.req \in DeletionRequests /\ Scoped(walk.req)
                                  /\ walk.todo \subseteq Event
                                  /\ walk.stage \in {"targets", "addrs", "wraps", "clear"}
                                  /\ walk = DeleteWalk(walk.req, walk.stage, walk.todo)
         /\ walk.op = "vanish" => /\ walk.who \in Pubkey
                                  /\ walk.stage \in {"authored", "wraps"}
                                  /\ walk = VanishWalk(walk.who, walk.stage)
         /\ walk.op = "purge"  => /\ walk.grp \in Group
                                  /\ walk.stage \in {"history", "metadata"}
                                  /\ walk = PurgeWalk(walk.grp, walk.stage)
         /\ walk.op = "expire" => walk.at \in Nat
  BY DEF TypeOK, Walk, Idle, DeleteWalk, VanishWalk, PurgeWalk


USE DEF eventVars, markerVars, listVars, vanishVars, purgeVars, counterVars,
        bootVars, deleteVars

\* Every action keeps the type invariant.
LEMMA TypeStep == TypeOK /\ [Next]_vars => TypeOK'
<1> SUFFICES ASSUME TypeOK, [Next]_vars PROVE TypeOK'
  OBVIOUS
<1>put. ASSUME NEW e \in Event, Put(e) PROVE TypeOK'
  <2>1. StoreEvent(e) /\ Feeds(e) \subseteq Pubkey /\ IndexedRecipients(e) \subseteq Pubkey
    BY <1>put, FeedsType, EvType DEF Put, IndexedRecipients, EventRecord
  <2>2. /\ events' \subseteq Event /\ byPubkey' \subseteq Pubkey \X Event
        /\ byRecipient' \subseteq Pubkey \X Event /\ slot' \in [Address -> Event \cup {None}]
    BY <2>1 DEF StoreEvent, TypeOK
  <2>3. seq' \in [{"Group", "Role"} -> 0..MaxCounter]
    BY <2>1, IncType DEF StoreEvent, TypeOK
  <2> QED BY <1>put, <2>2, <2>3 DEF Put, TypeOK
<1>ban. ASSUME NEW e \in Event, Ban(e) PROVE TypeOK'
  <2>1. Remove({e} \cap events, {}) /\ BumpFor({e} \cap events)
    BY <1>ban DEF Ban
  <2> QED BY <1>ban, <2>1, RemoveType, BumpType DEF Ban, TypeOK
<1>unban. ASSUME NEW e \in Event, Unban(e) PROVE TypeOK'
  BY <1>unban DEF Unban, TypeOK
<1>allow. ASSUME NEW e \in Event, Allow(e) PROVE TypeOK'
  BY <1>allow DEF Allow, TypeOK
<1>unallow. ASSUME NEW e \in Event, Unallow(e) PROVE TypeOK'
  BY <1>unallow DEF Unallow, TypeOK
<1>begin. ASSUME NEW r \in DeletionRequests, BeginDeletion(r)
          PROVE  walk' \in Walk /\ delPending' \subseteq DeletionRequests
  <2>1. r.targets \in SUBSET Event
    BY RequestsType DEF DeletionRequest
  <2> QED BY <1>begin, <2>1, DeleteWalkType DEF BeginDeletion, TargetsOrAddrs, TypeOK
<1>sdel. ASSUME NEW r \in DeletionRequests, StartDeletion(r) PROVE TypeOK'
  <2>1. walk' \in Walk /\ delPending' \subseteq DeletionRequests
    BY <1>sdel, <1>begin DEF StartDeletion
  <2> QED BY <1>sdel, <2>1 DEF StartDeletion, TypeOK
<1>svan. ASSUME NEW v \in VanishRequests, StartVanish(v.who, v.until) PROVE TypeOK'
  <2>1. v.who \in Pubkey /\ v.until \in Int
    BY VanishType
  <2>2. walk' \in Walk
    BY <1>svan, <2>1, VanishWalkType DEF StartVanish
  <2>3. vanishPending' \in [Pubkey -> Int]
    BY <1>svan, <2>1, MaxOfProps DEF StartVanish, TypeOK
  <2> QED BY <1>svan, <2>2, <2>3 DEF StartVanish, TypeOK
<1>bpurge. ASSUME NEW g \in Group, NEW t \in Int, NEW u \in Int, BeginPurge(g, t, u)
           PROVE  /\ walk' \in Walk /\ purged' \in [Group -> Marker]
                  /\ purgePending' \in [Group -> PendingPurge]
  <2>1. walk' \in Walk
    BY <1>bpurge, PurgeWalkType DEF BeginPurge
  <2>2. purged[g] \in Marker /\ purgePending[g] \in PendingPurge
    BY DEF TypeOK
  <2>3. purged' \in [Group -> Marker]
    BY <1>bpurge, <2>2, MaxOfProps DEF BeginPurge, TypeOK, Marker, PendingPurge
  <2>4. purgePending' \in [Group -> PendingPurge]
    BY <1>bpurge, <2>2, MaxOfProps DEF BeginPurge, TypeOK, Marker, PendingPurge
  <2> QED BY <2>1, <2>3, <2>4
<1>spurge. ASSUME NEW g \in Group, NEW u \in PurgeBounds, StartPurge(g, u) PROVE TypeOK'
  <2>1. u \in Int /\ now \in Int
    BY BoundsType DEF TypeOK
  <2>2. BeginPurge(g, IF u = Forever THEN now ELSE u, u)
    BY <1>spurge DEF StartPurge
  <2>3. /\ walk' \in Walk /\ purged' \in [Group -> Marker]
        /\ purgePending' \in [Group -> PendingPurge]
    BY <2>1, <2>2, <1>bpurge
  <2> QED BY <1>spurge, <2>3 DEF StartPurge, TypeOK
<1>rpurge. ASSUME NEW g \in Group, ResumePurge(g) PROVE TypeOK'
  <2>1. purgePending[g].now \in Int /\ purgePending[g].until \in Int
    BY DEF TypeOK, PendingPurge
  <2>2. /\ walk' \in Walk /\ purged' \in [Group -> Marker]
        /\ purgePending' \in [Group -> PendingPurge]
    BY <1>rpurge, <2>1, <1>bpurge DEF ResumePurge
  <2> QED BY <1>rpurge, <2>2 DEF ResumePurge, TypeOK
<1>sexp. ASSUME StartExpiry PROVE TypeOK'
  <2>1. walk' \in Walk
    BY <1>sexp DEF StartExpiry, ExpiryWalk, Walk, TypeOK
  <2> QED BY <1>sexp, <2>1 DEF StartExpiry, TypeOK
<1>request. CASE Request
  <2>1. ListedEvents \subseteq Event
    BY BoundsType
  <2> QED
    BY <1>request, <2>1, <1>put, <1>ban, <1>unban, <1>allow, <1>unallow, <1>sdel, <1>svan,
       <1>spurge, <1>rpurge, <1>sexp DEF Request
<1>targets. ASSUME NEW C, DeleteTargets(C) PROVE TypeOK'
  <2> DEFINE r == walk.req
             gone == {e \in C \cap events : MayDelete(r, e)}
             mark == IF r.group = None THEN C \ events ELSE {}
  <2>0. walk.op = "delete" /\ walk.stage = "targets"
    BY <1>targets DEF DeleteTargets
  <2>1. r \in DeletionRequests /\ Scoped(r) /\ walk.todo \subseteq Event
    BY <2>0, WalkFields
  <2>2. Remove(gone, {}) /\ BumpFor(gone)
    BY <1>targets DEF DeleteTargets
  <2>3. walk' \in Walk
    <3>1. walk' = DeleteWalk(r, TargetsOrAddrs(walk.todo \ C), walk.todo \ C)
      BY <1>targets DEF DeleteTargets
    <3> QED BY <2>1, <3>1, DeleteWalkType DEF TargetsOrAddrs
  <2>4. deleted' \in [Event -> SUBSET (Pubkey \cup {Anyone})]
    <3>1. deleted' = [e \in Event |-> IF e \in gone THEN {Anyone}
                                      ELSE IF e \in mark THEN ExtendMarker(deleted[e], r.by)
                                      ELSE deleted[e]]
      BY <1>targets DEF DeleteTargets
    <3>2. r.by \in Pubkey \cup {None}
      BY <2>1, RequestsType DEF DeletionRequest
    <3>3. mark # {} => r.by \in Pubkey
      BY <2>1, <3>2 DEF Scoped
    <3> QED BY <3>1, <3>3, ExtendType DEF TypeOK
  <2> QED BY <1>targets, <2>2, <2>3, <2>4, RemoveType, BumpType DEF DeleteTargets, TypeOK
<1>addrs. ASSUME DeleteAddresses PROVE TypeOK'
  <2> DEFINE r == walk.req
             addrs == IF r.group = None THEN r.addrs ELSE {}
             owned == {a \in addrs : Owner[a] = r.by}
             hit == {a \in addrs : /\ slot[a] # None
                                   /\ Ev[slot[a]].created <= r.created
                                   /\ a \in owned \/ Ev[slot[a]].delegator = r.by}
             gone == {slot[a] : a \in hit}
  <2>1. r \in DeletionRequests /\ Scoped(r)
    BY <1>addrs, WalkFields DEF DeleteAddresses
  <2>2. Remove(gone, {}) /\ BumpFor(gone)
    BY <1>addrs DEF DeleteAddresses
  <2>3. walk' \in Walk
    <3>1. walk' = DeleteWalk(r, IF r.wraps /\ r.by # None THEN "wraps" ELSE "clear", {})
      BY <1>addrs DEF DeleteAddresses
    <3>2. DeleteWalk(r, "wraps", {}) \in Walk /\ DeleteWalk(r, "clear", {}) \in Walk
      BY <2>1, DeleteWalkType
    <3> QED BY <3>1, <3>2
  <2>4. deleted' \in [Event -> SUBSET (Pubkey \cup {Anyone})]
    BY <1>addrs DEF DeleteAddresses, TypeOK
  <2>5. addrCut' \in [Address -> Int]
    <3>1. r.created \in Int
      BY <2>1, RequestsType DEF DeletionRequest
    <3>2. addrCut' = [a \in Address |-> IF a \in owned \cup hit THEN MaxOf(addrCut[a], r.created)
                                        ELSE addrCut[a]]
      BY <1>addrs DEF DeleteAddresses
    <3> QED BY <3>1, <3>2, MaxOfProps DEF TypeOK
  <2> QED
    BY <1>addrs, <2>2, <2>3, <2>4, <2>5, RemoveType, BumpType DEF DeleteAddresses, TypeOK
<1>wrap. ASSUME NEW p \in Pubkey, NEW u, WrapChunk(p, u)
         PROVE  /\ deleted' \in [Event -> SUBSET (Pubkey \cup {Anyone})]
                /\ events' \subseteq Event
                /\ byPubkey' \subseteq Pubkey \X Event
                /\ byRecipient' \subseteq Pubkey \X Event
                /\ slot' \in [Address -> Event \cup {None}]
  <2>1. deleted' \in [Event -> SUBSET (Pubkey \cup {Anyone})]
    BY <1>wrap, ExtendType DEF WrapChunk, TypeOK
  <2> QED BY <1>wrap, <2>1, RemoveType DEF WrapChunk
<1>dwrap. ASSUME DeleteWraps PROVE TypeOK'
  <2>1. walk.req \in DeletionRequests /\ walk.req.by \in Pubkey \cup {None}
    BY <1>dwrap, WalkFields, RequestsType DEF DeleteWraps, DeletionRequest
  <2>2. WrapChunk(walk.req.by, Forever)
    BY <1>dwrap DEF DeleteWraps
  <2>3. walk.req.by \in Pubkey
    BY <2>1, <2>2, NoneIsFresh DEF WrapChunk, FirstChunk, WrapsLeft, TypeOK
  <2> QED BY <1>dwrap, <2>2, <2>3, <1>wrap DEF DeleteWraps, TypeOK
<1>dwdone. ASSUME DeleteWrapsDone PROVE TypeOK'
  <2>1. walk' \in Walk
    BY <1>dwdone, WalkFields, DeleteWalkType DEF DeleteWrapsDone
  <2> QED BY <1>dwdone, <2>1 DEF DeleteWrapsDone, TypeOK
<1>fdel. ASSUME FinishDeletion PROVE TypeOK'
  <2>1. walk.req \in DeletionRequests
    BY <1>fdel, WalkFields DEF FinishDeletion
  <2> QED BY <1>fdel, <2>1, IdleWalk DEF FinishDeletion, TypeOK
<1>vauth. ASSUME VanishAuthored PROVE TypeOK'
  <2>1. PICK R, D : Remove(R, D) /\ BumpFor(R)
    BY <1>vauth DEF VanishAuthored
  <2> QED BY <1>vauth, <2>1, RemoveType, BumpType DEF VanishAuthored, TypeOK
<1>vadone. ASSUME VanishAuthoredDone PROVE TypeOK'
  <2>1. walk' \in Walk
    BY <1>vadone, WalkFields, VanishWalkType DEF VanishAuthoredDone
  <2> QED BY <1>vadone, <2>1 DEF VanishAuthoredDone, TypeOK
<1>vwrap. ASSUME VanishWraps PROVE TypeOK'
  <2>1. walk.who \in Pubkey /\ WrapChunk(walk.who, vanishPending[walk.who])
    BY <1>vwrap, WalkFields DEF VanishWraps
  <2> QED BY <1>vwrap, <2>1, <1>wrap DEF VanishWraps, TypeOK
<1>fvan. ASSUME FinishVanish PROVE TypeOK'
  <2>1. walk.who \in Pubkey
    BY <1>fvan, WalkFields DEF FinishVanish
  <2>2. MaxOf(vanish[walk.who], vanishPending[walk.who]) \in Int
    BY <2>1, MaxOfProps DEF TypeOK
  <2>3. vanish' \in [Pubkey -> Int] /\ vanishPending' \in [Pubkey -> Int]
    BY <1>fvan, <2>1, <2>2 DEF FinishVanish, TypeOK
  <2> QED BY <1>fvan, <2>3, IdleWalk DEF FinishVanish, TypeOK
<1>pchunk. ASSUME PurgeChunk PROVE TypeOK'
  <2> DEFINE g == walk.grp
             gone == FirstChunk(PurgeLeft(g, walk.stage))
             creates == {e \in gone : Ev[e].kind = "create"}
  <2>1. g \in Group /\ purgePending[g] \in PendingPurge
    BY <1>pchunk, WalkFields DEF PurgeChunk, TypeOK
  <2>2. gone \subseteq Event
    BY DEF FirstChunk, PurgeLeft, TypeOK
  <2>3. PICK last \in gone, c \in creates \cup {purgePending[g].create} :
          purgePending' = [purgePending EXCEPT
                             ![g] = Raised(purgePending[g], Ev[last].created, c)]
    BY <1>pchunk DEF PurgeChunk
  <2>4. Ev[last].created \in Int /\ c \in Event \cup {None}
    BY <2>1, <2>2, EvType DEF EventRecord, PendingPurge
  <2>5. Raised(purgePending[g], Ev[last].created, c) \in PendingPurge
    BY <2>1, <2>4, MaxOfProps DEF PendingPurge, Raised
  <2>6. purgePending' \in [Group -> PendingPurge]
    BY <2>1, <2>3, <2>5 DEF TypeOK
  <2>7. Remove(gone, {}) /\ purgedEver' \subseteq Event
    BY <1>pchunk, <2>2 DEF PurgeChunk, TypeOK
  <2> QED BY <1>pchunk, <2>6, <2>7, RemoveType DEF PurgeChunk, TypeOK
<1>phdone. ASSUME PurgeHistoryDone PROVE TypeOK'
  <2>1. walk' \in Walk
    BY <1>phdone, WalkFields, PurgeWalkType DEF PurgeHistoryDone
  <2> QED BY <1>phdone, <2>1 DEF PurgeHistoryDone, TypeOK
<1>fpurge. ASSUME FinishPurge PROVE TypeOK'
  <2>1. walk.grp \in Group
    BY <1>fpurge, WalkFields DEF FinishPurge
  <2>2. purged[walk.grp] \in Marker /\ purgePending[walk.grp] \in PendingPurge
    BY <2>1 DEF TypeOK
  <2>3. purged' \in [Group -> Marker]
    BY <1>fpurge, <2>1, <2>2, MaxOfProps DEF FinishPurge, TypeOK, Marker, PendingPurge
  <2>4. purgePending' \in [Group -> PendingPurge]
    BY <1>fpurge, <2>1 DEF FinishPurge, TypeOK, PendingPurge, NoPending
  <2>5. stamp' \in 0..MaxCounter /\ seq' \in [{"Group", "Role"} -> 0..MaxCounter]
    BY <1>fpurge, IncType DEF FinishPurge, TypeOK
  <2> QED BY <1>fpurge, <2>3, <2>4, <2>5, IdleWalk DEF FinishPurge, TypeOK
<1>echunk. ASSUME ExpiryChunk PROVE TypeOK'
  <2>1. PICK R : Remove(R, {}) /\ BumpFor(R)
    BY <1>echunk DEF ExpiryChunk
  <2> QED BY <1>echunk, <2>1, RemoveType, BumpType DEF ExpiryChunk, TypeOK
<1>fexp. ASSUME FinishExpiry PROVE TypeOK'
  BY <1>fexp, IdleWalk DEF FinishExpiry, TypeOK
<1>walkstep. CASE WalkStep
  BY <1>walkstep, <1>targets, <1>addrs, <1>dwrap, <1>dwdone, <1>fdel, <1>vauth, <1>vadone,
     <1>vwrap, <1>fvan, <1>pchunk, <1>phdone, <1>fpurge, <1>echunk, <1>fexp DEF WalkStep
<1>rvan. ASSUME NEW p \in Pubkey, ResumeVanish(p) PROVE TypeOK'
  <2>1. walk' \in Walk
    BY <1>rvan, VanishWalkType DEF ResumeVanish
  <2> QED BY <1>rvan, <2>1 DEF ResumeVanish, TypeOK
<1>vres. ASSUME VanishesResumed PROVE TypeOK'
  BY <1>vres DEF VanishesResumed, TypeOK
<1>rdel. ASSUME NEW r \in DeletionRequests, ResumeDeletion(r) PROVE TypeOK'
  <2>1. walk' \in Walk /\ delPending' \subseteq DeletionRequests
    BY <1>rdel, <1>begin DEF ResumeDeletion
  <2> QED BY <1>rdel, <2>1 DEF ResumeDeletion, TypeOK
<1>rdone. ASSUME RecoveryDone PROVE TypeOK'
  BY <1>rdone DEF RecoveryDone, TypeOK
<1>recovery. CASE RecoveryStep
  BY <1>recovery, <1>rvan, <1>vres, <1>rdel, <1>rdone DEF RecoveryStep
<1>fails. CASE WalkFails
  BY <1>fails, IdleWalk, BoundsType DEF WalkFails, TypeOK
<1>crash. CASE CrashAndRestart
  BY <1>crash, IdleWalk, BoundsType DEF CrashAndRestart, TypeOK
<1>tick. CASE Tick
  BY <1>tick DEF Tick, TypeOK
<1>stutter. CASE UNCHANGED vars
  BY <1>stutter DEF vars, TypeOK
<1> QED
  BY <1>request, <1>walkstep, <1>recovery, <1>fails, <1>crash, <1>tick, <1>stutter DEF Next

\* The tables keep their types: Spec => []TypeOK.
THEOREM TypeCorrect == Spec => []TypeOK
<1>1. Init => TypeOK
  <2> SUFFICES ASSUME Init PROVE TypeOK
    OBVIOUS
  <2>1. purged \in [Group -> Marker] /\ purgePending \in [Group -> PendingPurge]
    BY DEF Init, Marker, PendingPurge, NoPurge, NoPending
  <2> QED BY <2>1, IdleWalk, BoundsType DEF Init, TypeOK
<1> QED BY <1>1, TypeStep, PTL DEF Spec

------------------------------------------------------------------------------
(* What each action does to the event tables and the vanish tables: it      *)
(* leaves both alone, removes some events, or is one of the five that store *)
(* an event or move a vanish forward.                                       *)

\* The walk after a step is the same, or not a vanish walk past its first range.
WalkHeld ==
    walk' = walk \/ walk'.op # "vanish" \/ (walk'.op = "vanish" /\ walk'.stage = "authored")

Quiet == UNCHANGED <<events, byPubkey, byRecipient, slot, vanish, vanishPending>> /\ WalkHeld

Removal(R) == Remove(R, {}) /\ UNCHANGED <<vanish, vanishPending>> /\ WalkHeld

\* Every step is one of the classes above or one of five named actions.
LEMMA StepClasses ==
  ASSUME [Next]_vars
  PROVE  \/ Quiet
         \/ \E R : Removal(R)
         \/ \E e \in Event : Put(e)
         \/ \E v \in VanishRequests : StartVanish(v.who, v.until)
         \/ VanishAuthored \/ VanishAuthoredDone \/ FinishVanish
<1> USE DEF WalkHeld, Quiet, Removal, Idle, DeleteWalk, PurgeWalk, VanishWalk, ExpiryWalk
<1>1. ASSUME Request PROVE Quiet \/ (\E R : Removal(R)) \/ (\E e \in Event : Put(e))
                             \/ (\E v \in VanishRequests : StartVanish(v.who, v.until))
  <2>1. ASSUME NEW e \in ListedEvents, Ban(e) PROVE \E R : Removal(R)
    BY <2>1 DEF Ban
  <2>2. ASSUME NEW e \in ListedEvents, Unban(e) \/ Allow(e) \/ Unallow(e) PROVE Quiet
    BY <2>2 DEF Unban, Allow, Unallow
  <2>3. ASSUME NEW r \in DeletionRequests, StartDeletion(r) PROVE Quiet
    BY <2>3 DEF StartDeletion, BeginDeletion
  <2>4. ASSUME NEW g \in Group, NEW u \in PurgeBounds, StartPurge(g, u) PROVE Quiet
    BY <2>4 DEF StartPurge, BeginPurge
  <2>5. ASSUME NEW g \in Group, ResumePurge(g) PROVE Quiet
    BY <2>5 DEF ResumePurge, BeginPurge
  <2>6. ASSUME StartExpiry PROVE Quiet
    BY <2>6 DEF StartExpiry
  <2> QED BY <1>1, <2>1, <2>2, <2>3, <2>4, <2>5, <2>6 DEF Request
<1>2. ASSUME WalkStep
      PROVE  Quiet \/ (\E R : Removal(R)) \/ VanishAuthored \/ VanishAuthoredDone \/ FinishVanish
  <2>1. ASSUME NEW C, DeleteTargets(C) PROVE \E R : Removal(R)
    BY <2>1 DEF DeleteTargets
  <2>2. ASSUME DeleteAddresses PROVE \E R : Removal(R)
    BY <2>2 DEF DeleteAddresses
  <2>3. ASSUME DeleteWraps \/ VanishWraps PROVE \E R : Removal(R)
    BY <2>3 DEF DeleteWraps, VanishWraps, WrapChunk
  <2>4. ASSUME PurgeChunk PROVE \E R : Removal(R)
    BY <2>4 DEF PurgeChunk
  <2>5. ASSUME ExpiryChunk PROVE \E R : Removal(R)
    BY <2>5 DEF ExpiryChunk
  <2>6. ASSUME DeleteWrapsDone \/ FinishDeletion \/ PurgeHistoryDone \/ FinishExpiry
        PROVE  Quiet
    BY <2>6 DEF DeleteWrapsDone, FinishDeletion, PurgeHistoryDone, FinishExpiry
  <2>7. ASSUME FinishPurge PROVE Quiet
    BY <2>7 DEF FinishPurge
  <2> QED BY <1>2, <2>1, <2>2, <2>3, <2>4, <2>5, <2>6, <2>7 DEF WalkStep
<1>3. ASSUME RecoveryStep PROVE Quiet
  <2>1. ASSUME NEW p \in Pubkey, ResumeVanish(p) PROVE Quiet
    BY <2>1 DEF ResumeVanish
  <2>2. ASSUME NEW r \in DeletionRequests, ResumeDeletion(r) PROVE Quiet
    BY <2>2 DEF ResumeDeletion, BeginDeletion
  <2>3. ASSUME VanishesResumed \/ RecoveryDone PROVE Quiet
    BY <2>3 DEF VanishesResumed, RecoveryDone
  <2> QED BY <1>3, <2>1, <2>2, <2>3 DEF RecoveryStep
<1>4. ASSUME WalkFails \/ CrashAndRestart \/ Tick \/ UNCHANGED vars PROVE Quiet
  BY <1>4 DEF WalkFails, CrashAndRestart, Tick, vars
<1> QED BY <1>1, <1>2, <1>3, <1>4 DEF Next

------------------------------------------------------------------------------
(* Replacement slots.                                                       *)

\* A removal clears exactly the slots of the versions it takes away.
LEMMA RemoveKeepsSlots ==
  ASSUME TypeOK, SlotNamesTheVersion, NEW R, NEW D, Remove(R, D)
  PROVE  SlotNamesTheVersion'
  BY NoneIsFresh DEF TypeOK, SlotNamesTheVersion, Remove

\* A put moves the slot of its address with the version it stores.
LEMMA PutKeepsSlots ==
  ASSUME TypeOK, SlotNamesTheVersion, NEW e \in Event, Put(e)
  PROVE  SlotNamesTheVersion'
<1> DEFINE a == Ev[e].addr
           old == IF a = None \/ slot[a] = None THEN {} ELSE {slot[a]}
<1>1. /\ events' = (events \ old) \cup {e}
      /\ slot' = [b \in Address |-> IF b = a THEN e ELSE slot[b]]
      /\ Admitted(e)
  BY DEF Put, StoreEvent
<1>2. a \in Address \cup {None}
  BY EvType DEF EventRecord
<1>3. ASSUME NEW b \in Address, NEW f \in Event
      PROVE  (f \in events' /\ Ev[f].addr = b) <=> slot'[b] = f
  <2>1. CASE b = a
    BY <1>1, <1>2, <2>1, NoneIsFresh DEF SlotNamesTheVersion, TypeOK
  <2>2. CASE b # a
    BY <1>1, <1>2, <2>2, NoneIsFresh DEF SlotNamesTheVersion, TypeOK
  <2> QED BY <2>1, <2>2
<1> QED BY <1>3 DEF SlotNamesTheVersion

\* One stored version per replaceable address, and the slot names it.
THEOREM SlotCorrect == Spec => []SlotNamesTheVersion
<1>1. Init => SlotNamesTheVersion
  BY NoneIsFresh DEF Init, SlotNamesTheVersion
<1>2. TypeOK /\ SlotNamesTheVersion /\ [Next]_vars => SlotNamesTheVersion'
  <2> SUFFICES ASSUME TypeOK, SlotNamesTheVersion, [Next]_vars PROVE SlotNamesTheVersion'
    OBVIOUS
  <2>1. CASE Quiet \/ (\E v \in VanishRequests : StartVanish(v.who, v.until))
               \/ VanishAuthoredDone \/ FinishVanish
    <3>1. UNCHANGED <<events, slot>>
      BY <2>1 DEF Quiet, StartVanish, VanishAuthoredDone, FinishVanish
    <3> QED BY <3>1 DEF SlotNamesTheVersion
  <2>2. CASE (\E R : Removal(R)) \/ VanishAuthored
    BY <2>2, RemoveKeepsSlots DEF Removal, VanishAuthored
  <2>3. CASE \E e \in Event : Put(e)
    BY <2>3, PutKeepsSlots
  <2> QED BY <2>1, <2>2, <2>3, StepClasses
<1> QED BY <1>1, <1>2, TypeCorrect, PTL DEF Spec

------------------------------------------------------------------------------
(* NIP-62 vanish.                                                           *)

\* A vanish walk has its pending record, and once past the author's range it
\* has left nothing of it up to the recorded bound.
VanishWalkOK ==
    walk.op = "vanish" /\ walk.stage = "wraps" =>
        FeedLeft(walk.who, vanishPending[walk.who]) = {}

\* The inductive invariant: the ranges the walk scans are exact, so an empty
\* range means an absent history.
VanishInv == IndexesAgree /\ VanishHonoured /\ VanishWalkOK

\* The author's and delegator's bound never shrinks under the index clause.
Bound(p) == MaxOf(vanish[p], vanishPending[p])

\* The fields of an event.
LEMMA RecordTypes ==
  \A e \in Event : /\ Ev[e].author \in Pubkey /\ Ev[e].created \in Nat
                   /\ Ev[e].to \subseteq Pubkey /\ Ev[e].kind \in Kind
                   /\ IndexedRecipients(e) \subseteq Pubkey
  BY EvType DEF EventRecord, IndexedRecipients

\* Removal takes an event's entries with it; entries it drops on their own
\* must be a delegator's and covered by that delegator's vanish.
LEMMA RemoveKeepsIndexes ==
  ASSUME TypeOK, IndexesAgree, NEW R, NEW D, Remove(R, D),
         UNCHANGED <<vanish, vanishPending>>,
         \A x \in D : /\ x[1] # Ev[x[2]].author
                      /\ Bound(x[1]) >= Ev[x[2]].created
  PROVE  IndexesAgree'
<1>1. \A x \in byPubkey' : x[2] \in events' /\ x[1] \in Feeds(x[2])
  BY DEF IndexesAgree, Remove
<1>2. \A e \in events' :
          /\ <<Ev[e].author, e>> \in byPubkey'
          /\ \A p \in Feeds(e) :
                <<p, e>> \in byPubkey' \/ MaxOf(vanish'[p], vanishPending'[p]) >= Ev[e].created
  <2> SUFFICES ASSUME NEW e \in events'
               PROVE  /\ <<Ev[e].author, e>> \in byPubkey'
                      /\ \A p \in Feeds(e) : \/ <<p, e>> \in byPubkey'
                                             \/ MaxOf(vanish'[p], vanishPending'[p]) >= Ev[e].created
    OBVIOUS
  <2>1. e \in events /\ e \notin R
    BY DEF Remove
  <2>2. ASSUME NEW p, <<p, e>> \in byPubkey, <<p, e>> \notin byPubkey'
        PROVE  p # Ev[e].author /\ Bound(p) >= Ev[e].created
    BY <2>1, <2>2 DEF Remove
  <2> QED BY <2>1, <2>2 DEF IndexesAgree, Bound
<1>3. \A p \in Pubkey, e \in Event :
          <<p, e>> \in byRecipient' <=> e \in events' /\ p \in IndexedRecipients(e)
  BY DEF IndexesAgree, Remove
<1> QED BY <1>1, <1>2, <1>3 DEF IndexesAgree

\* Less stored history never breaks a completed vanish.
LEMMA RemoveKeepsVanish ==
  ASSUME VanishHonoured, NEW R, NEW D, Remove(R, D), vanish' = vanish
  PROVE  VanishHonoured'
  BY DEF VanishHonoured, Remove

\* A put of an author who has vanished is refused, or newer than the vanish.
LEMMA PutKeepsVanishInv ==
  ASSUME TypeOK, VanishInv, NEW e \in Event, Put(e)
  PROVE  VanishInv'
<1> DEFINE a == Ev[e].addr
           old == IF a = None \/ slot[a] = None THEN {} ELSE {slot[a]}
<1>1. /\ events' = (events \ old) \cup {e}
      /\ byPubkey' = {x \in byPubkey : x[2] \notin old} \cup (Feeds(e) \X {e})
      /\ byRecipient' = {x \in byRecipient : x[2] \notin old} \cup (IndexedRecipients(e) \X {e})
      /\ vanish' = vanish /\ vanishPending' = vanishPending /\ walk' = walk /\ walk = Idle
  BY DEF Put, StoreEvent, Serving
<1>2. /\ \A p \in Feeds(e) : vanish[p] = -1
      /\ \A p \in IndexedRecipients(e) : vanish[p] = -1
  BY DEF Put, Admitted, Blocked, VanishedOrPending, IndexedRecipients, GiftWrapKinds
<1> HIDE DEF old
<1>3. IndexesAgree'
  <2>1. \A x \in byPubkey' : x[2] \in events' /\ x[1] \in Feeds(x[2])
    BY <1>1 DEF VanishInv, IndexesAgree
  <2>2. \A f \in events' :
          /\ <<Ev[f].author, f>> \in byPubkey'
          /\ \A p \in Feeds(f) :
                <<p, f>> \in byPubkey' \/ MaxOf(vanish'[p], vanishPending'[p]) >= Ev[f].created
    <3> SUFFICES ASSUME NEW f \in events', f \in Event
                 PROVE  /\ <<Ev[f].author, f>> \in byPubkey'
                        /\ \A p \in Feeds(f) : \/ <<p, f>> \in byPubkey'
                                               \/ MaxOf(vanish[p], vanishPending[p]) >= Ev[f].created
      BY <1>1 DEF TypeOK
    <3>1. CASE f = e
      BY <1>1, <3>1, FeedsType
    <3>2. CASE f # e
      BY <1>1, <3>2 DEF VanishInv, IndexesAgree
    <3> QED BY <3>1, <3>2
  <2>3. \A p \in Pubkey, f \in Event :
          <<p, f>> \in byRecipient' <=> f \in events' /\ p \in IndexedRecipients(f)
    <3> SUFFICES ASSUME NEW p \in Pubkey, NEW f \in Event
                 PROVE  <<p, f>> \in byRecipient' <=> f \in events' /\ p \in IndexedRecipients(f)
      OBVIOUS
    <3>1. CASE f = e
      BY <1>1, <3>1 DEF VanishInv, IndexesAgree
    <3>2. CASE f # e
      BY <1>1, <3>2 DEF VanishInv, IndexesAgree
    <3> QED BY <3>1, <3>2
  <2> QED BY <2>1, <2>2, <2>3 DEF IndexesAgree
<1>4. VanishHonoured'
  <2> SUFFICES ASSUME NEW p \in Pubkey
               PROVE  /\ \A f \in events' : Ev[f].created <= vanish[p] =>
                            Ev[f].author # p /\ p \notin IndexedRecipients(f)
                      /\ \A f \in Event : Ev[f].created <= vanish[p] => <<p, f>> \notin byPubkey'
    BY <1>1 DEF VanishHonoured
  <2>1. Ev[e].created <= vanish[p] => p \notin Feeds(e) /\ p \notin IndexedRecipients(e)
    BY <1>2, RecordTypes
  <2>2. Ev[e].author \in Feeds(e)
    BY FeedsType
  <2> QED BY <1>1, <2>1, <2>2 DEF VanishInv, VanishHonoured
<1> QED BY <1>1, <1>3, <1>4 DEF VanishInv, VanishWalkOK, Idle

\* The bounds and timestamps a feed entry is compared by are integers.
LEMMA FeedBounds ==
    TypeOK => \A e \in events : \A p \in Feeds(e) :
                p \in Pubkey /\ Bound(p) \in Int /\ Ev[e].created \in Int
<1> SUFFICES ASSUME TypeOK, NEW e \in events, NEW p \in Feeds(e)
             PROVE  p \in Pubkey /\ Bound(p) \in Int /\ Ev[e].created \in Int
  OBVIOUS
<1>1. e \in Event
  BY DEF TypeOK
<1>2. p \in Pubkey
  BY <1>1, FeedsType
<1>3. vanish[p] \in Int /\ vanishPending[p] \in Int
  BY <1>2 DEF TypeOK
<1>4. Bound(p) \in Int
  BY <1>3 DEF Bound, MaxOf
<1> QED BY <1>1, <1>2, <1>4, RecordTypes

\* Every step keeps the inductive invariant.
LEMMA VanishStep == TypeOK /\ VanishInv /\ [Next]_vars => VanishInv'
<1> SUFFICES ASSUME TypeOK, VanishInv, [Next]_vars PROVE VanishInv'
  OBVIOUS
<1>quiet. CASE Quiet
  <2>1. IndexesAgree' /\ VanishHonoured'
    BY <1>quiet DEF Quiet, VanishInv, IndexesAgree, VanishHonoured
  <2>2. VanishWalkOK'
    BY <1>quiet DEF Quiet, WalkHeld, VanishInv, VanishWalkOK, FeedLeft
  <2> QED BY <2>1, <2>2 DEF VanishInv
<1>removal. ASSUME NEW R, Removal(R) PROVE VanishInv'
  <2>1. IndexesAgree' /\ VanishHonoured'
    BY <1>removal, RemoveKeepsIndexes, RemoveKeepsVanish DEF Removal, VanishInv
  <2>2. VanishWalkOK'
    BY <1>removal DEF Removal, Remove, WalkHeld, VanishInv, VanishWalkOK, FeedLeft
  <2> QED BY <2>1, <2>2 DEF VanishInv
<1>start. ASSUME NEW v \in VanishRequests, StartVanish(v.who, v.until) PROVE VanishInv'
  <2>1. /\ v.who \in Pubkey /\ v.until \in Int
        /\ vanishPending[v.who] \in Int
    BY VanishType DEF TypeOK
  <2>2. /\ UNCHANGED <<events, byPubkey, byRecipient, vanish>>
        /\ vanishPending' = [vanishPending EXCEPT ![v.who] = MaxOf(vanishPending[v.who], v.until)]
        /\ walk' = VanishWalk(v.who, "authored")
    BY <1>start DEF StartVanish
  <2>3. \A p \in Pubkey : vanishPending'[p] >= vanishPending[p]
    <3>1. MaxOf(vanishPending[v.who], v.until) >= vanishPending[v.who]
      BY <2>1 DEF MaxOf
    <3>2. \A p \in Pubkey : vanishPending[p] \in Int
      BY DEF TypeOK
    <3>3. \A p \in Pubkey : vanishPending'[p] = IF p = v.who
              THEN MaxOf(vanishPending[v.who], v.until) ELSE vanishPending[p]
      BY <2>2 DEF TypeOK
    <3> QED BY <3>1, <3>2, <3>3
  <2>4. \A p \in Pubkey : MaxOf(vanish'[p], vanishPending'[p]) >= Bound(p)
    BY <2>1, <2>2, <2>3 DEF TypeOK, Bound, MaxOf
  <2>5. IndexesAgree'
    <3>1. \A e \in events : \A p \in Feeds(e) : p \in Pubkey /\ Bound(p) \in Int /\ Ev[e].created \in Int
      BY FeedBounds
    <3>2. \A p \in Pubkey : MaxOf(vanish'[p], vanishPending'[p]) \in Int
      BY <2>1, <2>2, MaxOfProps DEF TypeOK
    <3> QED BY <2>2, <2>4, <3>1, <3>2 DEF VanishInv, IndexesAgree, Bound
  <2>6. VanishHonoured' /\ VanishWalkOK'
    BY <2>2 DEF VanishInv, VanishHonoured, VanishWalkOK, VanishWalk
  <2> QED BY <2>5, <2>6 DEF VanishInv
<1>authored. ASSUME VanishAuthored PROVE VanishInv'
  <2> DEFINE p == walk.who
             chunk == FirstChunk(FeedLeft(p, vanishPending[p]))
             gone == {e \in chunk : Ev[e].author = p}
  <2>1. /\ Remove(gone, {p} \X (chunk \ gone)) /\ walk' = walk
        /\ UNCHANGED <<vanish, vanishPending>> /\ walk.stage = "authored"
    BY <1>authored DEF VanishAuthored
  <2>2. p \in Pubkey /\ vanish[p] \in Int /\ vanishPending[p] \in Int
    BY <1>authored, WalkFields DEF VanishAuthored, TypeOK
  <2>3. \A e \in chunk : e \in Event /\ Ev[e].created <= vanishPending[p]
    BY DEF FirstChunk, FeedLeft
  <2>4. \A x \in {p} \X (chunk \ gone) : /\ x[1] # Ev[x[2]].author
                                          /\ Bound(x[1]) >= Ev[x[2]].created
    <3>1. Bound(p) >= vanishPending[p] /\ Bound(p) \in Int
      BY <2>2, MaxOfProps DEF Bound
    <3>2. \A e \in chunk \ gone : Ev[e].author # p /\ Bound(p) >= Ev[e].created
      BY <2>2, <2>3, <3>1, RecordTypes
    <3> QED BY <3>2
  <2>5. IndexesAgree'
    BY <2>1, <2>4, RemoveKeepsIndexes DEF VanishInv
  <2>6. VanishHonoured'
    BY <2>1, RemoveKeepsVanish DEF VanishInv
  <2> QED BY <2>1, <2>5, <2>6 DEF VanishInv, VanishWalkOK
<1>authoreddone. ASSUME VanishAuthoredDone PROVE VanishInv'
  <2>1. IndexesAgree' /\ VanishHonoured'
    BY <1>authoreddone DEF VanishAuthoredDone, VanishInv, IndexesAgree, VanishHonoured
  <2>2. VanishWalkOK'
    BY <1>authoreddone DEF VanishAuthoredDone, VanishWalkOK, VanishWalk, FeedLeft
  <2> QED BY <2>1, <2>2 DEF VanishInv
<1>finish. ASSUME FinishVanish PROVE VanishInv'
  <2> DEFINE p == walk.who
  <2>1. /\ p \in Pubkey /\ vanish[p] \in Int /\ vanishPending[p] \in Int
        /\ walk.op = "vanish" /\ walk.stage = "wraps"
        /\ WrapsLeft(p, vanishPending[p]) = {}
    BY <1>finish, WalkFields DEF FinishVanish, TypeOK
  <2>2. /\ UNCHANGED <<events, byPubkey, byRecipient>>
        /\ vanish' = [vanish EXCEPT ![p] = MaxOf(vanish[p], vanishPending[p])]
        /\ vanishPending' = [vanishPending EXCEPT ![p] = -1]
        /\ walk' = Idle
    BY <1>finish DEF FinishVanish
  <2>3. FeedLeft(p, vanishPending[p]) = {}
    BY <2>1 DEF VanishInv, VanishWalkOK
  <2>4. \A e \in events : Ev[e].created <= vanishPending[p] =>
            Ev[e].author # p /\ p \notin IndexedRecipients(e)
    BY <2>1, <2>3 DEF FeedLeft, WrapsLeft, VanishInv, IndexesAgree, TypeOK
  <2>5. \A e \in Event : Ev[e].created <= vanishPending[p] => <<p, e>> \notin byPubkey
    BY <2>3 DEF FeedLeft
  <2>6. VanishHonoured'
    <3> SUFFICES ASSUME NEW q \in Pubkey
                 PROVE  /\ \A e \in events : Ev[e].created <= vanish'[q] =>
                              Ev[e].author # q /\ q \notin IndexedRecipients(e)
                        /\ \A e \in Event : Ev[e].created <= vanish'[q] => <<q, e>> \notin byPubkey
      BY <2>2 DEF VanishHonoured
    <3>1. CASE q = p
      <4>1. vanish'[p] = vanish[p] \/ vanish'[p] = vanishPending[p]
        BY <2>1, <2>2, MaxOfProps DEF TypeOK
      <4> QED BY <2>4, <2>5, <3>1, <4>1 DEF VanishInv, VanishHonoured
    <3>2. CASE q # p
      BY <2>2, <3>2 DEF VanishInv, VanishHonoured, TypeOK
    <3> QED BY <3>1, <3>2
  <2>7. IndexesAgree'
    <3>1. \A q \in Pubkey : MaxOf(vanish'[q], vanishPending'[q]) >= Bound(q)
      BY <2>1, <2>2 DEF TypeOK, Bound, MaxOf
    <3>2. \A e \in events : \A q \in Feeds(e) : q \in Pubkey /\ Bound(q) \in Int /\ Ev[e].created \in Int
      BY FeedBounds
    <3>3. \A q \in Pubkey : MaxOf(vanish'[q], vanishPending'[q]) \in Int
      BY <2>1, <2>2 DEF TypeOK, MaxOf
    <3> QED BY <2>2, <3>1, <3>2, <3>3 DEF VanishInv, IndexesAgree, Bound
  <2> QED BY <2>2, <2>6, <2>7 DEF VanishInv, VanishWalkOK, Idle
<1> QED
  BY <1>quiet, <1>removal, <1>start, <1>authored, <1>authoreddone, <1>finish,
     PutKeepsVanishInv, StepClasses

\* The invariant of the vanish requests at the start,
LEMMA VanishInit == Init => VanishInv
  BY RecordTypes DEF Init, VanishInv, IndexesAgree, VanishHonoured, VanishWalkOK, Idle

\* and always.
LEMMA VanishInvariant == Spec => []VanishInv
  BY VanishInit, VanishStep, TypeCorrect, PTL DEF Spec

\* A completed vanish stays in force under every later request, crash and
\* failed walk: VanishHonoured is invariant.
THEOREM VanishCorrect == Spec => []VanishHonoured
  BY VanishInvariant, PTL DEF VanishInv

\* The author, delegator and recipient ranges agree with the stored events.
THEOREM IndexesCorrect == Spec => []IndexesAgree
  BY VanishInvariant, PTL DEF VanishInv

\* Slots and ranges name exactly the stored events at every commit
\* (put_event_in, remove_event), through every interrupted walk.
THEOREM TablesCorrect == Spec => []TablesAgree
  BY SlotCorrect, IndexesCorrect, PTL DEF TablesAgree

------------------------------------------------------------------------------
(* NIP-09 deletion.                                                         *)

\* The marker of e keeps its author's event out for good, or is full.
Settled(e) == \/ Anyone \in deleted[e] \/ Ev[e].author \in deleted[e]
              \/ Cardinality(deleted[e]) >= ScopedMax

\* The targets of r that its requester owns.
Own(r, e) == Ev[e].author = r.by /\ Ev[e].kind # "deletion"

CutsDone(r) == \A a \in r.addrs : Owner[a] = r.by => addrCut[a] >= r.created

\* Everything a request asked for is on disk.
RequestDone(r) ==
    r.group = None => (\A e \in r.targets : Own(r, e) => Settled(e)) /\ CutsDone(r)

\* No stored event is one its own marker or address cut forbids.
MarkersHold ==
    \A e \in events :
        /\ Ev[e].kind # "deletion" => Anyone \notin deleted[e] /\ Ev[e].author \notin deleted[e]
        /\ Ev[e].addr # None => Ev[e].created > addrCut[Ev[e].addr]

\* What a deletion walk has done by the stage it is in.
DeleteWalkOK ==
    walk.op = "delete" /\ walk.req.group = None =>
        /\ \A e \in walk.req.targets \ walk.todo : Own(walk.req, e) => Settled(e)
        /\ walk.stage # "targets" => walk.todo = {}
        /\ walk.stage \in {"wraps", "clear"} => CutsDone(walk.req)

\* The inductive invariant: a request is honoured only by a walk that put its
\* markers down, a marker is never taken back, and an admitted event has none.
DeleteInv == MarkersHold /\ DeleteWalkOK /\ \A r \in honoured : RequestDone(r)

\* Markers and cuts after a step: each was kept, raised or made unconditional.
MarkersGrow ==
    /\ \A e \in Event : \/ deleted'[e] = deleted[e] \/ deleted'[e] = {Anyone}
                        \/ \E p \in Pubkey : deleted'[e] = ExtendMarker(deleted[e], p)
    /\ \A a \in Address : addrCut'[a] >= addrCut[a]

\* The fields of a deletion request.
LEMMA RequestTypes ==
  \A r \in DeletionRequests :
    /\ r.targets \subseteq Event /\ r.addrs \subseteq Address /\ r.created \in Nat
    /\ r.by \in Pubkey \cup {None}
  BY RequestsType DEF DeletionRequest

\* A settled marker stays settled: a full list is not extended, an extended
\* one keeps its deleters.
LEMMA SettledGrows ==
  ASSUME MarkersGrow, NEW e \in Event, Settled(e)
  PROVE  Settled(e)'
<1>1. CASE deleted'[e] = deleted[e] \/ deleted'[e] = {Anyone}
  BY <1>1 DEF Settled
<1>2. ASSUME NEW p \in Pubkey, deleted'[e] = ExtendMarker(deleted[e], p) PROVE Settled(e)'
  BY <1>2 DEF Settled, ExtendMarker
<1> QED BY <1>1, <1>2 DEF MarkersGrow

\* The cut of an address never goes back,
LEMMA CutsGrow ==
  ASSUME TypeOK, TypeOK', MarkersGrow, NEW r \in DeletionRequests, CutsDone(r)
  PROVE  CutsDone(r)'
<1> SUFFICES ASSUME NEW a \in r.addrs, Owner[a] = r.by PROVE addrCut'[a] >= r.created
  BY DEF CutsDone
<1>1. a \in Address /\ r.created \in Int
  BY RequestTypes
<1>2. addrCut[a] \in Int /\ addrCut'[a] \in Int /\ addrCut'[a] >= addrCut[a]
  BY <1>1 DEF TypeOK, MarkersGrow
<1>3. addrCut[a] >= r.created
  BY DEF CutsDone
<1> QED BY <1>1, <1>2, <1>3

\* so a request that was carried out stays so.
LEMMA DoneGrows ==
  ASSUME TypeOK, TypeOK', MarkersGrow, NEW r \in DeletionRequests, RequestDone(r)
  PROVE  RequestDone(r)'
<1> SUFFICES ASSUME r.group = None
             PROVE  (\A e \in r.targets : Own(r, e) => Settled(e)') /\ CutsDone(r)'
  BY DEF RequestDone, Own
<1>1. CutsDone(r)'
  BY CutsGrow DEF RequestDone
<1>2. ASSUME NEW e \in r.targets, Own(r, e) PROVE Settled(e)'
  BY <1>2, SettledGrows, RequestTypes DEF RequestDone
<1> QED BY <1>1, <1>2

\* An unextended marker is kept word for word.
LEMMA KeptMarkersGrow == TypeOK /\ UNCHANGED markerVars => MarkersGrow
  BY DEF TypeOK, MarkersGrow

\* The steps that touch no marker, honour no request and store no event.
LeavesMarkers ==
    /\ UNCHANGED <<deleted, addrCut, honoured>> /\ events' \subseteq events
    /\ walk' = walk \/ walk'.op # "delete"

\* Every step leaves the markers alone or is one of the named actions.
LEMMA DeleteClasses ==
  ASSUME [Next]_vars
  PROVE  \/ LeavesMarkers
         \/ \E e \in Event : Put(e)
         \/ \E r \in DeletionRequests : StartDeletion(r) \/ ResumeDeletion(r)
         \/ \E C : DeleteTargets(C)
         \/ DeleteAddresses \/ DeleteWraps \/ DeleteWrapsDone \/ FinishDeletion \/ VanishWraps
<1> USE DEF LeavesMarkers, Idle, PurgeWalk, VanishWalk, ExpiryWalk
<1>1. ASSUME Request PROVE LeavesMarkers \/ (\E e \in Event : Put(e))
                             \/ (\E r \in DeletionRequests : StartDeletion(r))
  <2>1. ASSUME NEW e \in ListedEvents, Ban(e) PROVE LeavesMarkers
    BY <2>1 DEF Ban, Remove
  <2>2. ASSUME NEW e \in ListedEvents, Unban(e) \/ Allow(e) \/ Unallow(e) PROVE LeavesMarkers
    BY <2>2 DEF Unban, Allow, Unallow
  <2>3. ASSUME NEW v \in VanishRequests, StartVanish(v.who, v.until) PROVE LeavesMarkers
    BY <2>3 DEF StartVanish
  <2>4. ASSUME NEW g \in Group, NEW u \in PurgeBounds, StartPurge(g, u) PROVE LeavesMarkers
    BY <2>4 DEF StartPurge, BeginPurge
  <2>5. ASSUME NEW g \in Group, ResumePurge(g) PROVE LeavesMarkers
    BY <2>5 DEF ResumePurge, BeginPurge
  <2>6. ASSUME StartExpiry PROVE LeavesMarkers
    BY <2>6 DEF StartExpiry
  <2> QED BY <1>1, <2>1, <2>2, <2>3, <2>4, <2>5, <2>6 DEF Request
<1>2. ASSUME WalkStep
      PROVE  \/ LeavesMarkers \/ (\E C : DeleteTargets(C))
             \/ DeleteAddresses \/ DeleteWraps \/ DeleteWrapsDone \/ FinishDeletion \/ VanishWraps
  <2>1. ASSUME VanishAuthored PROVE LeavesMarkers
    BY <2>1 DEF VanishAuthored, Remove
  <2>2. ASSUME VanishAuthoredDone PROVE LeavesMarkers
    BY <2>2 DEF VanishAuthoredDone
  <2>3. ASSUME FinishVanish PROVE LeavesMarkers
    BY <2>3 DEF FinishVanish
  <2>4. ASSUME PurgeChunk PROVE LeavesMarkers
    BY <2>4 DEF PurgeChunk, Remove
  <2>5. ASSUME PurgeHistoryDone PROVE LeavesMarkers
    BY <2>5 DEF PurgeHistoryDone
  <2>6. ASSUME FinishPurge PROVE LeavesMarkers
    BY <2>6 DEF FinishPurge
  <2>7. ASSUME ExpiryChunk PROVE LeavesMarkers
    BY <2>7 DEF ExpiryChunk, Remove
  <2>8. ASSUME FinishExpiry PROVE LeavesMarkers
    BY <2>8 DEF FinishExpiry
  <2> QED BY <1>2, <2>1, <2>2, <2>3, <2>4, <2>5, <2>6, <2>7, <2>8 DEF WalkStep
<1>3. ASSUME RecoveryStep
      PROVE  LeavesMarkers \/ (\E r \in DeletionRequests : ResumeDeletion(r))
  <2>1. ASSUME NEW p \in Pubkey, ResumeVanish(p) PROVE LeavesMarkers
    BY <2>1 DEF ResumeVanish
  <2>2. ASSUME VanishesResumed \/ RecoveryDone PROVE LeavesMarkers
    BY <2>2 DEF VanishesResumed, RecoveryDone
  <2> QED BY <1>3, <2>1, <2>2 DEF RecoveryStep
<1>4. ASSUME WalkFails \/ CrashAndRestart \/ Tick \/ UNCHANGED vars PROVE LeavesMarkers
  BY <1>4 DEF WalkFails, CrashAndRestart, Tick, vars
<1> QED BY <1>1, <1>2, <1>3, <1>4 DEF Next

\* The walk clause and the honoured requests survive a step that keeps the
\* walk and only adds to the markers.
LEMMA GrowthKeepsWalk ==
  ASSUME TypeOK, TypeOK', DeleteInv, MarkersGrow, UNCHANGED <<walk, honoured>>
  PROVE  DeleteWalkOK' /\ \A r \in honoured' : RequestDone(r)'
<1>1. \A r \in honoured' : RequestDone(r)'
  BY DoneGrows DEF DeleteInv, TypeOK
<1>2. ASSUME walk.op = "delete", walk.req.group = None
      PROVE  /\ \A e \in walk.req.targets \ walk.todo : Own(walk.req, e) => Settled(e)'
             /\ walk.stage # "targets" => walk.todo = {}
             /\ walk.stage \in {"wraps", "clear"} => CutsDone(walk.req)'
  <2>1. walk.req \in DeletionRequests /\ walk.req.targets \subseteq Event
    BY <1>2, WalkFields, RequestTypes
  <2>2. /\ \A e \in walk.req.targets \ walk.todo : Own(walk.req, e) => Settled(e)
        /\ walk.stage # "targets" => walk.todo = {}
        /\ walk.stage \in {"wraps", "clear"} => CutsDone(walk.req)
    BY <1>2 DEF DeleteInv, DeleteWalkOK
  <2> QED BY <2>1, <2>2, SettledGrows, CutsGrow
<1>3. DeleteWalkOK'
  BY <1>2 DEF DeleteWalkOK, Own
<1> QED BY <1>1, <1>3

\* A chunk of gift wraps marks only what it removes.
LEMMA WrapsKeepMarkers ==
  ASSUME TypeOK, MarkersHold, NEW p \in Pubkey, NEW u, WrapChunk(p, u), UNCHANGED addrCut
  PROVE  MarkersGrow /\ MarkersHold'
<1> DEFINE gone == FirstChunk(WrapsLeft(p, u))
<1>1. /\ deleted' = [e \in Event |-> IF e \in gone THEN ExtendMarker(deleted[e], p)
                                     ELSE deleted[e]]
      /\ events' = events \ gone
  BY DEF WrapChunk, Remove
<1>2. MarkersGrow
  BY <1>1 DEF MarkersGrow, TypeOK
<1>3. MarkersHold'
  BY <1>1 DEF MarkersHold, TypeOK
<1> QED BY <1>2, <1>3

\* Every step keeps the inductive invariant.
LEMMA DeleteStep ==
  TypeOK /\ TypeOK' /\ SlotNamesTheVersion /\ DeleteInv /\ [Next]_vars => DeleteInv'
<1> SUFFICES ASSUME TypeOK, TypeOK', SlotNamesTheVersion, DeleteInv, [Next]_vars
             PROVE  DeleteInv'
  OBVIOUS
<1>leaves. CASE LeavesMarkers
  <2>1. MarkersGrow
    BY <1>leaves, KeptMarkersGrow DEF LeavesMarkers
  <2>2. MarkersHold'
    BY <1>leaves DEF LeavesMarkers, DeleteInv, MarkersHold
  <2>3. DeleteWalkOK'
    <3>1. CASE walk' = walk
      BY <1>leaves, <2>1, <3>1, GrowthKeepsWalk DEF LeavesMarkers
    <3>2. CASE walk'.op # "delete"
      BY <3>2 DEF DeleteWalkOK
    <3> QED BY <1>leaves, <3>1, <3>2 DEF LeavesMarkers
  <2>4. \A r \in honoured' : RequestDone(r)'
    BY <1>leaves, <2>1, DoneGrows DEF LeavesMarkers, DeleteInv, TypeOK
  <2> QED BY <2>2, <2>3, <2>4 DEF DeleteInv
<1>put. ASSUME NEW e \in Event, Put(e) PROVE DeleteInv'
  <2>1. /\ events' \subseteq events \cup {e}
        /\ UNCHANGED <<deleted, addrCut, honoured, walk>>
    BY <1>put DEF Put, StoreEvent
  <2>2. /\ Ev[e].kind # "deletion" => Anyone \notin deleted[e] /\ Ev[e].author \notin deleted[e]
        /\ Ev[e].addr # None => Ev[e].created > addrCut[Ev[e].addr]
    BY <1>put DEF Put, Admitted, Blocked, DeletionMarkerBlocks
  <2>3. MarkersHold'
    BY <2>1, <2>2 DEF DeleteInv, MarkersHold
  <2>4. MarkersGrow
    BY <2>1, KeptMarkersGrow
  <2> QED BY <2>1, <2>3, <2>4, GrowthKeepsWalk DEF DeleteInv
<1>begin. ASSUME NEW r \in DeletionRequests, StartDeletion(r) \/ ResumeDeletion(r)
          PROVE  DeleteInv'
  <2>1. /\ UNCHANGED <<events, deleted, addrCut, honoured>>
        /\ walk' = DeleteWalk(r, TargetsOrAddrs(r.targets), r.targets)
    BY <1>begin DEF StartDeletion, ResumeDeletion, BeginDeletion
  <2>2. MarkersHold' /\ \A q \in honoured' : RequestDone(q)'
    BY <2>1, DoneGrows, KeptMarkersGrow DEF DeleteInv, MarkersHold, TypeOK
  <2>3. DeleteWalkOK'
    BY <2>1 DEF DeleteWalkOK, DeleteWalk, TargetsOrAddrs
  <2> QED BY <2>2, <2>3 DEF DeleteInv
<1>targets. ASSUME NEW C, DeleteTargets(C) PROVE DeleteInv'
  <2> DEFINE r == walk.req
             gone == {e \in C \cap events : MayDelete(r, e)}
             mark == IF r.group = None THEN C \ events ELSE {}
  <2>1. /\ walk.op = "delete" /\ r \in DeletionRequests /\ Scoped(r)
        /\ walk.todo \subseteq Event
    BY <1>targets, WalkFields DEF DeleteTargets
  <2>2. /\ deleted' = [e \in Event |-> IF e \in gone THEN {Anyone}
                                       ELSE IF e \in mark THEN ExtendMarker(deleted[e], r.by)
                                       ELSE deleted[e]]
        /\ events' = events \ gone
        /\ walk' = DeleteWalk(r, TargetsOrAddrs(walk.todo \ C), walk.todo \ C)
        /\ UNCHANGED <<addrCut, honoured>>
    BY <1>targets DEF DeleteTargets, Remove
  <2>3. MarkersGrow
    <3>1. mark # {} => r.by \in Pubkey
      BY <2>1, RequestTypes DEF Scoped
    <3> QED BY <2>2, <3>1 DEF MarkersGrow, TypeOK
  <2>4. MarkersHold'
    BY <2>2 DEF DeleteInv, MarkersHold, TypeOK
  <2>5. \A q \in honoured' : RequestDone(q)'
    BY <2>2, <2>3, DoneGrows DEF DeleteInv, TypeOK
  <2>6. ASSUME r.group = None, NEW e \in r.targets \ (walk.todo \ C), Own(r, e)
        PROVE  Settled(e)'
    <3>1. e \in Event
      BY <2>1, RequestTypes
    <3>2. CASE e \notin C
      BY <2>1, <2>3, <2>6, <3>1, <3>2, SettledGrows DEF DeleteInv, DeleteWalkOK
    <3>3. CASE e \in C /\ e \in events
      <4>1. MayDelete(r, e)
        BY <2>6, <3>1, FeedsType DEF MayDelete, Own
      <4> QED BY <2>2, <3>1, <3>3, <4>1 DEF Settled
    <3>4. CASE e \in C /\ e \notin events
      <4>1. deleted'[e] = ExtendMarker(deleted[e], Ev[e].author)
        BY <2>2, <2>6, <3>1, <3>4 DEF Own
      <4> QED BY <4>1 DEF ExtendMarker, Settled
    <3> QED BY <3>2, <3>3, <3>4
  <2>7. DeleteWalkOK'
    BY <2>2, <2>6 DEF DeleteWalkOK, DeleteWalk, TargetsOrAddrs, Own
  <2> QED BY <2>4, <2>5, <2>7 DEF DeleteInv
<1>addrs. ASSUME DeleteAddresses PROVE DeleteInv'
  <2> DEFINE r == walk.req
             addrs == IF r.group = None THEN r.addrs ELSE {}
             owned == {a \in addrs : Owner[a] = r.by}
             hit == {a \in addrs : /\ slot[a] # None
                                   /\ Ev[slot[a]].created <= r.created
                                   /\ a \in owned \/ Ev[slot[a]].delegator = r.by}
             gone == {slot[a] : a \in hit}
  <2>1. /\ walk.op = "delete" /\ walk.stage = "addrs" /\ r \in DeletionRequests
        /\ r.created \in Int /\ r.addrs \subseteq Address
    BY <1>addrs, WalkFields, RequestTypes DEF DeleteAddresses
  <2>2. /\ addrCut' = [a \in Address |-> IF a \in owned \cup hit
                                         THEN MaxOf(addrCut[a], r.created) ELSE addrCut[a]]
        /\ deleted' = [e \in Event |-> IF e \in gone THEN {Anyone} ELSE deleted[e]]
        /\ events' = events \ gone
        /\ walk' = DeleteWalk(r, IF r.wraps /\ r.by # None THEN "wraps" ELSE "clear", {})
        /\ UNCHANGED honoured
    BY <1>addrs DEF DeleteAddresses, Remove
  <2>3. MarkersGrow
    <3>1. \A a \in Address : addrCut[a] \in Int
      BY DEF TypeOK
    <3>2. \A a \in Address : addrCut'[a] >= addrCut[a]
      BY <2>1, <2>2, <3>1, MaxOfProps
    <3> QED BY <2>2, <3>2 DEF MarkersGrow
  <2>4. MarkersHold'
    <3> SUFFICES ASSUME NEW e \in events'
                 PROVE  /\ Ev[e].kind # "deletion" =>
                              Anyone \notin deleted'[e] /\ Ev[e].author \notin deleted'[e]
                        /\ Ev[e].addr # None => Ev[e].created > addrCut'[Ev[e].addr]
      BY DEF MarkersHold
    <3>1. e \in events /\ e \in Event /\ e \notin gone /\ Ev[e].created \in Int
      BY <2>2, RecordTypes DEF TypeOK
    <3>2. Ev[e].kind # "deletion" => Anyone \notin deleted'[e] /\ Ev[e].author \notin deleted'[e]
      BY <2>2, <3>1 DEF DeleteInv, MarkersHold
    <3>3. ASSUME Ev[e].addr # None PROVE Ev[e].created > addrCut'[Ev[e].addr]
      <4> DEFINE a == Ev[e].addr
      <4>1. a \in Address /\ slot[a] = e
        BY <3>1, <3>3, EvType DEF EventRecord, SlotNamesTheVersion
      <4>2. Ev[e].created > addrCut[a] /\ addrCut[a] \in Int
        BY <3>1, <3>3, <4>1 DEF DeleteInv, MarkersHold, TypeOK
      <4>3. slot[a] # None
        BY <3>1, <4>1, NoneIsFresh
      <4>4. a \in owned \cup hit => Ev[e].created > r.created
        BY <2>1, <3>1, <4>1, <4>3
      <4> QED BY <2>1, <2>2, <3>1, <4>1, <4>2, <4>4, MaxOfProps
    <3> QED BY <3>2, <3>3
  <2>5. \A q \in honoured' : RequestDone(q)'
    BY <2>2, <2>3, DoneGrows DEF DeleteInv, TypeOK
  <2>6. ASSUME r.group = None, NEW a \in r.addrs, Owner[a] = r.by
        PROVE  addrCut'[a] >= r.created
    <3>1. a \in Address /\ a \in owned /\ addrCut[a] \in Int
      BY <2>1, <2>6 DEF TypeOK
    <3> QED BY <2>1, <2>2, <3>1, MaxOfProps
  <2>7. ASSUME r.group = None, NEW e \in r.targets, Own(r, e) PROVE Settled(e)'
    <3>1. walk.todo = {} /\ e \in Event
      BY <2>1, <2>7, RequestTypes DEF DeleteInv, DeleteWalkOK
    <3> QED BY <2>1, <2>3, <2>7, <3>1, SettledGrows DEF DeleteInv, DeleteWalkOK
  <2>8. DeleteWalkOK'
    BY <2>2, <2>6, <2>7 DEF DeleteWalkOK, DeleteWalk, CutsDone, Own
  <2> QED BY <2>4, <2>5, <2>8 DEF DeleteInv
<1>wraps. ASSUME DeleteWraps \/ VanishWraps PROVE DeleteInv'
  <2>1. PICK p \in Pubkey, u \in Int : WrapChunk(p, u)
    <3>1. CASE DeleteWraps
      <4>1. walk.req.by \in Pubkey \cup {None} /\ WrapChunk(walk.req.by, Forever)
        BY <3>1, WalkFields, RequestTypes DEF DeleteWraps
      <4>2. WrapsLeft(walk.req.by, Forever) # {}
        BY <4>1 DEF WrapChunk, FirstChunk
      <4>3. walk.req.by \in Pubkey
        BY <4>2 DEF WrapsLeft, TypeOK
      <4> QED BY <4>1, <4>3, BoundsType
    <3>2. CASE VanishWraps
      BY <3>2, WalkFields DEF VanishWraps, TypeOK
    <3> QED BY <1>wraps, <3>1, <3>2
  <2>2. UNCHANGED <<walk, honoured, addrCut>>
    BY <1>wraps DEF DeleteWraps, VanishWraps
  <2>3. MarkersGrow /\ MarkersHold'
    BY <2>1, <2>2, WrapsKeepMarkers DEF DeleteInv
  <2> QED BY <2>2, <2>3, GrowthKeepsWalk DEF DeleteInv
<1>wrapsdone. ASSUME DeleteWrapsDone PROVE DeleteInv'
  <2>1. /\ UNCHANGED <<events, deleted, addrCut, honoured>>
        /\ walk.op = "delete" /\ walk.stage = "wraps"
        /\ walk' = DeleteWalk(walk.req, "clear", {})
    BY <1>wrapsdone DEF DeleteWrapsDone
  <2>2. MarkersHold' /\ \A q \in honoured' : RequestDone(q)'
    BY <2>1, DoneGrows, KeptMarkersGrow DEF DeleteInv, MarkersHold, TypeOK
  <2>3. DeleteWalkOK'
    BY <2>1 DEF DeleteInv, DeleteWalkOK, DeleteWalk, Settled, CutsDone, Own
  <2> QED BY <2>2, <2>3 DEF DeleteInv
<1>finish. ASSUME FinishDeletion PROVE DeleteInv'
  <2>1. /\ UNCHANGED <<events, deleted, addrCut>> /\ walk' = Idle
        /\ walk.op = "delete" /\ walk.stage = "clear"
        /\ honoured' = honoured \cup {walk.req}
    BY <1>finish DEF FinishDeletion
  <2>2. RequestDone(walk.req)
    BY <2>1 DEF DeleteInv, DeleteWalkOK, RequestDone
  <2>3. walk.req \in DeletionRequests /\ honoured \subseteq DeletionRequests
    BY <2>1, WalkFields DEF TypeOK
  <2>4. MarkersHold' /\ \A q \in honoured' : RequestDone(q)'
    BY <2>1, <2>2, <2>3, DoneGrows, KeptMarkersGrow DEF DeleteInv, MarkersHold
  <2>5. DeleteWalkOK'
    BY <2>1 DEF DeleteWalkOK, Idle
  <2> QED BY <2>4, <2>5 DEF DeleteInv
<1> QED
  BY <1>leaves, <1>put, <1>begin, <1>targets, <1>addrs, <1>wraps, <1>wrapsdone, <1>finish,
     DeleteClasses

\* The invariant of the deletion requests always holds.
LEMMA DeleteInvariant == Spec => []DeleteInv
<1>1. Init => DeleteInv
  BY DEF Init, DeleteInv, MarkersHold, DeleteWalkOK, Idle
<1> QED BY <1>1, DeleteStep, SlotCorrect, TypeCorrect, PTL DEF Spec

\* A NIP-09 request whose walk completed stays in force under every later
\* put, removal, failed walk and crash: DeletionHonoured is invariant.
THEOREM DeletionCorrect == Spec => []DeletionHonoured
<1>1. TypeOK /\ DeleteInv => DeletionHonoured
  <2> SUFFICES ASSUME TypeOK, DeleteInv, NEW r \in honoured, r.group = None
               PROVE  /\ \A e \in r.targets \cap events :
                            Own(r, e) => MarkerFullOfOthers(e)
                      /\ \A e \in events : Ev[e].addr \in r.addrs /\ Ev[e].author = r.by
                                             => Ev[e].created > r.created
    BY DEF DeletionHonoured, Own
  <2>1. r \in DeletionRequests /\ RequestDone(r) /\ r.addrs \subseteq Address /\ r.created \in Int
    BY RequestTypes DEF TypeOK, DeleteInv
  <2>2. ASSUME NEW e \in r.targets \cap events, Own(r, e) PROVE MarkerFullOfOthers(e)
    BY <2>1, <2>2 DEF RequestDone, Settled, DeleteInv, MarkersHold, MarkerFullOfOthers, Own
  <2>3. ASSUME NEW e \in events, Ev[e].addr \in r.addrs, Ev[e].author = r.by
        PROVE  Ev[e].created > r.created
    <3> DEFINE a == Ev[e].addr
    <3>1. e \in Event /\ a \in Address /\ a # None
      BY <2>1, <2>3, NoneIsFresh DEF TypeOK
    <3>2. Owner[a] = r.by
      BY <2>3, <3>1, OwnerIsAuthor
    <3>3. addrCut[a] >= r.created /\ addrCut[a] \in Int
      BY <2>1, <2>3, <3>1, <3>2 DEF RequestDone, CutsDone, TypeOK
    <3>4. Ev[e].created > addrCut[a] /\ Ev[e].created \in Int
      BY <3>1, RecordTypes DEF DeleteInv, MarkersHold
    <3> QED BY <2>1, <3>3, <3>4
  <2> QED BY <2>2, <2>3
<1> QED BY <1>1, DeleteInvariant, TypeCorrect, PTL

------------------------------------------------------------------------------
(* NIP-29 group purge.                                                      *)

\* History: what the cut of a purge keeps out.
HistoryOf(e) == Ev[e].kind \notin {"create", "metadata"}

\* What a purge took is under the cut of the marker, or under the cut and the
\* bound of the record the purge is still pending with.
PurgedIsCut ==
    \A e \in purgedEver : HistoryOf(e) =>
        /\ Ev[e].group \in Group
        /\ \/ Ev[e].created <= purged[Ev[e].group].cut
           \/ /\ Ev[e].created <= purgePending[Ev[e].group].cut
              /\ Ev[e].created <= purgePending[Ev[e].group].until

\* What came back before the marker was written is within the bound of the
\* walk that will be run again.
BackIsPending ==
    \A e \in purgedEver \cap events : HistoryOf(e) =>
        Ev[e].created <= purgePending[Ev[e].group].until

\* A purge past the history range has left nothing of it up to its bound.
PurgeWalkOK ==
    walk.op = "purge" /\ walk.stage = "metadata" => PurgeLeft(walk.grp, "history") = {}

PurgeInv == PurgedIsCut /\ BackIsPending /\ PurgeWalkOK

\* The steps that touch no purge record and store no event.
LeavesPurges ==
    /\ UNCHANGED <<purged, purgePending, purgedEver>> /\ events' \subseteq events
    /\ walk' = walk \/ walk'.op # "purge"

\* Every step leaves the purges alone or is one of the named actions.
LEMMA PurgeClasses ==
  ASSUME [Next]_vars
  PROVE  \/ LeavesPurges
         \/ \E e \in Event : Put(e)
         \/ \E g \in Group, u \in PurgeBounds : StartPurge(g, u)
         \/ \E g \in Group : ResumePurge(g)
         \/ PurgeChunk \/ PurgeHistoryDone \/ FinishPurge
<1> USE DEF LeavesPurges, Idle, DeleteWalk, VanishWalk, ExpiryWalk
<1>1. ASSUME Request PROVE LeavesPurges \/ (\E e \in Event : Put(e))
                             \/ (\E g \in Group, u \in PurgeBounds : StartPurge(g, u))
                             \/ (\E g \in Group : ResumePurge(g))
  <2>1. ASSUME NEW e \in ListedEvents, Ban(e) PROVE LeavesPurges
    BY <2>1 DEF Ban, Remove
  <2>2. ASSUME NEW e \in ListedEvents, Unban(e) \/ Allow(e) \/ Unallow(e) PROVE LeavesPurges
    BY <2>2 DEF Unban, Allow, Unallow
  <2>3. ASSUME NEW v \in VanishRequests, StartVanish(v.who, v.until) PROVE LeavesPurges
    BY <2>3 DEF StartVanish
  <2>4. ASSUME NEW r \in DeletionRequests, StartDeletion(r) PROVE LeavesPurges
    BY <2>4 DEF StartDeletion, BeginDeletion
  <2>5. ASSUME StartExpiry PROVE LeavesPurges
    BY <2>5 DEF StartExpiry
  <2> QED BY <1>1, <2>1, <2>2, <2>3, <2>4, <2>5 DEF Request
<1>2. ASSUME WalkStep PROVE LeavesPurges \/ PurgeChunk \/ PurgeHistoryDone \/ FinishPurge
  <2>1. ASSUME NEW C, DeleteTargets(C) PROVE LeavesPurges
    BY <2>1 DEF DeleteTargets, Remove
  <2>2. ASSUME DeleteAddresses PROVE LeavesPurges
    BY <2>2 DEF DeleteAddresses, Remove
  <2>3. ASSUME DeleteWraps \/ VanishWraps PROVE LeavesPurges
    BY <2>3 DEF DeleteWraps, VanishWraps, WrapChunk, Remove
  <2>4. ASSUME DeleteWrapsDone \/ FinishDeletion PROVE LeavesPurges
    BY <2>4 DEF DeleteWrapsDone, FinishDeletion
  <2>5. ASSUME VanishAuthored PROVE LeavesPurges
    BY <2>5 DEF VanishAuthored, Remove
  <2>6. ASSUME VanishAuthoredDone \/ FinishVanish PROVE LeavesPurges
    BY <2>6 DEF VanishAuthoredDone, FinishVanish
  <2>7. ASSUME ExpiryChunk PROVE LeavesPurges
    BY <2>7 DEF ExpiryChunk, Remove
  <2>8. ASSUME FinishExpiry PROVE LeavesPurges
    BY <2>8 DEF FinishExpiry
  <2> QED BY <1>2, <2>1, <2>2, <2>3, <2>4, <2>5, <2>6, <2>7, <2>8 DEF WalkStep
<1>3. ASSUME RecoveryStep PROVE LeavesPurges
  <2>1. ASSUME NEW p \in Pubkey, ResumeVanish(p) PROVE LeavesPurges
    BY <2>1 DEF ResumeVanish
  <2>2. ASSUME NEW r \in DeletionRequests, ResumeDeletion(r) PROVE LeavesPurges
    BY <2>2 DEF ResumeDeletion, BeginDeletion
  <2>3. ASSUME VanishesResumed \/ RecoveryDone PROVE LeavesPurges
    BY <2>3 DEF VanishesResumed, RecoveryDone
  <2> QED BY <1>3, <2>1, <2>2, <2>3 DEF RecoveryStep
<1>4. ASSUME WalkFails \/ CrashAndRestart \/ Tick \/ UNCHANGED vars PROVE LeavesPurges
  BY <1>4 DEF WalkFails, CrashAndRestart, Tick, vars
<1> QED BY <1>1, <1>2, <1>3, <1>4 DEF Next

\* The fields of the purge tables.
LEMMA PurgeRecordTypes ==
  ASSUME TypeOK, NEW g \in Group
  PROVE  /\ purged[g].now \in Int /\ purged[g].cut \in Int
         /\ purgePending[g].now \in Int /\ purgePending[g].cut \in Int
         /\ purgePending[g].until \in Int
  BY DEF TypeOK, Marker, PendingPurge

\* Opening a purge, first or again, keeps every cut and widens the bound.
LEMMA BeginPurgeKeeps ==
  ASSUME TypeOK, PurgeInv, NEW g \in Group, NEW at \in Int, NEW until \in Int,
         BeginPurge(g, at, until), UNCHANGED <<events, purgedEver>>
  PROVE  PurgeInv'
<1>1. /\ purged[g].cut \in Int /\ purgePending[g].cut \in Int /\ purgePending[g].until \in Int
  BY PurgeRecordTypes
<1>2. PICK c1, n1, w1, u1 :
         /\ c1 = MaxOf(MaxOf(purged[g].cut, purgePending[g].cut), at)
         /\ u1 = MaxOf(purgePending[g].until, until)
         /\ purged' = [purged EXCEPT ![g] = [now |-> n1, cut |-> c1, create |-> w1]]
         /\ purgePending' = [purgePending EXCEPT ![g] =
                               [now |-> n1, cut |-> c1, create |-> w1, until |-> u1]]
  BY DEF BeginPurge
<1>3. /\ c1 \in Int /\ c1 >= purged[g].cut /\ c1 >= purgePending[g].cut
      /\ u1 \in Int /\ u1 >= purgePending[g].until
  <2>1. /\ MaxOf(purged[g].cut, purgePending[g].cut) \in Int
        /\ MaxOf(purged[g].cut, purgePending[g].cut) >= purged[g].cut
        /\ MaxOf(purged[g].cut, purgePending[g].cut) >= purgePending[g].cut
    BY <1>1, MaxOfProps
  <2>2. c1 \in Int /\ c1 >= MaxOf(purged[g].cut, purgePending[g].cut)
    BY <1>2, <2>1, MaxOfProps
  <2>3. u1 \in Int /\ u1 >= purgePending[g].until
    BY <1>1, <1>2, MaxOfProps
  <2> QED BY <1>1, <2>1, <2>2, <2>3
<1>4. /\ purged'[g].cut = c1 /\ purgePending'[g].cut = c1 /\ purgePending'[g].until = u1
      /\ \A h \in Group : h # g => purged'[h] = purged[h] /\ purgePending'[h] = purgePending[h]
  BY <1>2 DEF TypeOK
<1>5. PurgedIsCut'
  <2> SUFFICES ASSUME NEW e \in purgedEver, HistoryOf(e)
               PROVE  /\ Ev[e].group \in Group
                      /\ \/ Ev[e].created <= purged'[Ev[e].group].cut
                         \/ /\ Ev[e].created <= purgePending'[Ev[e].group].cut
                            /\ Ev[e].created <= purgePending'[Ev[e].group].until
    BY DEF PurgedIsCut, HistoryOf
  <2>1. e \in Event /\ Ev[e].created \in Int /\ Ev[e].group \in Group
    BY RecordTypes DEF TypeOK, PurgeInv, PurgedIsCut
  <2> QED BY <1>1, <1>3, <1>4, <2>1 DEF PurgeInv, PurgedIsCut
<1>6. BackIsPending'
  <2> SUFFICES ASSUME NEW e \in purgedEver \cap events, HistoryOf(e)
               PROVE  Ev[e].created <= purgePending'[Ev[e].group].until
    BY DEF BackIsPending, HistoryOf
  <2>1. e \in Event /\ Ev[e].created \in Int /\ Ev[e].group \in Group
    BY RecordTypes DEF TypeOK, PurgeInv, PurgedIsCut
  <2> QED BY <1>1, <1>3, <1>4, <2>1 DEF PurgeInv, BackIsPending
<1>7. PurgeWalkOK'
  BY DEF BeginPurge, PurgeWalk, PurgeWalkOK
<1> QED BY <1>5, <1>6, <1>7 DEF PurgeInv

\* Every action keeps the purge invariant.
LEMMA PurgeStep == TypeOK /\ PurgeInv /\ [Next]_vars => PurgeInv'
<1> SUFFICES ASSUME TypeOK, PurgeInv, [Next]_vars PROVE PurgeInv'
  OBVIOUS
<1> USE DEF HistoryOf
<1>leaves. CASE LeavesPurges
  <2>1. PurgedIsCut' /\ BackIsPending'
    BY <1>leaves DEF PurgeInv, PurgedIsCut, BackIsPending, LeavesPurges
  <2>2. PurgeWalkOK'
    BY <1>leaves DEF PurgeInv, PurgeWalkOK, PurgeLeft, LeavesPurges
  <2> QED BY <2>1, <2>2 DEF PurgeInv
<1>put. ASSUME NEW e \in Event, Put(e) PROVE PurgeInv'
  <2>1. /\ UNCHANGED <<purged, purgePending, purgedEver, walk>> /\ events' \subseteq events \cup {e}
        /\ ~PurgedGroupsBlocks(e) /\ walk = Idle
    BY <1>put DEF Put, Admitted, Blocked, StoreEvent, Serving
  <2>2. PurgedIsCut'
    BY <2>1 DEF PurgeInv, PurgedIsCut
  <2>3. PurgeWalkOK'
    BY <2>1 DEF PurgeWalkOK, Idle
  <2>4. ASSUME e \in purgedEver, HistoryOf(e)
        PROVE  Ev[e].created <= purgePending[Ev[e].group].until
    <3>1. Ev[e].group \in Group /\ Ev[e].group # None /\ Ev[e].created \in Int
      BY <2>4, NoneIsFresh, RecordTypes DEF PurgeInv, PurgedIsCut
    <3>2. ~(Ev[e].created <= purged[Ev[e].group].cut)
      BY <2>1, <2>4, <3>1 DEF PurgedGroupsBlocks
    <3> QED BY <2>4, <3>2 DEF PurgeInv, PurgedIsCut
  <2>5. BackIsPending'
    BY <2>1, <2>4 DEF PurgeInv, BackIsPending
  <2> QED BY <2>2, <2>3, <2>5 DEF PurgeInv
<1>start. ASSUME NEW g \in Group, NEW u \in PurgeBounds, StartPurge(g, u) PROVE PurgeInv'
  <2>1. u \in Int /\ now \in Int
    BY BoundsType DEF TypeOK
  <2> QED BY <1>start, <2>1, BeginPurgeKeeps DEF StartPurge
<1>resume. ASSUME NEW g \in Group, ResumePurge(g) PROVE PurgeInv'
  BY <1>resume, BeginPurgeKeeps, PurgeRecordTypes DEF ResumePurge
<1>chunk. CASE PurgeChunk
  <2>0. PICK g, gone : g = walk.grp /\ gone = FirstChunk(PurgeLeft(g, walk.stage))
    OBVIOUS
  <2>1. /\ events' = events \ gone /\ purgedEver' = purgedEver \cup gone
        /\ \E last \in gone, c \in {e \in gone : Ev[e].kind = "create"} \cup {purgePending[g].create} :
             /\ Latest(last, gone)
             /\ purgePending' = [purgePending EXCEPT
                                   ![g] = Raised(purgePending[g], Ev[last].created, c)]
    BY <1>chunk, <2>0 DEF PurgeChunk, Remove
  <2>2. PICK last, c :
           /\ last \in gone /\ Latest(last, gone)
           /\ purgePending' = [purgePending EXCEPT
                                 ![g] = Raised(purgePending[g], Ev[last].created, c)]
    BY <2>1
  <2>3. g \in Group /\ UNCHANGED <<purged, walk>>
    BY <1>chunk, <2>0, WalkFields DEF PurgeChunk
  <2>4. \A e \in gone : /\ e \in events /\ e \in Event /\ Ev[e].group = g /\ Ev[e].created \in Int
                        /\ Ev[e].created <= purgePending[g].until
                        /\ Ev[e].created <= Ev[last].created
    <3> SUFFICES ASSUME NEW e \in gone
                 PROVE  /\ e \in events /\ e \in Event /\ Ev[e].group = g /\ Ev[e].created \in Int
                        /\ Ev[e].created <= purgePending[g].until
                        /\ Ev[e].created <= Ev[last].created
      OBVIOUS
    <3>1. \A f \in gone : f \in events /\ Ev[f].group = g /\ Ev[f].created <= purgePending[g].until
      BY <2>0 DEF FirstChunk, PurgeLeft
    <3>2. \A f \in gone : f \in Event /\ Ev[f].created \in Int
      BY <3>1, RecordTypes DEF TypeOK
    <3>3. e = last \/ Before(e, last)
      BY <2>2 DEF Latest
    <3>4. Ev[e].created <= Ev[last].created
      BY <2>2, <3>2, <3>3 DEF Before
    <3> QED BY <3>1, <3>2, <3>4
  <2>5. /\ purgePending[g].cut \in Int /\ purgePending[g].until \in Int
        /\ Ev[last].created \in Int
    BY <2>2, <2>3, <2>4, PurgeRecordTypes
  <2>6. /\ purgePending'[g].until = purgePending[g].until
        /\ purgePending'[g].cut \in Int
        /\ purgePending'[g].cut >= purgePending[g].cut
        /\ purgePending'[g].cut >= Ev[last].created
        /\ \A h \in Group : h # g => purgePending'[h] = purgePending[h]
    BY <2>2, <2>3, <2>5, MaxOfProps DEF Raised, TypeOK
  <2>7. PurgedIsCut'
    <3> SUFFICES ASSUME NEW e \in purgedEver', HistoryOf(e)
                 PROVE  /\ Ev[e].group \in Group
                        /\ \/ Ev[e].created <= purged'[Ev[e].group].cut
                           \/ /\ Ev[e].created <= purgePending'[Ev[e].group].cut
                              /\ Ev[e].created <= purgePending'[Ev[e].group].until
      BY DEF PurgedIsCut
    <3>1. CASE e \in gone
      BY <2>3, <2>4, <2>5, <2>6, <3>1
    <3>2. CASE e \in purgedEver
      <4>1. Ev[e].created \in Int
        BY <3>2, RecordTypes DEF TypeOK
      <4> QED BY <2>3, <2>5, <2>6, <3>2, <4>1 DEF PurgeInv, PurgedIsCut
    <3> QED BY <2>1, <3>1, <3>2
  <2>8. BackIsPending'
    <3> SUFFICES ASSUME NEW e \in purgedEver' \cap events', HistoryOf(e)
                 PROVE  Ev[e].created <= purgePending'[Ev[e].group].until
      BY DEF BackIsPending
    <3>1. e \in purgedEver \cap events
      BY <2>1
    <3> QED BY <2>6, <3>1 DEF PurgeInv, BackIsPending, PurgedIsCut
  <2>9. PurgeWalkOK'
    BY <2>1, <2>3, <2>6 DEF PurgeInv, PurgeWalkOK, PurgeLeft
  <2> QED BY <2>7, <2>8, <2>9 DEF PurgeInv
<1>history. CASE PurgeHistoryDone
  <2>1. PurgedIsCut' /\ BackIsPending'
    BY <1>history DEF PurgeHistoryDone, PurgeInv, PurgedIsCut, BackIsPending
  <2>2. PurgeWalkOK'
    BY <1>history DEF PurgeHistoryDone, PurgeWalkOK, PurgeLeft, PurgeWalk
  <2> QED BY <2>1, <2>2 DEF PurgeInv
<1>finish. CASE FinishPurge
  <2>1. PICK g, n, c, w :
           /\ g = walk.grp /\ c = MaxOf(purgePending[g].cut, purged[g].cut)
           /\ purged' = [purged EXCEPT ![g] = [now |-> n, cut |-> c, create |-> w]]
           /\ purgePending' = [purgePending EXCEPT ![g] = NoPending]
    BY <1>finish DEF FinishPurge
  <2>2. g \in Group /\ UNCHANGED <<events, purgedEver>> /\ PurgeLeft(g, "history") = {}
        /\ walk' = Idle
    BY <1>finish, <2>1, WalkFields DEF FinishPurge, PurgeInv, PurgeWalkOK
  <2>3. /\ purgePending[g].cut \in Int /\ purgePending[g].until \in Int /\ purged[g].cut \in Int
    BY <2>2, PurgeRecordTypes
  <2>4. /\ purged'[g].cut = c /\ c \in Int /\ c >= purgePending[g].cut /\ c >= purged[g].cut
        /\ \A h \in Group : h # g => purged'[h] = purged[h] /\ purgePending'[h] = purgePending[h]
    BY <2>1, <2>2, <2>3, MaxOfProps DEF TypeOK
  <2>5. PurgedIsCut'
    <3> SUFFICES ASSUME NEW e \in purgedEver, HistoryOf(e)
                 PROVE  /\ Ev[e].group \in Group
                        /\ \/ Ev[e].created <= purged'[Ev[e].group].cut
                           \/ /\ Ev[e].created <= purgePending'[Ev[e].group].cut
                              /\ Ev[e].created <= purgePending'[Ev[e].group].until
      BY <2>2 DEF PurgedIsCut
    <3>1. Ev[e].created \in Int
      BY RecordTypes DEF TypeOK
    <3> QED BY <2>3, <2>4, <3>1 DEF PurgeInv, PurgedIsCut
  <2>6. BackIsPending'
    <3> SUFFICES ASSUME NEW e \in purgedEver \cap events, HistoryOf(e)
                 PROVE  Ev[e].created <= purgePending'[Ev[e].group].until
      BY <2>2 DEF BackIsPending
    <3>1. Ev[e].group \in Group /\ Ev[e].created <= purgePending[Ev[e].group].until
      BY DEF PurgeInv, PurgedIsCut, BackIsPending
    <3>2. Ev[e].group # g
      BY <2>2, <3>1 DEF PurgeLeft
    <3> QED BY <2>4, <3>1, <3>2
  <2>7. PurgeWalkOK'
    BY <2>2 DEF PurgeWalkOK, Idle
  <2> QED BY <2>5, <2>6, <2>7 DEF PurgeInv
<1> QED BY <1>leaves, <1>put, <1>start, <1>resume, <1>chunk, <1>history, <1>finish, PurgeClasses

\* purge_group_until over any number of interrupted, repeated and overlapping
\* walks of any chunk size: once no purge of the group is pending, no history
\* a purge removed is stored, whatever is published again (PurgedGroupsBlocks).
THEOREM PurgeCorrect == Spec => []PurgedHistoryStaysOut
<1>1. Init => PurgeInv
  BY DEF Init, PurgeInv, PurgedIsCut, BackIsPending, PurgeWalkOK, Idle
<1>2. TypeOK /\ PurgeInv => PurgedHistoryStaysOut
  <2> SUFFICES ASSUME TypeOK, PurgeInv, NEW e \in purgedEver \cap events, HistoryOf(e)
               PROVE  Pending(Ev[e].group)
    BY DEF PurgedHistoryStaysOut, HistoryOf
  <2>1. Ev[e].created \in Nat /\ Ev[e].created <= purgePending[Ev[e].group].until
    BY RecordTypes DEF TypeOK, PurgeInv, BackIsPending
  <2>2. NoPending.until = -1
    BY DEF NoPending
  <2>3. purgePending[Ev[e].group].until # -1
    BY <2>1
  <2> QED BY <2>2, <2>3 DEF Pending
<1> QED BY <1>1, <1>2, PurgeStep, TypeCorrect, PTL DEF Spec

------------------------------------------------------------------------------
(* Generation counters: every commit that removes derived state is noticed. *)

\* bump_meta_counter moves unless it is saturated.
LEMMA IncMoves == \A n \in 0..MaxCounter : Inc(n) # n \/ n = MaxCounter
  BY BoundsType DEF Inc

\* A removal that bumps for what it takes is noticed.
LEMMA BumpNoticed ==
  ASSUME TypeOK, NEW R, BumpFor(R), events \ events' \subseteq R
  PROVE  RemovalNoticed
<1> SUFFICES ASSUME NEW e \in R, Family(e) # "none" PROVE StampMoved(Family(e))
  BY DEF RemovalNoticed
<1>1. stamp' = Inc(stamp) /\ stamp \in 0..MaxCounter
  BY DEF BumpFor, TypeOK
<1>2. Family(e) = "Group" => seq'["Group"] = Inc(seq["Group"]) /\ seq["Group"] \in 0..MaxCounter
  BY DEF BumpFor, TypeOK
<1> QED BY <1>1, <1>2, IncMoves DEF StampMoved

\* The wraps a recipient walk takes feed no derived state.
LEMMA WrapsAreNotState ==
  ASSUME IndexesAgree, NEW p \in Pubkey, NEW until, WrapChunk(p, until)
  PROVE  RemovalNoticed
<1>1. events \ events' \subseteq WrapsLeft(p, until)
  BY DEF WrapChunk, Remove, FirstChunk
<1>2. \A e \in WrapsLeft(p, until) : Ev[e].kind = "wrap"
  BY DEF WrapsLeft, IndexesAgree, IndexedRecipients
<1> QED BY <1>1, <1>2 DEF RemovalNoticed, Family

\* A replacement is noticed by the sequence of the family both versions share.
LEMMA PutNoticed ==
  ASSUME TypeOK, SlotNamesTheVersion, NEW n \in Event, Put(n)
  PROVE  RemovalNoticed
<1> SUFFICES ASSUME NEW e \in events \ events', Family(e) # "none"
             PROVE  ReplacedBy(e) /\ SeqMoved(Family(e))
  BY DEF RemovalNoticed
<1>1. /\ Ev[n].addr # None /\ slot[Ev[n].addr] = e /\ n \in events'
      /\ seq' = [f \in {"Group", "Role"} |-> IF f = Family(n) THEN Inc(seq[f]) ELSE seq[f]]
  BY DEF Put, StoreEvent
<1>2. Ev[n].addr \in Address /\ e \in Event
  BY <1>1, EvType DEF EventRecord, TypeOK
<1>3. Ev[e].addr = Ev[n].addr
  BY <1>1, <1>2 DEF SlotNamesTheVersion
<1>4. n \notin events
  <2>1. ASSUME n \in events PROVE FALSE
    <3>1. slot[Ev[n].addr] = n
      BY <1>2, <2>1 DEF SlotNamesTheVersion
    <3> QED BY <1>1, <3>1
  <2> QED BY <2>1
<1>5. Family(e) = Family(n)
  BY <1>1, <1>2, <1>3, OneKindPerAddress DEF Family
<1>6. Family(e) \in {"Group", "Role"}
  BY <1>2, FamilyType
<1>7. seq'[Family(e)] = Inc(seq[Family(e)]) /\ seq[Family(e)] \in 0..MaxCounter
  BY <1>1, <1>5, <1>6 DEF TypeOK
<1> QED BY <1>1, <1>3, <1>4, <1>7, IncMoves DEF ReplacedBy, SeqMoved

\* A purge chunk leaves its group recorded as pending.
LEMMA ChunkRecorded ==
  ASSUME TypeOK, PurgeChunk
  PROVE  RemovalNoticed
<1>0. PICK g, gone : g = walk.grp /\ gone = FirstChunk(PurgeLeft(g, walk.stage))
  OBVIOUS
<1>1. PICK last \in gone, c \in {e \in gone : Ev[e].kind = "create"} \cup {purgePending[g].create} :
         purgePending' = [purgePending EXCEPT
                            ![g] = Raised(purgePending[g], Ev[last].created, c)]
  BY <1>0 DEF PurgeChunk
<1>2. g \in Group /\ g # None /\ events' = events \ gone
  BY <1>0, WalkFields, NoneIsFresh DEF PurgeChunk, Remove
<1>3. \A e \in gone : Ev[e].group = g /\ e \in Event
  BY <1>0 DEF FirstChunk, PurgeLeft, TypeOK
<1>4. Ev[last].created \in Nat /\ purgePending[g].cut \in Int
  BY <1>2, <1>3, RecordTypes, PurgeRecordTypes
<1>5. purgePending'[g].cut = MaxOf(purgePending[g].cut, Ev[last].created)
  BY <1>1, <1>2 DEF Raised, TypeOK
<1>6. purgePending'[g].cut >= Ev[last].created /\ purgePending'[g].cut \in Int
  BY <1>4, <1>5, MaxOfProps
<1>7. NoPending.cut = -1
  BY DEF NoPending
<1>8. purgePending'[g] # NoPending
  BY <1>4, <1>6, <1>7
<1> QED BY <1>2, <1>3, <1>8 DEF RemovalNoticed, PurgeRecorded

\* Every commit that removes derived state, in any interleaving of puts,
\* walks, failures and restarts, moves a counter the snapshot is checked
\* against or leaves the purge recorded (StateRemoved::observe, bump_state_seq).
THEOREM GenerationCorrect == Spec => GenerationMovesWithRemoval
<1>1. TypeOK /\ SlotNamesTheVersion /\ VanishInv /\ [Next]_vars => [RemovalNoticed]_vars
  <2> SUFFICES ASSUME TypeOK, SlotNamesTheVersion, VanishInv, [Next]_vars
               PROVE  [RemovalNoticed]_vars
    OBVIOUS
  <2>same. ASSUME events \subseteq events' PROVE RemovalNoticed
    BY <2>same DEF RemovalNoticed
  <2>req. ASSUME Request PROVE RemovalNoticed
    <3>1. ASSUME NEW e \in Event, Put(e) PROVE RemovalNoticed
      BY <3>1, PutNoticed
    <3>2. ASSUME NEW e \in ListedEvents, Ban(e) PROVE RemovalNoticed
      BY <3>2, BumpNoticed DEF Ban, Remove
    <3>3. ASSUME NEW e \in ListedEvents, Unban(e) \/ Allow(e) \/ Unallow(e) PROVE events' = events
      BY <3>3 DEF Unban, Allow, Unallow
    <3>4. ASSUME NEW r \in DeletionRequests, StartDeletion(r) PROVE events' = events
      BY <3>4 DEF StartDeletion
    <3>5. ASSUME NEW v \in VanishRequests, StartVanish(v.who, v.until) PROVE events' = events
      BY <3>5 DEF StartVanish
    <3>6. ASSUME NEW g \in Group, NEW u \in PurgeBounds, StartPurge(g, u) PROVE events' = events
      BY <3>6 DEF StartPurge
    <3>7. ASSUME NEW g \in Group, ResumePurge(g) PROVE events' = events
      BY <3>7 DEF ResumePurge
    <3>8. ASSUME StartExpiry PROVE events' = events
      BY <3>8 DEF StartExpiry
    <3> QED BY <2>req, <2>same, <3>1, <3>2, <3>3, <3>4, <3>5, <3>6, <3>7, <3>8 DEF Request
  <2>walk. ASSUME WalkStep PROVE RemovalNoticed
    <3>1. ASSUME NEW C, DeleteTargets(C) PROVE RemovalNoticed
      BY <3>1, BumpNoticed DEF DeleteTargets, Remove
    <3>2. ASSUME DeleteAddresses PROVE RemovalNoticed
      BY <3>2, BumpNoticed DEF DeleteAddresses, Remove
    <3>3. ASSUME DeleteWraps PROVE RemovalNoticed
      <4>1. ASSUME walk.req.by \in Pubkey PROVE RemovalNoticed
        BY <3>3, <4>1, WrapsAreNotState DEF DeleteWraps, VanishInv
      <4>2. ASSUME walk.req.by \notin Pubkey PROVE RemovalNoticed
        <5>1. WrapsLeft(walk.req.by, Forever) = {}
          BY <4>2 DEF WrapsLeft, TypeOK
        <5> QED BY <3>3, <5>1 DEF DeleteWraps, WrapChunk, FirstChunk
      <4> QED BY <4>1, <4>2
    <3>4. ASSUME VanishWraps PROVE RemovalNoticed
      BY <3>4, WalkFields, WrapsAreNotState DEF VanishWraps, VanishInv
    <3>5. ASSUME VanishAuthored PROVE RemovalNoticed
      BY <3>5, BumpNoticed DEF VanishAuthored, Remove
    <3>6. ASSUME ExpiryChunk PROVE RemovalNoticed
      BY <3>6, BumpNoticed DEF ExpiryChunk, Remove
    <3>7. ASSUME PurgeChunk PROVE RemovalNoticed
      BY <3>7, ChunkRecorded
    <3>8. ASSUME DeleteWrapsDone \/ FinishDeletion \/ VanishAuthoredDone PROVE events' = events
      BY <3>8 DEF DeleteWrapsDone, FinishDeletion, VanishAuthoredDone
    <3>9. ASSUME FinishVanish \/ PurgeHistoryDone \/ FinishPurge \/ FinishExpiry
          PROVE  events' = events
      BY <3>9 DEF FinishVanish, PurgeHistoryDone, FinishPurge, FinishExpiry
    <3> QED BY <2>walk, <2>same, <3>1, <3>2, <3>3, <3>4, <3>5, <3>6, <3>7, <3>8, <3>9 DEF WalkStep
  <2>recover. ASSUME RecoveryStep PROVE events' = events
    BY <2>recover DEF RecoveryStep, ResumeVanish, VanishesResumed, ResumeDeletion, RecoveryDone
  <2>rest. ASSUME WalkFails \/ CrashAndRestart \/ Tick PROVE events' = events
    BY <2>rest DEF WalkFails, CrashAndRestart, Tick
  <2> QED BY <2>req, <2>walk, <2>recover, <2>rest, <2>same DEF Next
<1> QED BY <1>1, TypeCorrect, SlotCorrect, VanishInvariant, PTL
         DEF Spec, GenerationMovesWithRemoval
=============================================================================
