-------------------------------- MODULE Roles --------------------------------
(***************************************************************************)
(* NIP-43 roles and membership (relay/roles.rs, nips/nip43.rs, the role    *)
(* rebuild of relay/mod.rs).  The live store is derived from two kinds of   *)
(* relay-signed events, the role definitions and the membership list; when  *)
(* such an event is removed the store is revoked and rebuilt from what is    *)
(* left, while the operations that arrive are captured and replayed.         *)
(* Operations of several clients, the removal of a state event, the worker   *)
(* and the snapshot writer run concurrently; the buffer mutex is lock.       *)
(***************************************************************************)
EXTENDS Naturals, Sequences, FiniteSets, SequencesExt

CONSTANTS
    Clients, RoleIds, Members,
    Cap,       \* MAX_RELAY_MEMBERS
    BufferMax, \* ROLES_REBUILD_BUFFER_MAX
    RoleMenus, \* bound: [ops, faults, removals, start]: what each client does, what may fail, which state
               \* events get removed, and the store at the start
    Absent

VARIABLES
    live,     \* the RoleStore: [defs, asg, claims]
    events,   \* the stored role-state events: [defs, list]
    gen,      \* the role-state sequence: moves with every state event stored or removed
    reb,      \* RolesRebuild: [dirty, marking, running, committed, epoch, inflight, preserve]
    buf,      \* RolesRebuildBuffer: [scanning, muts, over]
    lock,     \* who holds the buffer mutex
    worker,   \* the rebuild worker: [at, fresh, epoch, rebuilt, extra]; extra is the allow list when it was spawned
    op,       \* per client: the operation in hand
    mark,     \* the removal under way: None or its step
    save,     \* the snapshot writer: None or what it encoded
    rdisk,     \* [snap, journal]
    access,   \* [allowed, vanished]
    gone,     \* keys whose removal is recorded: a vanish marker, a captured departure or a stored list
    left,     \* keys whose departure was acknowledged and who were not added since
    done,     \* per client: operations finished
    rmenu

rvars == <<live, events, gen, reb, buf, lock, worker, op, mark, save, rdisk, access, gone, left, done, rmenu>>

RFault(f) == {FALSE} \union (IF f \in rmenu.faults THEN {TRUE} ELSE {})
-----------------------------------------------------------------------------
(* RoleStore.  asg maps every key to its set of roles, or None for a key that is no member. *)

NoOne == [m \in Members |-> Absent]
Empty(claims) == [defs |-> {}, asg |-> NoOne, claims |-> claims]
RoleHolders(s) == {m \in Members : s.asg[m] # Absent}
HasRoleState(s) == s.defs # {} \/ \E m \in Members : s.asg[m] \notin {Absent, {}}
RolesFull(s) == Cardinality(RoleHolders(s)) >= Cap

\* delete: a member whose last role goes leaves, one who had none stays.
WithoutRole(asg, r) ==
    [m \in Members |-> IF asg[m] # Absent /\ r \in asg[m] /\ asg[m] = {r} THEN Absent
                       ELSE IF asg[m] # Absent THEN asg[m] \ {r} ELSE Absent]
Delete(s, r) == IF r \in s.defs THEN [s EXCEPT !.defs = @ \ {r}, !.asg = WithoutRole(@, r)] ELSE s
Assign(s, m, r) ==
    IF r \notin s.defs \/ (s.asg[m] = Absent /\ RolesFull(s)) THEN s
    ELSE [s EXCEPT !.asg[m] = (IF @ = Absent THEN {} ELSE @) \union {r}]
Unassign(s, m, r) ==
    IF s.asg[m] = Absent \/ r \notin s.asg[m] THEN s
    ELSE [s EXCEPT !.asg[m] = IF @ = {r} THEN Absent ELSE @ \ {r}]
Admit(s, m) == IF s.asg[m] # Absent \/ RolesFull(s) THEN s ELSE [s EXCEPT !.asg[m] = {}]
RemovePubkey(s, m) == [s EXCEPT !.asg[m] = Absent]

\* One buffered mutation, on the live store or on the rebuilt one (replay_role_mutation).
Mutated(s, o) ==
    CASE o.t = "create"   -> [s EXCEPT !.defs = @ \union {o.r}]
      [] o.t = "delete"   -> Delete(s, o.r)
      [] o.t = "assign"   -> Assign(s, o.m, o.r)
      [] o.t = "unassign" -> Unassign(s, o.m, o.r)
      [] o.t = "admit"    -> Admit(s, o.m)
      [] o.t \in {"leave", "vanish"} -> RemovePubkey(s, o.m)
      [] o.t = "claim"    -> [s EXCEPT !.claims = @ \union {o.r}]
      [] o.t = "unclaim"  -> [s EXCEPT !.claims = @ \ {o.r}]
ReplayedRoles(s, q) == FoldLeft(Mutated, s, q)

\* membership_event: the assignments and a bare row for every key on the allow list.
MembershipEvent(s, extra) ==
    [m \in Members |-> IF s.asg[m] = Absent /\ m \in extra \ access.vanished THEN {} ELSE s.asg[m]]

\* rebuild: the surviving definitions and list, without vanished keys, bare allow-listed rows and roles
\* that are not defined.
FromEvents(e, claims) ==
    LET row(m) == IF e.list = Absent \/ e.list[m] = Absent \/ m \in access.vanished
                     \/ (e.list[m] = {} /\ m \in access.allowed) THEN Absent ELSE e.list[m]
    IN  [defs |-> e.defs, claims |-> claims,
         asg |-> [m \in Members |-> IF row(m) = Absent \/ (row(m) # {} /\ row(m) \intersect e.defs = {}) THEN Absent
                                    ELSE row(m) \intersect e.defs]]

-----------------------------------------------------------------------------
(* Operations.  A client takes the mutex, changes the live store, stores the events and lets go. *)

Pending == reb.dirty \/ reb.running

\* mutate_roles: what changed is captured while a rebuild is pending; a removal always is.
Buffer(b, o) == IF Len(b.muts) >= BufferMax THEN [b EXCEPT !.over = TRUE] ELSE [b EXCEPT !.muts = Append(@, o)]
Capture(o, changed) ==
    buf' = IF changed /\ (buf.scanning \/ Pending)
           THEN IF o.t \in {"leave", "vanish"} /\ \E k \in DOMAIN buf.muts : buf.muts[k] = o THEN buf
                ELSE Buffer(buf, o)
           ELSE buf

\* What an operation needs before it may change the store.
RoleSurvives(r) == r \in events.defs
Refused(o) ==
    \/ o.t = "admit" /\ (Pending \/ (live.asg[o.m] = Absent /\ RolesFull(live)))
    \/ o.t = "assign" /\ (o.m \in access.vanished \/ (live.asg[o.m] = Absent /\ RolesFull(live))
                          \/ (IF Pending \/ reb.marking THEN ~RoleSurvives(o.r) ELSE o.r \notin live.defs))
    \/ o.t = "command" /\ (Pending \/ reb.marking \/ o.m \in access.vanished)

\* A member command is an assignment that skips the definitions.
AsMutation(o) == IF o.t = "command" THEN [o EXCEPT !.t = "admit"] ELSE o

RoleTask(c) == rmenu.ops[c][done[c] + 1]
Removals == {"leave", "vanish", "unassign", "delete", "unclaim"}

\* vanish_pubkey: the marker commits first, under the in-flight claim.
VanishMarker(c) ==
    /\ op[c] = Absent /\ done[c] < Len(rmenu.ops[c]) /\ RoleTask(c).t = "vanish"
    /\ access' = [access EXCEPT !.vanished = @ \union {RoleTask(c).m}]
    /\ gone' = gone \union {RoleTask(c).m}
    /\ reb' = [reb EXCEPT !.inflight = @ \union {c}]
    /\ op' = [op EXCEPT ![c] = [at |-> "mutate"]]
    /\ UNCHANGED <<live, events, gen, buf, lock, worker, mark, save, rdisk, left, done, rmenu>>

\* The change of the live store under the mutex; a vanish and an admission let go of it before they publish.
RoleOp(c) ==
    /\ lock = Absent /\ done[c] < Len(rmenu.ops[c])
    /\ IF RoleTask(c).t = "vanish" THEN op[c] # Absent /\ op[c].at = "mutate" ELSE op[c] = Absent
    /\ LET o == RoleTask(c)
           next == Mutated(live, AsMutation(o))
           forced == Pending /\ (o.t \in Removals \/ (o.t = "assign" /\ RoleSurvives(o.r)))
           revokes == o.t = "leave" /\ o.m \in access.allowed
       IN  IF Refused(o) THEN /\ done' = [done EXCEPT ![c] = @ + 1]
                              /\ UNCHANGED <<live, buf, lock, op, access, gone, left, reb>>
           ELSE /\ live' = next
                /\ Capture(AsMutation(o), next # live \/ forced)
                /\ lock' = IF o.t \in {"vanish", "admit"} THEN Absent ELSE c
                /\ op' = [op EXCEPT ![c] = [o |-> o, at |-> "store", pend |-> Pending, ids |-> FALSE,
                                            changed |-> next # live \/ revokes]]
                /\ access' = IF revokes THEN [access EXCEPT !.allowed = @ \ {o.m}] ELSE access
                /\ gone' = IF o.t = "leave" /\ ~revokes /\ Contains(buf'.muts, o) THEN gone \union {o.m}
                           ELSE IF o.t \in {"assign", "admit", "command"} THEN gone \ {o.m} ELSE gone
                /\ left' = IF o.t = "leave" THEN left \union {o.m}
                           ELSE IF o.t \in {"assign", "admit", "command"} THEN left \ {o.m} ELSE left
                /\ reb' = [reb EXCEPT !.preserve = @ /\ (next = live \/ o.t \in {"claim", "unclaim"}),
                                      !.inflight = @ \ {c}]
                /\ UNCHANGED done
    /\ UNCHANGED <<events, gen, worker, mark, save, rdisk, rmenu>>

\* create_role and delete_role store a definition; the others the membership list, unless a rebuild
\* owns the store or a removal is under way (publish_membership).
MayPublish == ~Pending /\ ~reb.committed /\ reb.inflight = {}
Lists(c) == /\ op[c].o.t \notin {"create", "claim", "unclaim"}
            /\ ~op[c].pend /\ op[c].changed /\ MayPublish
RoleStore(c) ==
    /\ op[c] # Absent /\ op[c].at = "store"
    /\ op[c].o.t = "admit" => lock = Absent /\ ~Pending /\ op[c].o.m \notin access.vanished
    /\ \E bad \in RFault("store") :
         LET o == op[c].o
             defs == CASE o.t = "create" -> events.defs \union {o.r}
                       [] o.t = "delete" /\ (op[c].changed \/ op[c].pend) -> events.defs \ {o.r}
                       [] OTHER -> events.defs
             wrote == ~bad /\ (Lists(c) \/ defs # events.defs)
         IN  /\ events' = IF wrote THEN [defs |-> defs, list |-> IF Lists(c) THEN MembershipEvent(live, access.allowed) ELSE events.list]
                          ELSE events
             /\ gen' = IF wrote THEN gen + 1 ELSE gen
             /\ op' = [op EXCEPT ![c].at = "check", ![c].ids = wrote /\ Lists(c)]
    /\ lock' = IF op[c].o.t = "admit" THEN c ELSE lock
    /\ UNCHANGED <<live, reb, buf, worker, mark, save, rdisk, access, gone, left, done, rmenu>>

\* A list stored while a removal committed is taken back: it may still name what was removed.
RoleCheck(c) ==
    /\ op[c] # Absent /\ op[c].at = "check"
    /\ LET late == op[c].ids /\ (reb.committed \/ reb.inflight # {})
           undo == op[c].o.t = "admit" /\ Pending
       IN  /\ events' = IF late THEN [events EXCEPT !.list = Absent] ELSE events
           /\ gen' = IF late THEN gen + 1 ELSE gen
           /\ gone' = IF op[c].o.t = "leave" /\ op[c].ids /\ ~late THEN gone \union {op[c].o.m} ELSE gone
           /\ op' = [op EXCEPT ![c] = IF undo THEN [@ EXCEPT !.at = "undo"] ELSE Absent]
           /\ done' = IF undo THEN done ELSE [done EXCEPT ![c] = @ + 1]
    /\ lock' = IF lock = c THEN Absent ELSE lock
    /\ UNCHANGED <<live, reb, buf, worker, mark, save, rdisk, access, left, rmenu>>

\* rollback_admission: a rebuild started, or the key vanished, before the admission was announced.
RollbackAdmission(c) ==
    /\ op[c] # Absent /\ lock = Absent
    /\ \/ op[c].at = "undo"
       \/ op[c].at = "store" /\ op[c].o.t = "admit" /\ (Pending \/ op[c].o.m \in access.vanished)
    /\ live' = RemovePubkey(live, op[c].o.m)
    /\ Capture([op[c].o EXCEPT !.t = "leave"], TRUE)
    /\ op' = [op EXCEPT ![c] = Absent]
    /\ done' = [done EXCEPT ![c] = @ + 1]
    /\ UNCHANGED <<events, gen, reb, lock, worker, mark, save, rdisk, access, gone, left, rmenu>>

-----------------------------------------------------------------------------
(* A state event is removed: the removal commits, then the store is marked and revoked *)

RemoveState(x) ==
    /\ mark = Absent /\ x \in rmenu.removals
    /\ x \in events.defs \/ (x = "list" /\ events.list # Absent)
    /\ reb' = [reb EXCEPT !.inflight = @ \union {"removal"}]
    /\ events' = IF x = "list" THEN [events EXCEPT !.list = Absent] ELSE [events EXCEPT !.defs = @ \ {x}]
    /\ gen' = gen + 1
    /\ mark' = "flags"
    /\ rmenu' = [rmenu EXCEPT !.removals = @ \ {x}]
    /\ UNCHANGED <<live, buf, lock, worker, op, save, rdisk, access, gone, left, done>>

MarkRolesStale ==
    /\ mark = "flags"
    /\ reb' = [reb EXCEPT !.committed = TRUE, !.epoch = @ + 1, !.dirty = TRUE, !.marking = TRUE]
    /\ mark' = "revoke"
    /\ UNCHANGED <<live, events, gen, buf, lock, worker, op, save, rdisk, access, gone, left, done, rmenu>>

Revoke ==
    /\ mark = "revoke" /\ lock = Absent
    /\ live' = Empty(live.claims)
    /\ reb' = [reb EXCEPT !.marking = FALSE, !.inflight = @ \ {"removal"}, !.running = TRUE]
    /\ worker' = IF reb.running THEN worker ELSE [worker EXCEPT !.at = "start", !.extra = access.allowed]
    /\ mark' = Absent
    /\ UNCHANGED <<events, gen, buf, lock, op, save, rdisk, access, gone, left, done, rmenu>>

-----------------------------------------------------------------------------
(* roles_rebuild_worker *)

FreshRoles == [at |-> "off", fresh |-> Absent, epoch |-> 0, rebuilt |-> FALSE, extra |-> {}]

WorkerTake ==
    /\ worker.at = "start"
    /\ reb' = [reb EXCEPT !.dirty = FALSE]
    /\ worker' = [worker EXCEPT !.at = IF reb.dirty THEN "begin" ELSE "exit"]
    /\ UNCHANGED <<live, events, gen, buf, lock, op, mark, save, rdisk, access, gone, left, done, rmenu>>

WorkerBegin ==
    /\ worker.at = "begin" /\ lock = Absent
    /\ buf' = [buf EXCEPT !.scanning = TRUE, !.over = FALSE]
    /\ worker' = [worker EXCEPT !.at = "scan", !.epoch = reb.epoch]
    /\ UNCHANGED <<live, events, gen, reb, lock, op, mark, save, rdisk, access, gone, left, done, rmenu>>

\* A failed scan keeps what was captured and retries after a pause.
WorkerScan ==
    /\ worker.at = "scan"
    /\ \E bad \in RFault("scan") :
         IF bad THEN /\ reb' = [reb EXCEPT !.dirty = TRUE, !.running = FALSE]
                     /\ buf' = [buf EXCEPT !.scanning = FALSE, !.over = FALSE]
                     /\ worker' = [worker EXCEPT !.at = "retry"]
         ELSE worker' = [worker EXCEPT !.at = "finish", !.fresh = FromEvents(events, live.claims)] /\ UNCHANGED <<reb, buf>>
    /\ UNCHANGED <<live, events, gen, lock, op, mark, save, rdisk, access, gone, left, done, rmenu>>

WorkerRetry ==
    /\ worker.at = "retry"
    /\ reb' = [reb EXCEPT !.running = TRUE]
    /\ worker' = [worker EXCEPT !.at = IF reb.running THEN "off" ELSE "start"]
    /\ UNCHANGED <<live, events, gen, buf, lock, op, mark, save, rdisk, access, gone, left, done, rmenu>>

\* Mutant: what was captured during the scan is dropped.
FinishMutant ==
    /\ worker.at = "finish"
    /\ IF reb.dirty THEN worker' = [worker EXCEPT !.at = "start"] /\ UNCHANGED <<live, buf, reb>>
       ELSE /\ lock = Absent
            /\ live' = worker.fresh
            /\ buf' = [scanning |-> FALSE, muts |-> <<>>, over |-> FALSE]
            /\ worker' = [worker EXCEPT !.at = "persist", !.rebuilt = TRUE]
            /\ UNCHANGED reb
    /\ UNCHANGED <<events, gen, lock, op, mark, save, rdisk, access, gone, left, done, rmenu>>

\* finish_rebuild: an overflowed buffer means another scan; what was captured is replayed.
FinishRebuild ==
    /\ worker.at = "finish"
    /\ IF reb.dirty THEN worker' = [worker EXCEPT !.at = "start"] /\ UNCHANGED <<live, buf, reb>>
       ELSE /\ lock = Absent
            /\ IF buf.over
               THEN /\ reb' = [reb EXCEPT !.dirty = TRUE]
                    /\ buf' = [buf EXCEPT !.scanning = FALSE, !.over = FALSE]
                    /\ worker' = [worker EXCEPT !.at = "start"]
                    /\ UNCHANGED live
               ELSE /\ live' = ReplayedRoles(worker.fresh, buf.muts)
                    /\ buf' = [scanning |-> FALSE, muts |-> <<>>, over |-> FALSE]
                    /\ worker' = [worker EXCEPT !.at = "persist", !.rebuilt = TRUE]
                    /\ reb' = [reb EXCEPT !.preserve = @ /\ ~HasRoleState(live')]
    /\ UNCHANGED <<events, gen, lock, op, mark, save, rdisk, access, gone, left, done, rmenu>>

\* persist_fresh_roles
CanCertify == reb.inflight = {} /\ ~reb.marking /\ ~reb.dirty
WorkerPersist ==
    /\ worker.at = "persist"
    /\ rdisk' = IF CanCertify /\ ~reb.preserve THEN [rdisk EXCEPT !.snap = [s |-> live, gen |-> gen]] ELSE rdisk
    /\ worker' = [worker EXCEPT !.at = "start"]
    /\ UNCHANGED <<live, events, gen, reb, buf, lock, op, mark, save, access, gone, left, done, rmenu>>

\* RoleStatePublisher: the list of the rebuilt store, with the allow list the worker was spawned with.
Republished == [events EXCEPT !.list = MembershipEvent(live, worker.extra)]

\* The end of the worker: the list is published again under the mutex.
WorkerExit ==
    /\ worker.at = "exit" /\ lock = Absent
    /\ LET clean == ~reb.dirty
           seen == worker.epoch = reb.epoch
           free == clean /\ worker.rebuilt /\ reb.inflight = {} /\ (~reb.committed \/ seen)
       IN  /\ buf' = IF clean THEN [scanning |-> FALSE, muts |-> <<>>, over |-> FALSE] ELSE buf
           /\ events' = IF free THEN Republished ELSE events
           /\ gen' = IF free THEN gen + 1 ELSE gen
           /\ reb' = [reb EXCEPT !.running = reb.dirty, !.committed = @ /\ ~(clean /\ seen)]
           /\ worker' = IF reb.dirty THEN [worker EXCEPT !.at = "start", !.rebuilt = FALSE] ELSE FreshRoles
    /\ UNCHANGED <<live, lock, op, mark, save, rdisk, access, gone, left, done, rmenu>>

-----------------------------------------------------------------------------
(* The snapshot and the process *)

\* Mutant: a save does not look for a removal under way.
PersistMutant ==
    /\ save = Absent /\ "save" \in rmenu.faults
    /\ save' = [s |-> live, gen |-> gen]
    /\ UNCHANGED <<live, events, gen, reb, buf, lock, worker, op, mark, rdisk, access, gone, left, done, rmenu>>

\* persist_roles_now: the generation is read before the store, and the flags again after it.
PersistRead ==
    /\ save = Absent /\ "save" \in rmenu.faults
    /\ CanCertify /\ ~reb.running
    /\ save' = [s |-> live, gen |-> gen]
    /\ UNCHANGED <<live, events, gen, reb, buf, lock, worker, op, mark, rdisk, access, gone, left, done, rmenu>>
PersistWrite ==
    /\ save # Absent
    /\ rdisk' = IF CanCertify /\ ~reb.running /\ ~reb.preserve THEN [rdisk EXCEPT !.snap = save] ELSE rdisk
    /\ save' = Absent
    /\ UNCHANGED <<live, events, gen, reb, buf, lock, worker, op, mark, access, gone, left, done, rmenu>>

\* leave_buffering and flush_role_rebuild_journal: what is captured goes to the journal, with the sequence of the moment.
Journaled == IF buf.muts = <<>> THEN rdisk ELSE [rdisk EXCEPT !.journal = [muts |-> buf.muts, gen |-> gen]]
CapturedLeavers(muts) == {muts[k].m : k \in {n \in DOMAIN muts : muts[n].t \in {"leave", "vanish"}}}

\* A stop: the worker leaves (leave_buffering) or flush_role_rebuild_journal journals what was captured.
Halt ==
    /\ "stop" \in rmenu.faults /\ mark = Absent /\ lock = Absent /\ save = Absent
    /\ worker.at \in {"off", "start", "begin", "scan", "retry"} \* a swap in progress is waited for
    /\ \A c \in Clients : op[c] = Absent
    /\ rdisk' = Journaled
    /\ rmenu' = [rmenu EXCEPT !.faults = (@ \ {"stop"}) \union {"down"}]
    /\ UNCHANGED <<live, events, gen, reb, buf, lock, worker, op, mark, save, access, gone, left, done>>

\* restore_role_state.  A current snapshot is restored without the keys that vanished; otherwise the store is rebuilt from
\* the events, with the snapshot's claims.
RestoredRoles(snap) ==
    IF snap # Absent /\ snap.gen >= gen
    THEN [snap.s EXCEPT !.asg = [m \in Members |-> IF m \in access.vanished THEN Absent ELSE @[m]]]
    ELSE FromEvents(events, IF snap = Absent THEN {} ELSE snap.s.claims)

\* A rebuild that finds no role state keeps a snapshot that has some.
PreservesSnapshot(snap, s) ==
    snap # Absent /\ snap.gen < gen /\ ~HasRoleState(s) /\ HasRoleState(snap.s)

\* apply_role_rebuild_journal: a journal older than the sequence is stale.
Replays(journal, seq) == journal # Absent /\ journal.gen >= seq

\* The start.  A rebuild publishes its list before the journal is read, and so moves the sequence: the journal, which
\* carries the one of the stop, is then discarded, and the departures only it recorded are lost (gone forgets them).
\* The start ends with the list and a save; a preserved snapshot is left, with a journal that was replayed.
RolesRestart ==
    /\ "down" \in rmenu.faults
    /\ LET s == RestoredRoles(rdisk.snap)
           preserve == PreservesSnapshot(rdisk.snap, s)
           restored == rdisk.snap # Absent /\ rdisk.snap.gen >= gen
           seq == IF restored \/ preserve THEN gen ELSE gen + 1
           journal == rdisk.journal
           replay == Replays(journal, seq)
       IN  /\ live' = IF replay THEN ReplayedRoles(s, journal.muts) ELSE s
           /\ events' = [events EXCEPT !.list = MembershipEvent(live', access.allowed)]
           /\ gen' = seq + 1
           /\ rdisk' = IF preserve THEN [rdisk EXCEPT !.journal = IF replay THEN @ ELSE Absent]
                       ELSE [snap |-> [s |-> live', gen |-> gen'], journal |-> Absent]
           /\ gone' = IF journal = Absent \/ replay THEN gone ELSE gone \ (CapturedLeavers(journal.muts) \ access.vanished)
           /\ reb' = [dirty |-> FALSE, marking |-> FALSE, running |-> FALSE, committed |-> FALSE, epoch |-> 0,
                      inflight |-> {}, preserve |-> preserve]
    /\ buf' = [scanning |-> FALSE, muts |-> <<>>, over |-> FALSE]
    /\ worker' = FreshRoles
    /\ rmenu' = [rmenu EXCEPT !.faults = @ \ {"down"}]
    /\ UNCHANGED <<lock, op, mark, save, access, left, done>>

RolesInit ==
    /\ rmenu \in RoleMenus
    /\ live = rmenu.start
    /\ events = [defs |-> rmenu.start.defs, list |-> rmenu.start.asg]
    /\ gen = 1
    /\ reb = [dirty |-> FALSE, marking |-> FALSE, running |-> FALSE, committed |-> FALSE, epoch |-> 0,
              inflight |-> {}, preserve |-> FALSE]
    /\ buf = [scanning |-> FALSE, muts |-> <<>>, over |-> FALSE]
    /\ lock = Absent /\ worker = FreshRoles /\ mark = Absent /\ save = Absent
    /\ op = [c \in Clients |-> Absent]
    /\ rdisk = [snap |-> [s |-> rmenu.start, gen |-> 1], journal |-> Absent]
    /\ access = [allowed |-> rmenu.allowed, vanished |-> {}]
    /\ gone = {} /\ left = {} /\ done = [c \in Clients |-> 0]

Up == "down" \notin rmenu.faults
WorkerStep == WorkerTake \/ WorkerBegin \/ WorkerScan \/ WorkerRetry \/ FinishRebuild \/ WorkerPersist \/ WorkerExit
RolesNext ==
    \/ Up /\ \/ \E c \in Clients : VanishMarker(c) \/ RoleOp(c) \/ RoleStore(c) \/ RoleCheck(c) \/ RollbackAdmission(c)
             \/ \E x \in RoleIds \union {"list"} : RemoveState(x)
             \/ MarkRolesStale \/ Revoke \/ WorkerStep \/ PersistRead \/ PersistWrite \/ Halt
    \/ RolesRestart

-----------------------------------------------------------------------------
(* Properties *)

SettledRoles == Up /\ ~Pending /\ ~reb.marking /\ mark = Absent /\ lock = Absent /\ reb.inflight = {}

\* A key whose removal was recorded stays out of the live store, whatever rebuild was pending when it went
\* (apply_leave_request, vanish_pubkey, rollback_admission against the rebuild).
RemovedStaysOut == SettledRoles => \A m \in gone : live.asg[m] = Absent

\* "If a rebuild started while the leave applied or published, capture the removal for the replay": an
\* acknowledged departure is never undone by a rebuild (apply_leave_request).
LeaverStaysOut == SettledRoles /\ (\A c \in Clients : op[c] = Absent) => \A m \in left : live.asg[m] = Absent

\* A grant of a role whose definition was removed is not restored by the snapshot the next start would
\* accept (persist_roles_now and persist_fresh_roles against mark_roles_stale).
SnapshotNeverRevives ==
    rdisk.snap # Absent /\ rdisk.snap.gen >= gen =>
        \A m \in Members : rdisk.snap.s.asg[m] # Absent => rdisk.snap.s.asg[m] \subseteq events.defs

\* From the revocation to the end of the rebuild no role is granted (the live store fails closed).
RevokedGrantsNothing ==
    Up /\ reb.dirty /\ ~reb.marking /\ mark = Absent =>
        \A m \in Members : live.asg[m] # Absent => live.asg[m] \subseteq events.defs

\* A removal sticks: a departed key stays out and a revoked role grants nothing, through the rebuild and its replay
\* (apply_leave_request, vanish_pubkey, mark_roles_stale, finish_roles_rebuild).
RemovalSticks == RemovedStaysOut /\ RevokedGrantsNothing
=============================================================================
