------------------------------- MODULE Access -------------------------------
(***************************************************************************)
(* The access-control state and its editors (nips/nip86, relay/mod.rs,       *)
(* relay/commands.rs, db/store.rs, cli.rs): NIP-86 calls and operator         *)
(* commands edit the lists in memory and queue operations; persist_access      *)
(* appends them to a journal under the lock it shares with the command-line     *)
(* process, which edits the stored state on its own and asks for a reload.       *)
(***************************************************************************)
EXTENDS Naturals, Sequences, FiniteSets, SequencesExt

CONSTANTS
    Admin,         \* the identity of the management token or admin_pubkey
    Grantable,     \* GRANTABLE_METHODS
    RoleEvents,    \* ids of relay-signed role state
    Params,        \* what a request can be about: pubkeys, kinds, addresses, grants, event ids, names
    MaxEntries,    \* MAX_ACCESS_ENTRIES
    CompactAfter,  \* ACCESS_OP_COMPACT_AFTER
    AccessMenus,   \* bound: [calls, cli, seed, base, faults, crashes]
    NoKey         \* no holder of a lock, no value

VARIABLES
    mem,     \* Relay::access
    queue,   \* PendingAccessOps: [ops, seq, persisted]
    disk,    \* [base, journal]: the access and relay_pubkeys rows, the aop: rows
    allow,   \* [mem, disk]: the Blossom allowlist
    field,   \* [mem, file]: relay.name
    events,  \* [banned, allowed]: the event lists of the store
    locks,   \* [persist, state, blossom]: persist_access_lock, access.lock, persist_blossom_allow_lock
    call,    \* per caller: [at, ops, target, batch, seq, loaded, prev, ok]
    cli,     \* the command-line process: [at, n, loaded]
    hup,     \* the reload of a SIGHUP: [at, lists, ops]
    log,     \* ghost: the edits committed, in order
    crashes, amenu

avars == <<mem, queue, disk, allow, field, events, locks, call, cli, hup, log, crashes, amenu>>

OpKinds == {"ban", "unban", "allow", "unallow", "denykind", "undenykind", "allowkind", "unallowkind", "block", "unblock", "grant", "ungrant"}
AccessOp == [op : OpKinds, key : Params, by : Nat]
AccessLists ==
    [deny : SUBSET Params, allow : SUBSET Params, nokinds : SUBSET Params, kinds : SUBSET Params, ips : SUBSET Params, grants : SUBSET Params]

ASSUME AccessKeys == IsFiniteSet(Params) /\ NoKey \notin Params \union Nat \union BOOLEAN \union AccessLists
ASSUME AccessMenuType ==
    \A m \in AccessMenus :
        /\ DOMAIN m.calls \subseteq Nat \ {0} /\ \A c \in DOMAIN m.calls : m.calls[c].key \in Params \union {NoKey}
        /\ m.cli \in Seq([verb : STRING, key : Params]) /\ m.seed \in Seq(AccessOp) /\ m.base \in AccessLists \union {NoKey}

Cli == 0          \* the holder or author that is no caller
Callers == DOMAIN amenu.calls
Request(c) == amenu.calls[c]
Standing(c, s) == call[c].at = s
Step(c, s) == call' = [call EXCEPT ![c].at = s]
Reply(c, ok) == call' = [call EXCEPT ![c].at = "done", ![c].ok = ok]
Fault(f) == f \in amenu.faults

-----------------------------------------------------------------------------
(* The lists *)

NoLists == [deny |-> {}, allow |-> {}, nokinds |-> {}, kinds |-> {}, ips |-> {}, grants |-> {}]
\* Keys are tuples: a pubkey, a kind, an address, or a grant of a method to a pubkey.
Op(kind, key, by) == [op |-> kind, key |-> key, by |-> by]
ApplyOp(s, o) ==
    LET k == {o.key}
    IN  CASE o.op = "ban" -> [s EXCEPT !.allow = @ \ k, !.deny = @ \union k]
          [] o.op = "unban" -> [s EXCEPT !.deny = @ \ k]
          [] o.op = "allow" -> [s EXCEPT !.deny = @ \ k, !.allow = @ \union k]
          [] o.op = "unallow" -> [s EXCEPT !.allow = @ \ k]
          [] o.op = "denykind" -> [s EXCEPT !.nokinds = @ \union k, !.kinds = @ \ k]
          [] o.op = "undenykind" -> [s EXCEPT !.nokinds = @ \ k]
          [] o.op = "allowkind" -> [s EXCEPT !.kinds = @ \union k]
          [] o.op = "unallowkind" -> [s EXCEPT !.kinds = @ \ k]
          [] o.op = "block" -> [s EXCEPT !.ips = @ \union k]
          [] o.op = "unblock" -> [s EXCEPT !.ips = @ \ k]
          [] o.op = "grant" -> [s EXCEPT !.grants = @ \union k]
          [] o.op = "ungrant" -> [s EXCEPT !.grants = @ \ k]
Replay(s, ops) ==
    LET run[n \in 0..Len(ops)] == IF n = 0 THEN s ELSE ApplyOp(run[n - 1], ops[n])
    IN  run[Len(ops)]
\* resolve_access_state, and load_relay_pubkeys for the two pubkey lists.
Resolve(d) == Replay(IF d.base = NoKey THEN NoLists ELSE d.base, d.journal)
StoredAccess(d) == d.base # NoKey \/ d.journal # <<>>

\* The operations of each method, computed on the lists under the write lock, and of the operator commands, which do nothing
\* for a key that is already listed.
PubkeyOps(s, r, c) ==
    CASE r.method = "banpubkey" -> <<Op("ban", r.key, c)>>
      [] r.method = "unbanpubkey" -> <<Op("unban", r.key, c)>>
      [] r.method = "allowpubkey" -> <<Op("unban", r.key, c), Op("allow", r.key, c)>>
      [] r.method = "unallowpubkey" -> <<Op("unallow", r.key, c)>>
      [] OTHER -> <<>>
KindOps(s, r, c) ==
    CASE r.method = "allowkind" -> <<Op("undenykind", r.key, c)>>
                                   \o (IF s.kinds # {} /\ r.key \notin s.kinds THEN <<Op("allowkind", r.key, c)>> ELSE <<>>)
      [] r.method = "disallowkind" -> <<Op("denykind", r.key, c), Op("unallowkind", r.key, c)>>
      [] OTHER -> <<>>
IpOps(s, r, c) ==
    CASE r.method = "blockip" -> <<Op("block", r.key, c)>>
      [] r.method = "unblockip" -> <<Op("unblock", r.key, c)>>
      [] OTHER -> <<>>
GrantOps(s, r, c) ==
    CASE r.method = "assignmethod" /\ r.key[2] \in Grantable -> <<Op("grant", r.key, c)>>
      [] r.method = "unassignmethod" /\ r.key[2] \in Grantable -> <<Op("ungrant", r.key, c)>>
      [] OTHER -> <<>>
CommandOps(s, r, c) ==
    CASE r.method = "relay_allow" /\ r.key \notin s.allow -> <<Op("unban", r.key, c), Op("allow", r.key, c)>>
      [] r.method = "relay_deny" /\ r.key \notin s.deny -> <<Op("unallow", r.key, c), Op("ban", r.key, c)>>
      [] OTHER -> <<>>
MethodOps(s, r, c) == PubkeyOps(s, r, c) \o KindOps(s, r, c) \o IpOps(s, r, c) \o GrantOps(s, r, c) \o CommandOps(s, r, c)
ListFull(s, r) ==
    LET over(list) == Cardinality(list) >= MaxEntries /\ r.key \notin list
    IN  CASE r.method = "banpubkey" -> over(s.deny)
          [] r.method = "allowpubkey" -> over(s.allow)
          [] r.method = "allowkind" -> s.kinds # {} /\ over(s.kinds)
          [] r.method = "disallowkind" -> over(s.nokinds)
          [] r.method = "blockip" -> over(s.ips)
          [] OTHER -> FALSE

-----------------------------------------------------------------------------
(* A NIP-86 call or an operator command *)

\* rpc_authenticated and the grant check: a grantee is not banned and holds a grant of a grantable method.
Blocks(s, who) == <<who>> \in s.deny
Grants(s, who, method) == <<who, method>> \in s.grants
Authorized(r) == r.who = Admin \/ (~Blocks(mem, r.who) /\ r.method \in Grantable /\ Grants(mem, r.who, r.method))
\* What the parameter checks accept: a key of the right form, a short reason.
WellFormed(r) == r.key # NoKey
Commands == {"relay_allow", "relay_deny", "blossom_allow", "blossom_deny"}
Moderation == {"banevent", "unbanevent", "allowevent", "unallowevent"}
Enter(c) ==
    /\ Standing(c, "idle")
    /\ LET r == Request(c)
       IN  IF r.ip \in mem.ips \/ (r.method \notin Commands /\ ~Authorized(r)) \/ ~WellFormed(r) THEN Reply(c, FALSE)
           ELSE Step(c, CASE r.method \in {"blossom_allow", "blossom_deny"} -> "blossom"
                          [] r.method = "changerelayname" -> "field"
                          [] r.method \in Moderation -> "moderate"
                          [] OTHER -> "room")
    /\ UNCHANGED <<mem, queue, disk, allow, field, events, locks, cli, hup, log, crashes, amenu>>

\* banevent and its kin: banevent reads the event first and refuses what the relay signed for its roles; the write is one
\* transaction of the event store.
Moderate(c) ==
    /\ Standing(c, "moderate")
    /\ LET r == Request(c)
       IN  \/ Fault("read") /\ r.method = "banevent" /\ Reply(c, FALSE) /\ UNCHANGED events
           \/ Fault("write") /\ Reply(c, FALSE) /\ UNCHANGED events
           \/ IF r.method = "banevent" /\ r.key \in RoleEvents THEN Reply(c, FALSE) /\ UNCHANGED events
              ELSE /\ Reply(c, TRUE)
                   /\ events' = CASE r.method = "banevent" -> [events EXCEPT !.banned = @ \union {r.key}]
                                 [] r.method = "unbanevent" -> [events EXCEPT !.banned = @ \ {r.key}]
                                 [] r.method = "allowevent" -> [events EXCEPT !.allowed = @ \union {r.key}]
                                 [] OTHER -> [events EXCEPT !.allowed = @ \ {r.key}]
    /\ UNCHANGED <<mem, queue, disk, allow, field, locks, cli, hup, log, crashes, amenu>>
\* The length check, under a read lock of its own.
Room(c) ==
    /\ Standing(c, "room")
    /\ IF ListFull(mem, Request(c)) THEN Reply(c, FALSE) ELSE Step(c, "apply")
    /\ UNCHANGED <<mem, queue, disk, allow, field, events, locks, cli, hup, log, crashes, amenu>>
\* The write lock: the operations are applied and queued (push_access_ops).
Edit(c) ==
    /\ Standing(c, "apply")
    /\ LET ops == MethodOps(mem, Request(c), c)
       IN  /\ mem' = Replay(mem, ops)
           /\ queue' = [queue EXCEPT !.ops = @ \o ops, !.seq = @ + Len(ops)]
           /\ call' = [call EXCEPT ![c].at = "persist", ![c].ops = ops]
    /\ UNCHANGED <<disk, allow, field, events, locks, cli, hup, log, crashes, amenu>>

\* persist_access: nothing to do when a batch of another call already covered this one.
PersistStart(c) ==
    /\ Standing(c, "persist")
    /\ IF queue.persisted >= queue.seq THEN Reply(c, TRUE)
       ELSE call' = [call EXCEPT ![c].at = "lock", ![c].target = queue.seq]
    /\ UNCHANGED <<mem, queue, disk, allow, field, events, locks, cli, hup, log, crashes, amenu>>
PersistLock(c) ==
    /\ Standing(c, "lock") /\ locks.persist = NoKey
    /\ IF queue.persisted >= call[c].target THEN Reply(c, TRUE) /\ UNCHANGED locks
       ELSE Step(c, "state") /\ locks' = [locks EXCEPT !.persist = c]
    /\ UNCHANGED <<mem, queue, disk, allow, field, cli, hup, log, events, crashes, amenu>>
StateLock(c) ==
    /\ Standing(c, "state")
    /\ \/ locks.state = NoKey /\ locks' = [locks EXCEPT !.state = c] /\ Step(c, "take")
       \/ Fault("lock") /\ locks' = [locks EXCEPT !.persist = NoKey] /\ Reply(c, FALSE)
    /\ UNCHANGED <<mem, queue, disk, allow, field, cli, hup, log, events, crashes, amenu>>
TakeOps(c) ==
    /\ Standing(c, "take")
    /\ queue' = [queue EXCEPT !.ops = <<>>]
    /\ call' = [call EXCEPT ![c].at = "append", ![c].batch = queue.ops, ![c].seq = queue.seq]
    /\ UNCHANGED <<mem, disk, allow, field, events, locks, cli, hup, log, crashes, amenu>>

Compact(d) == [base |-> Resolve(d), journal |-> <<>>]
\* append_access_ops, one transaction: the journal grows and, when it is long, is folded into the rows.
Appended(d, ops) ==
    LET grown == [d EXCEPT !.journal = @ \o ops]
    IN  IF ops = <<>> THEN d ELSE IF Len(grown.journal) >= CompactAfter THEN Compact(grown) ELSE grown
Unlocked(c) == [locks EXCEPT !.persist = NoKey, !.state = NoKey]
\* unwrite_access_ops: what could not be written goes back in front of the queue.
PutBack(c) == [queue EXCEPT !.ops = call[c].batch \o @]
Append_(c) ==
    /\ Standing(c, "append")
    /\ \/ /\ disk' = Appended(disk, call[c].batch) /\ log' = log \o call[c].batch
          /\ Step(c, "load") /\ UNCHANGED <<queue, locks>>
       \/ /\ Fault("write") /\ queue' = PutBack(c)
          /\ locks' = Unlocked(c) /\ Reply(c, FALSE) /\ UNCHANGED <<disk, log>>
    /\ UNCHANGED <<mem, allow, field, cli, hup, events, crashes, amenu>>
\* The merged state is read back; a read that fails leaves the lists in memory as they are.
LoadMerged(c) ==
    /\ Standing(c, "load")
    /\ \/ call' = [call EXCEPT ![c].at = "merge", ![c].loaded = Resolve(disk)]
       \/ Fault("read") /\ Step(c, "seal")
    /\ UNCHANGED <<mem, queue, disk, allow, field, events, locks, cli, hup, log, crashes, amenu>>
\* Under the write lock the operations queued meanwhile are replayed onto it.
Merge(c) ==
    /\ Standing(c, "merge")
    /\ mem' = Replay(call[c].loaded, queue.ops) /\ Step(c, "seal")
    /\ UNCHANGED <<queue, disk, allow, field, events, locks, cli, hup, log, crashes, amenu>>
PersistedUpToMutant(c) == queue.seq   \* mutant: what was queued after the batch was taken counts as persisted
PersistedUpTo(c) == IF call[c].seq > queue.persisted THEN call[c].seq ELSE queue.persisted
Seal(c) ==
    /\ Standing(c, "seal")
    /\ queue' = [queue EXCEPT !.persisted = PersistedUpTo(c)]
    /\ locks' = Unlocked(c) /\ Reply(c, TRUE)
    /\ UNCHANGED <<mem, disk, allow, field, cli, hup, log, events, crashes, amenu>>

\* changerelayname: the field changes in memory, then in the file; a write that fails restores the value it replaced, unless
\* another call changed it since.
FieldSet(c) ==
    /\ Standing(c, "field")
    /\ field' = [field EXCEPT !.mem = Request(c).key]
    /\ call' = [call EXCEPT ![c].at = "file", ![c].prev = field.mem]
    /\ UNCHANGED <<mem, queue, disk, allow, locks, cli, hup, log, events, crashes, amenu>>
FieldPersist(c) ==
    /\ Standing(c, "file")
    /\ \/ field' = [field EXCEPT !.file = Request(c).key] /\ Reply(c, TRUE)
       \/ Fault("file") /\ Step(c, "rollback") /\ UNCHANGED field
    /\ UNCHANGED <<mem, queue, disk, allow, locks, cli, hup, log, events, crashes, amenu>>
FieldRollback(c) ==
    /\ Standing(c, "rollback")
    /\ field' = IF field.mem = Request(c).key THEN [field EXCEPT !.mem = call[c].prev] ELSE field
    /\ Reply(c, FALSE)
    /\ UNCHANGED <<mem, queue, disk, allow, locks, cli, hup, log, events, crashes, amenu>>

\* /blossom allow and deny, under both locks: allow joins the stored list with the one in memory, deny starts from the stored
\* one; a list that cannot be read is taken from memory.
BlossomLock(c) ==
    /\ Standing(c, "blossom") /\ locks.blossom = NoKey
    /\ \/ locks.state = NoKey /\ locks' = [locks EXCEPT !.blossom = c, !.state = c] /\ Step(c, "list")
       \/ Fault("lock") /\ Reply(c, FALSE) /\ UNCHANGED locks
    /\ UNCHANGED <<mem, queue, disk, allow, field, cli, hup, log, events, crashes, amenu>>
MergedList(c, stored) ==
    IF Request(c).method = "blossom_allow" THEN stored \union allow.mem \union {Request(c).key} ELSE stored \ {Request(c).key}
BlossomMerge(c) ==
    /\ Standing(c, "list")
    /\ \E stored \in {allow.disk} \union (IF Fault("read") THEN {allow.mem} ELSE {}) : allow' = [allow EXCEPT !.mem = MergedList(c, stored)]
    /\ Step(c, "save")
    /\ UNCHANGED <<mem, queue, disk, field, events, locks, cli, hup, log, crashes, amenu>>
BlossomSave(c) ==
    /\ Standing(c, "save")
    /\ \/ allow' = [allow EXCEPT !.disk = allow.mem] /\ Reply(c, TRUE)
       \/ Fault("write") /\ Reply(c, FALSE) /\ UNCHANGED allow
    /\ locks' = [locks EXCEPT !.blossom = NoKey, !.state = NoKey]
    /\ UNCHANGED <<mem, queue, disk, field, cli, hup, log, events, crashes, amenu>>

-----------------------------------------------------------------------------
(* The command-line process *)

Order == amenu.cli[cli.n + 1]
CliLock ==
    /\ cli.at = "idle" /\ cli.n < Len(amenu.cli) /\ locks.state = NoKey
    /\ locks' = [locks EXCEPT !.state = Cli] /\ cli' = [cli EXCEPT !.at = "load"]
    /\ UNCHANGED <<mem, queue, disk, allow, field, call, hup, log, events, crashes, amenu>>
CliLoad ==
    /\ cli.at = "load"
    /\ cli' = [cli EXCEPT !.at = "save", !.loaded = [access |-> Resolve(disk), had |-> StoredAccess(disk), allow |-> allow.disk]]
    /\ UNCHANGED <<mem, queue, disk, allow, field, locks, call, hup, log, events, crashes, amenu>>
CliOps ==
    CASE Order.verb = "relay_allow" -> <<Op("unban", Order.key, Cli), Op("allow", Order.key, Cli)>>
      [] Order.verb = "relay_deny" -> <<Op("unallow", Order.key, Cli), Op("ban", Order.key, Cli)>>
      [] Order.verb = "access_unblockip" -> IF cli.loaded.had THEN <<Op("unblock", Order.key, Cli)>> ELSE <<>>
      [] OTHER -> <<>>
CliList == CASE Order.verb = "blossom_allow" -> cli.loaded.allow \union {Order.key}
             [] Order.verb = "blossom_deny" -> cli.loaded.allow \ {Order.key}
             [] OTHER -> cli.loaded.allow
\* save_access_state writes what changed whole, without the journal it has folded in; an edit that changes nothing writes
\* nothing.
CliSave ==
    /\ cli.at = "save"
    /\ LET edited == Replay(cli.loaded.access, CliOps)
       IN  IF edited = cli.loaded.access /\ CliList = cli.loaded.allow THEN UNCHANGED <<disk, allow, log>>
           ELSE /\ disk' = [base |-> edited, journal |-> <<>>] /\ allow' = [allow EXCEPT !.disk = CliList]
                /\ log' = log \o CliOps
    /\ cli' = [cli EXCEPT !.at = "signal"]
    /\ UNCHANGED <<mem, queue, field, locks, call, hup, events, crashes, amenu>>
\* SIGHUP for the running daemon, then the lock goes with the process; unblockip sends none.
CliSignal ==
    /\ cli.at = "signal"
    /\ hup' = IF hup.at = "idle" /\ Order.verb # "access_unblockip" THEN [hup EXCEPT !.at = "lock"] ELSE hup
    /\ locks' = [locks EXCEPT !.state = NoKey] /\ cli' = [cli EXCEPT !.at = "idle", !.n = @ + 1]
    /\ UNCHANGED <<mem, queue, disk, allow, field, call, log, events, crashes, amenu>>

-----------------------------------------------------------------------------
(* reload_db_state, and a restart *)

ReloadList ==
    /\ hup.at = "lock" /\ locks.blossom = NoKey
    /\ \/ allow' = [allow EXCEPT !.mem = allow.disk]
       \/ Fault("read") /\ UNCHANGED allow
    /\ hup' = [hup EXCEPT !.at = "access"]
    /\ UNCHANGED <<mem, queue, disk, field, locks, call, cli, log, events, crashes, amenu>>
ReloadLoad ==
    /\ hup.at = "access" /\ locks.persist = NoKey
    /\ \/ hup' = [hup EXCEPT !.at = "clone", !.lists = Resolve(disk)] /\ locks' = [locks EXCEPT !.persist = Cli]
       \/ Fault("read") /\ hup' = [hup EXCEPT !.at = "idle"] /\ UNCHANGED locks
    /\ UNCHANGED <<mem, queue, disk, allow, field, call, cli, log, events, crashes, amenu>>
\* The queued operations are copied before the write lock is asked for.
ReloadClone ==
    /\ hup.at = "clone" /\ hup' = [hup EXCEPT !.at = "replace", !.ops = queue.ops]
    /\ UNCHANGED <<mem, queue, disk, allow, field, locks, call, cli, log, events, crashes, amenu>>
ReloadReplace ==
    /\ hup.at = "replace"
    /\ mem' = Replay([mem EXCEPT !.deny = hup.lists.deny, !.allow = hup.lists.allow], hup.ops)
    /\ hup' = [hup EXCEPT !.at = "idle"] /\ locks' = [locks EXCEPT !.persist = NoKey]
    /\ UNCHANGED <<queue, disk, allow, field, call, cli, log, events, crashes, amenu>>

\* Relay::new: the stored state, or on a first run the seed of the configuration, whose operations are queued for the first
\* write; the pubkey lists come from the database; kinds allowed in the database only are dropped, by operations too.
SeedOps == IF StoredAccess(disk) THEN <<>> ELSE amenu.seed
Started == [Replay(Resolve(disk), SeedOps) EXCEPT !.deny = Resolve(disk).deny, !.allow = Resolve(disk).allow]
StaleKinds == IF \E i \in DOMAIN amenu.seed : amenu.seed[i].op = "allowkind" THEN {} ELSE Started.kinds
StartOps == SeedOps \o SetToSeq({Op("unallowkind", k, Cli) : k \in StaleKinds})
FreshState == [at |-> "idle", ops |-> <<>>, target |-> 0, batch |-> <<>>, seq |-> 0, loaded |-> NoLists, prev |-> NoKey, ok |-> NoKey]
Crash ==
    /\ crashes < amenu.crashes /\ crashes' = crashes + 1
    /\ mem' = [Started EXCEPT !.kinds = @ \ StaleKinds]
    /\ queue' = [ops |-> StartOps, seq |-> Len(StartOps), persisted |-> 0]
    /\ allow' = [allow EXCEPT !.mem = allow.disk] /\ field' = [field EXCEPT !.mem = field.file]
    /\ locks' = [persist |-> NoKey, state |-> IF locks.state = Cli THEN Cli ELSE NoKey, blossom |-> NoKey]
    /\ call' = [c \in Callers |-> IF Standing(c, "idle") \/ Standing(c, "done") THEN call[c] ELSE [call[c] EXCEPT !.at = "done"]]
    /\ hup' = [hup EXCEPT !.at = "idle"]
    /\ UNCHANGED <<disk, cli, log, events, amenu>>

AccessInit ==
    /\ amenu \in AccessMenus
    /\ disk = [base |-> amenu.base, journal |-> <<>>] /\ log = <<>> /\ crashes = 0
    /\ mem = [Started EXCEPT !.kinds = @ \ StaleKinds]
    /\ queue = [ops |-> StartOps, seq |-> Len(StartOps), persisted |-> 0]
    /\ allow = [mem |-> {}, disk |-> {}] /\ field = [mem |-> "old", file |-> "old"]
    /\ events = [banned |-> {}, allowed |-> {}]
    /\ locks = [persist |-> NoKey, state |-> NoKey, blossom |-> NoKey]
    /\ call = [c \in Callers |-> FreshState]
    /\ cli = [at |-> "idle", n |-> 0, loaded |-> NoKey] /\ hup = [at |-> "idle", lists |-> NoLists, ops |-> <<>>]

CallStep(c) ==
    \/ Enter(c) \/ Moderate(c) \/ Room(c) \/ Edit(c) \/ PersistStart(c) \/ PersistLock(c) \/ StateLock(c) \/ TakeOps(c) \/ Append_(c)
    \/ LoadMerged(c) \/ Merge(c) \/ Seal(c) \/ FieldSet(c) \/ FieldPersist(c) \/ FieldRollback(c)
    \/ BlossomLock(c) \/ BlossomMerge(c) \/ BlossomSave(c)
AccessNext ==
    \/ \E c \in Callers : CallStep(c)
    \/ CliLock \/ CliLoad \/ CliSave \/ CliSignal
    \/ ReloadList \/ ReloadLoad \/ ReloadClone \/ ReloadReplace
    \/ Crash
AccessSpec == AccessInit /\ [][AccessNext]_avars

-----------------------------------------------------------------------------
(* Properties *)

\* No edit is lost: what the database resolves to is every committed edit, of the daemon and of the command line, applied in
\* the order in which they committed, through compactions, crashes and edits of the two processes at the same time.
NoEditLost == Resolve(disk) = Replay(IF amenu.base = NoKey THEN NoLists ELSE amenu.base, log)

\* A call that was told its change is persisted has it in the database's history, although another call's batch may have
\* carried it or an earlier batch of it failed.
AckedDurable == \A c \in Callers : Standing(c, "done") /\ call[c].ok = TRUE => ToSet(call[c].ops) \subseteq ToSet(log)

\* A change applied to memory whose operation is still queued survives a reload (the comment of reload_db_state).
QueuedSurvivesReload == Replay(mem, queue.ops) = mem

\* What a caller was told is durable is in the history, and the history is what a start reads back.
EditsDurable == NoEditLost /\ AckedDurable
=============================================================================
