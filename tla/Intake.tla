------------------------------- MODULE Intake -------------------------------
(***************************************************************************)
(* Event intake (relay/mod.rs, relay/validate.rs, relay/commands.rs): what *)
(* happens to a batch of events from the connection that read them to the  *)
(* answers.  Connections run concurrently; an await is a step boundary.     *)
(* The database commits or sheds (menu.faults); a crash loses the memory.   *)
(*                                                                         *)
(* An event is [id, author, cls, flaw, prev, to, arg]: its class names the  *)
(* handler, flaw the check it fails ("" for none), prev its `previous`      *)
(* references, to and arg what it is about.  Ids and authors are numbers.   *)
(***************************************************************************)
EXTENDS PublishRate

CONSTANTS
    Conns, Authors,
    JoinLimit,     \* JOIN_ATTEMPTS_PER_MINUTE
    MaxPrevious,   \* MAX_PREVIOUS_PREFIXES
    MaxRoleMembers,    \* MAX_RELAY_MEMBERS
    HeldLimit,     \* pending_removals_limit
    Codes,         \* the invite codes issued
    RelayKey,         \* the author that is the relay's own key
    Menus,         \* bound: [send, faults, banned, stored, roles, rate, minAge, event]: the batches each connection
                   \* sends, what may fail, who is banned, what is stored, the roles, the limit in each second, the
                   \* age asked of new keys, and the events by id
    Unset

VARIABLES
    conn,    \* per connection: the batch in hand
    db,      \* what is durable
    role,    \* the live role store: author -> "none", "member" or "admin"
    lim,     \* [pub, join]: the two limiters
    held,    \* pending_removals
    clock, up, answered,  \* answered: per connection, the answers sent so far
    menu

\* Ids and authors are numbers; the id is a hash, so an id names one event.
SentEvent == [id : Nat \ {0}, author : Authors, cls : STRING, flaw : STRING, prev : SUBSET Nat, to : Nat, arg : STRING]
ASSUME IntakeConstants == Authors \subseteq Nat /\ JoinLimit \in Nat \ {0}
ASSUME MenuType ==
    \A m \in Menus :
       /\ m.send \in [Conns -> Seq(Seq(SentEvent))]
       /\ \A c \in Conns : \A n \in DOMAIN m.send[c] : \A k \in DOMAIN m.send[c][n] :
             m.event[m.send[c][n][k].id] = m.send[c][n][k]
       /\ m.stored \subseteq Nat \ {0} /\ m.rate \in Seq(Nat) \ {<<>>} /\ m.roles \in [Authors -> STRING]

\* What an event is answered, once it has an answer.
Said == {"reject", "retry", "duplicate", "stored", "ephemeral"}
ASSUME NoAnswer == Unset \notin [id : Nat, ans : Said]

ivars == <<conn, db, role, lim, held, clock, up, answered, menu>>

-----------------------------------------------------------------------------
(* Events and their classes *)

\* "op" is a kind:1 of the relay's own key; "note", "chat", "eph" and "delete" have no effect that a
\* later event of the batch must see.
Singles == {"member", "icon", "join", "leave", "group", "gjoin", "putuser", "dm", "vanish", "op"}
Durable == {"member", "icon"}                  \* is_durable_command (9035 and 9036 as "icon")
GroupActions == {"group", "gjoin", "putuser"}
Ephemeral == {"leave", "eph"}

\* has_state_effects
HasStateEffects(e) == e.cls \in Singles

RateLimit == menu.rate[clock + 1]   \* max_events_per_min_per_pubkey, as reloaded
MinAge == menu.minAge               \* new_pubkey_min_age_secs (0: off)

Accepted == {"stored", "ephemeral"}
Fault(f) == {FALSE} \union (IF f \in menu.faults THEN {TRUE} ELSE {})

\* validate_base: first size, tags and kind, then time, proof of work, protection, delegation and
\* leaked keys, and the signature at the end.
ValidShape(e) == e.flaw # "shape"
ValidBase(e, verified) == ValidShape(e) /\ e.flaw # "base" /\ verified

\* The relay lists who may write; an invite or a departure passes the allow list, never a ban.
AccessOk(e) ==
    \/ e.author = RelayKey
    \/ /\ e.author \notin menu.banned
       /\ e.cls \in {"join", "leave"} \/ e.flaw # "unlisted"

\* The group rules: late, unknown or deleted group, write access, invite of a closed group, and
\* every `previous` reference known.
GroupOk(e, known) == e.flaw # "group" /\ e.prev \subseteq known

\* A join by code: current, not vanished, not a member yet, a listed code and room for it.
JoinVerdict(e) ==
    CASE e.flaw = "late" \/ e.author \in db.vanished -> "reject"
      [] role[e.author] # "none" -> "duplicate"
      [] e.arg \notin Codes -> "reject"
      [] Cardinality({a \in Authors : role[a] # "none"}) >= MaxRoleMembers -> "reject"
      [] OTHER -> "admit"

\* precheck, after the join charge.
Verdict(e, known, verified) ==
    CASE ~ValidBase(e, verified) -> "reject"
      [] e.cls = "vanish" -> "vanish"
      [] ~AccessOk(e) \/ e.flaw \in {"auth", "kind"} -> "reject"
      [] e.cls = "join" -> JoinVerdict(e)
      [] ~GroupOk(e, known) -> "reject"
      [] e.cls = "putuser" /\ e.to \in db.vanished -> "reject"
      [] OTHER -> "accept"

\* validate_relay_member_command
MayCommand(e) == role[e.author] = "admin" /\ e.flaw # "command" /\ e.to \notin db.vanished

-----------------------------------------------------------------------------
(* A task: at = where it is, batch, slots (answers so far), i (next event to route), run (slots of the
   stateless run), puts (slots written and not yet answered), known (references), attempt (join verdicts),
   verified, t (the second it began), fresh (this call wrote the marker), drained (removals taken out). *)

IdleConn == [at |-> "idle", batch |-> <<>>, slots |-> <<>>, i |-> 1, run |-> <<>>, puts |-> <<>>, known |-> {},
         attempt |-> {}, verified |-> {}, t |-> 0, fresh |-> FALSE, drained |-> <<>>]
E(c) == conn[c].batch[conn[c].i]
Go(c, at) == conn' = [conn EXCEPT ![c].at = at]

\* The slot of the current single event gets its answer; the next event is routed.
Finished(T, a) ==
    [T EXCEPT !.slots[T.i] = [id |-> T.batch[T.i].id, ans |-> a], !.i = @ + 1, !.at = "route",
              !.known = IF a \in Accepted \union {"duplicate"} THEN @ \union {T.batch[T.i].id} ELSE @]
Settle(c, a) == conn' = [conn EXCEPT ![c] = Finished(conn[c], a)]
Charge(c) == lim' = [lim EXCEPT !.pub = Rollback(@, E(c).author, conn[c].t)]

\* batch_known_prefixes: the references of the batch that are stored, at most MaxPrevious of them.
References(b) == FlattenSeq([k \in DOMAIN b |-> SetToSeq(b[k].prev)])
KnownPrefixes(b) ==
    LET r == References(b)
    IN  {r[k] : k \in 1..(IF Len(r) > MaxPrevious THEN MaxPrevious ELSE Len(r))} \intersect db.events

\* The join attempts of a batch are reserved in order, before any signature is verified.
AuthorsOf(b, q) == [k \in DOMAIN q |-> b[q[k]].author]
Reserve(b) ==
    AllowAll(lim.join, JoinLimit, [k \in DOMAIN b |-> b[k].author],
             {k \in DOMAIN b : b[k].cls \in {"join", "gjoin"}}, clock)

\* verify_signatures_parallel: contiguous chunks; a panicked chunk fails its events and no other.
VerifiedBy(b, ok, panics) ==
    {k \in ok : b[k].flaw # "sig" /\ ~(panics /\ k <= (Len(b) + 1) \div 2)}

\* accept_batch_begin and the head of accept_batch_mixed
AcceptBatchBegin(c) ==
    /\ up /\ conn[c].at = "idle"
    /\ Len(answered[c]) < Len(menu.send[c])
    /\ LET b == menu.send[c][Len(answered[c]) + 1]
           r == Reserve(b)
       IN  \E panics \in Fault("panic") :
             /\ conn' = [conn EXCEPT ![c] = [IdleConn EXCEPT
                   !.at = "route", !.batch = b, !.slots = [k \in DOMAIN b |-> Unset],
                   !.known = KnownPrefixes(b), !.attempt = r.ok,
                   !.verified = VerifiedBy(b, r.ok, panics), !.t = clock]]
             /\ lim' = [lim EXCEPT !.join = r.l]
    /\ UNCHANGED <<db, role, held, clock, up, answered, menu>>

\* The loop of accept_batch_mixed: a single event first lets the run before it finish.
Route(c) ==
    /\ conn[c].at = "route"
    /\ LET T == conn[c]
           end == T.i > Len(T.batch)
       IN  CASE T.run # <<>> /\ (end \/ HasStateEffects(T.batch[T.i])) -> Go(c, "run") /\ UNCHANGED answered
             [] T.run = <<>> /\ end ->
                  /\ conn' = [conn EXCEPT ![c] = IdleConn]
                  /\ answered' = [answered EXCEPT ![c] = Append(@, T.slots)]
             [] ~end /\ HasStateEffects(T.batch[T.i]) ->
                  /\ IF T.i \in T.attempt THEN Go(c, "check") ELSE Settle(c, "reject")
                  /\ UNCHANGED answered
             [] OTHER -> /\ conn' = [conn EXCEPT ![c].run = Append(@, T.i), ![c].i = @ + 1]
                         /\ UNCHANGED answered
    /\ UNCHANGED <<db, role, lim, held, clock, up, menu>>

-----------------------------------------------------------------------------
(* The stateless run: accept_batch_non_group and PendingBatch::finish *)

\* Refused by age: the author is known and its first event is too recent.
TooNew(e, now) == MinAge > 0 /\ db.seen[e.author] # Unset /\ now - db.seen[e.author] < MinAge

\* One event of the run: precheck, then (in later passes) age and rate.
Prechecked(c) ==
    LET T == conn[c]
        step[k \in 0..Len(T.run)] ==
          IF k = 0 THEN [known |-> T.known, puts |-> <<>>, out |-> {}]
          ELSE LET p == step[k - 1]
                   j == T.run[k]
                   e == T.batch[j]
               IN  IF Verdict(e, p.known, j \in T.verified) = "accept"
                   THEN [p EXCEPT !.known = @ \union {e.id}, !.puts = Append(@, j)]
                   ELSE [p EXCEPT !.out = @ \union {j}]
    IN  step[Len(T.run)]

Charged(c, puts) ==
    LET T == conn[c]
        r == AllowAll(lim.pub, RateLimit, AuthorsOf(T.batch, puts), DOMAIN puts, T.t)
    IN  IF RateLimit = 0 THEN [l |-> lim.pub, kept |-> puts]
        ELSE [l |-> r.l, kept |-> OnlyIn(puts, {puts[k] : k \in r.ok})]

WithAnswers(T, S, a) ==
    [T EXCEPT !.slots = [k \in DOMAIN @ |-> IF k \in S THEN [id |-> T.batch[k].id, ans |-> a] ELSE @[k]]]

RunCheck(c) ==
    /\ conn[c].at = "run"
    /\ \E noDb \in Fault("read"), shed \in Fault("shed") :
         LET T == conn[c]
             p == Prechecked(c)
             aged == OnlyIn(p.puts, {j \in ToSet(p.puts) : ~(MinAge > 0 /\ noDb) /\ ~TooNew(T.batch[j], T.t)})
             r == Charged(c, aged)
             refused == WithAnswers(T, ToSet(T.run) \ ToSet(r.kept), "reject")
             gone == shed \/ r.kept = <<>>
             back == RollbackAll(r.l, AuthorsOf(T.batch, r.kept), T.t)
         IN  /\ conn' = [conn EXCEPT ![c] =
                 IF gone THEN [WithAnswers(refused, ToSet(r.kept), "retry") EXCEPT !.run = <<>>, !.at = "route"]
                 ELSE [refused EXCEPT !.run = <<>>, !.puts = r.kept, !.at = "queued"]]
             /\ lim' = [lim EXCEPT !.pub = IF gone THEN back ELSE r.l]
    /\ UNCHANGED <<db, role, held, clock, up, answered, menu>>

\* What the store answers to one put (EventStore has the detail).
PutOutcome(d, e) ==
    CASE e.cls \in Ephemeral -> "ephemeral"
      [] e.author \in d.vanished \/ e.id \in d.deleted -> "reject"
      [] e.id \in d.events -> "duplicate"
      [] OTHER -> "stored"
Stored(d, e, now) ==
    IF PutOutcome(d, e) \notin Accepted THEN d
    ELSE [d EXCEPT !.events = IF e.cls \in Ephemeral THEN @ ELSE @ \union {e.id},
                   !.seen[e.author] = IF MinAge > 0 /\ @ = Unset THEN now ELSE @]

\* Mutant: the outcome of a put goes to the slot of the next one.
SlotMutant(T, k) == T.puts[IF k < Len(T.puts) THEN k + 1 ELSE 1]

\* put_slots: where the outcome of the k-th put belongs.
Slot(T, k) == T.puts[k]

\* The store after each put of a run, what it answers to each of them, and the slots with such an answer.
Committed(T, d) ==
    LET after[k \in 0..Len(T.puts)] == IF k = 0 THEN d ELSE Stored(after[k - 1], T.batch[T.puts[k]], T.t)
    IN  after
Outcomes(T, d, lost) ==
    [k \in DOMAIN T.puts |-> IF lost THEN "retry" ELSE PutOutcome(Committed(T, d)[k - 1], T.batch[T.puts[k]])]
OutcomeSlots(T, o, S) == {T.puts[k] : k \in {x \in DOMAIN T.puts : o[x] \in S}}

\* finish: each put gets its outcome; the accepted ones go on to after_put.
FinishedRun(T, o) ==
    LET answer(j) == o[CHOOSE k \in DOMAIN T.puts : Slot(T, k) = j]
    IN  [T EXCEPT !.slots = [j \in DOMAIN T.slots |-> IF j \in ToSet(T.puts)
                                                      THEN [id |-> T.batch[j].id, ans |-> answer(j)] ELSE T.slots[j]],
                  !.puts = OnlyIn(T.puts, OutcomeSlots(T, o, Accepted)),
                  !.known = T.known \union {T.batch[j].id : j \in OutcomeSlots(T, o, Accepted \union {"duplicate"})},
                  !.at = "after"]

\* The writer commits the run in one transaction, or loses it.
RunCommit(c) ==
    /\ conn[c].at = "queued"
    /\ \E lost \in Fault("lost") :
         LET T == conn[c]
             o == Outcomes(T, db, lost)
             refused == OnlyIn(T.puts, ToSet(T.puts) \ OutcomeSlots(T, o, Accepted))
         IN  /\ db' = IF lost THEN db ELSE Committed(T, db)[Len(T.puts)]
             /\ lim' = [lim EXCEPT !.pub = RollbackAll(@, AuthorsOf(T.batch, refused), T.t)]
             /\ conn' = [conn EXCEPT ![c] = FinishedRun(T, o)]
    /\ UNCHANGED <<role, held, clock, up, answered, menu>>

\* after_put of one event of the run; a shed deletion is held for the pending table.
RunAfter(c) ==
    /\ conn[c].at = "after"
    /\ LET T == conn[c]
           next == [T EXCEPT !.puts = Tail(@)]
       IN  IF T.puts = <<>> THEN Go(c, "route") /\ UNCHANGED <<db, held>>
           ELSE LET j == Head(T.puts)
                    e == T.batch[j]
                IN  IF e.cls # "delete" THEN conn' = [conn EXCEPT ![c] = next] /\ UNCHANGED <<db, held>>
                    ELSE \E shed \in Fault("removal") :
                           CASE ~shed ->
                                  /\ db' = [db EXCEPT !.events = @ \ {e.to}, !.deleted = @ \union {e.to}]
                                  /\ conn' = [conn EXCEPT ![c] = next] /\ UNCHANGED held
                             [] shed /\ Len(held) >= HeldLimit ->
                                  /\ conn' = [conn EXCEPT ![c] = WithAnswers(next, {j}, "retry")]
                                  /\ UNCHANGED <<db, held>>
                             [] OTHER -> held' = Append(held, e.to) /\ Go(c, "drain") /\ UNCHANGED db
    /\ UNCHANGED <<role, lim, clock, up, answered, menu>>

\* hold_pending_removal: what is held is taken out, recorded one by one, and what could not be
\* recorded is put back before what came meanwhile, up to the bound.
HoldDrain(c) ==
    /\ conn[c].at = "drain"
    /\ conn' = [conn EXCEPT ![c].at = "record", ![c].drained = held]
    /\ held' = <<>>
    /\ UNCHANGED <<db, role, lim, clock, up, answered, menu>>
HoldRecord(c) ==
    /\ conn[c].at = "record"
    /\ \E shed \in Fault("removal") :
         /\ db' = IF shed THEN db ELSE [db EXCEPT !.pending = @ \union ToSet(conn[c].drained)]
         /\ conn' = [conn EXCEPT ![c].at = "merge", ![c].drained = IF shed THEN @ ELSE <<>>]
    /\ UNCHANGED <<role, lim, held, clock, up, answered, menu>>
HoldMerge(c) ==
    /\ conn[c].at = "merge"
    /\ LET T == conn[c]
           all == T.drained \o held
           over == Len(all) > HeldLimit
           next == [T EXCEPT !.at = "after", !.drained = <<>>, !.puts = Tail(@)]
       IN  /\ held' = SubSeq(all, 1, IF over THEN HeldLimit ELSE Len(all))
           /\ conn' = [conn EXCEPT ![c] = IF over THEN WithAnswers(next, {Head(T.puts)}, "retry") ELSE next]
    /\ UNCHANGED <<db, role, lim, clock, up, answered, menu>>

-----------------------------------------------------------------------------
(* An event with effects: accept_event_verified *)

\* A join is charged before its vanish lookup and its code.
Check(c) ==
    /\ conn[c].at = "check"
    /\ LET T == conn[c]
           e == E(c)
           r == IF e.cls = "join" /\ RateLimit > 0 /\ ValidBase(e, T.i \in T.verified)
                THEN Allow(lim.pub, RateLimit, e.author, T.t) ELSE [ok |-> TRUE, l |-> lim.pub]
           v == Verdict(e, T.known, T.i \in T.verified)
       IN  /\ lim' = [lim EXCEPT !.pub = r.l]
           /\ \E noDb \in Fault("read") :
                CASE ~r.ok -> Settle(c, "reject")
                  [] noDb /\ e.cls \in {"join", "putuser"} -> Settle(c, "retry")
                  [] v = "reject" \/ v = "duplicate" -> Settle(c, v)
                  [] v = "accept" /\ e.cls = "dm" -> \E a \in {"stored", "reject"} : Settle(c, a)
                  [] v = "accept" /\ e.cls # "dm" -> Go(c, "gate")
                  [] OTHER -> Go(c, v)
    /\ UNCHANGED <<db, role, held, clock, up, answered, menu>>

MemberKeys(r) == {a \in Authors : r[a] # "none"}

\* admit_member: the live store first, then the vanish marker again.
AdmitMember(c) ==
    /\ conn[c].at = "admit"
    /\ IF role[E(c).author] = "none" /\ Cardinality(MemberKeys(role)) >= MaxRoleMembers
       THEN Settle(c, "reject") /\ Charge(c) /\ UNCHANGED role
       ELSE /\ role' = [role EXCEPT ![E(c).author] = IF @ = "none" THEN "member" ELSE @]
            /\ Go(c, "recheck") /\ UNCHANGED lim
    /\ UNCHANGED <<db, held, clock, up, answered, menu>>

\* Mutant: the vanish marker is not read again.
AdmitRecheckMutant(c) ==
    /\ conn[c].at = "recheck"
    /\ Settle(c, "duplicate")
    /\ UNCHANGED <<db, role, lim, held, clock, up, answered, menu>>

AdmitRecheck(c) ==
    /\ conn[c].at = "recheck"
    /\ \E noDb \in Fault("read") :
         IF noDb \/ E(c).author \in db.vanished
         THEN /\ role' = [role EXCEPT ![E(c).author] = "none"]
              /\ Charge(c)
              /\ Settle(c, IF noDb THEN "retry" ELSE "reject")
         ELSE Settle(c, "duplicate") /\ UNCHANGED <<role, lim>>
    /\ UNCHANGED <<db, held, clock, up, answered, menu>>

\* vanish_pubkey: the marker and the removal commit, then the roles go.
VanishMark(c) ==
    /\ conn[c].at = "vanish"
    /\ \E shed \in Fault("removal") :
         IF shed THEN Settle(c, "retry") /\ UNCHANGED db
         ELSE /\ db' = [db EXCEPT !.vanished = @ \union {E(c).author},
                                  !.events = {i \in @ : menu.event[i].author # E(c).author}]
              /\ Go(c, "unrole")
    /\ UNCHANGED <<role, lim, held, clock, up, answered, menu>>
VanishRoles(c) ==
    /\ conn[c].at = "unrole"
    /\ role' = [role EXCEPT ![E(c).author] = "none"]
    /\ Settle(c, "stored")
    /\ UNCHANGED <<db, lim, held, clock, up, answered, menu>>

\* Age, rate, and the commands' own checks; a refused icon keeps its charge, a refused member
\* command gives it back.
Gate(c) ==
    /\ conn[c].at = "gate"
    /\ \E noDb \in Fault("read") :
         LET T == conn[c]
             e == E(c)
             r == IF RateLimit = 0 THEN [ok |-> TRUE, l |-> lim.pub] ELSE Allow(lim.pub, RateLimit, e.author, T.t)
         IN  CASE MinAge > 0 /\ (noDb \/ TooNew(e, T.t)) -> Settle(c, "reject") /\ UNCHANGED lim
               [] e.cls = "member" /\ r.ok /\ ~MayCommand(e) ->
                    /\ Settle(c, "reject")
                    /\ lim' = [lim EXCEPT !.pub = Rollback(r.l, e.author, T.t)]
               [] OTHER ->
                    /\ lim' = [lim EXCEPT !.pub = r.l]
                    /\ IF ~r.ok \/ (e.cls = "icon" /\ (role[e.author] # "admin" \/ e.flaw = "command"))
                       THEN Settle(c, "reject") ELSE Go(c, "mark")
    /\ UNCHANGED <<db, role, held, clock, up, answered, menu>>

\* Mutant: a command is stored without its journal entry.
MarkMutant(c) ==
    /\ conn[c].at = "mark"
    /\ Go(c, "put")
    /\ UNCHANGED <<db, role, lim, held, clock, up, answered, menu>>

\* The apply marker of a group action and the journal entry of a command come before the put.
Mark(c) ==
    /\ conn[c].at = "mark"
    /\ LET e == E(c)
           f == IF e.cls \in Durable THEN "journal" ELSE "marks"
       IN  IF e.cls \notin Durable \union GroupActions THEN Go(c, "put") /\ UNCHANGED <<db, lim>>
           ELSE \E shed \in Fault("mark") :
                  IF shed THEN Settle(c, "retry") /\ Charge(c) /\ UNCHANGED db
                  ELSE /\ db' = [db EXCEPT ![f] = @ \union {e.id}]
                       /\ conn' = [conn EXCEPT ![c].at = "put", ![c].fresh = e.id \notin db[f]]
                       /\ UNCHANGED lim
    /\ UNCHANGED <<role, held, clock, up, answered, menu>>

Unmark(d, e) == [d EXCEPT !.journal = @ \ {e.id}, !.marks = @ \ {e.id}]

Put(c) ==
    /\ conn[c].at = "put"
    /\ \E shed \in Fault("shed"), kept \in Fault("clear") :
         LET e == E(c)
             o == IF shed THEN "retry" ELSE PutOutcome(db, e)
         IN  IF o \in Accepted
             THEN db' = Stored(db, e, conn[c].t) /\ Go(c, "effect") /\ UNCHANGED lim
             ELSE /\ db' = IF conn[c].fresh /\ ~kept THEN Unmark(db, e) ELSE db
                  /\ Charge(c)
                  /\ Settle(c, o)
    /\ UNCHANGED <<role, held, clock, up, answered, menu>>

\* What a member command may do when it is applied, and what it leaves.
CommandFits(e, r) == e.arg = "none" \/ r[e.to] # "none" \/ Cardinality(MemberKeys(r)) < MaxRoleMembers
Commanded(e, r) == [r EXCEPT ![e.to] = e.arg]

\* execute_command and its signed reply: the operator's kind:1 changes the access lists.
Executed(d, e) ==
    [d EXCEPT !.banned = IF e.arg = "deny" THEN @ \union {e.to} ELSE @ \ {e.to}, !.replies = @ \union {e.id}]

\* after_put: the effect of a stored command, a departure or an operator's command.
Effect(c) ==
    /\ conn[c].at = "effect"
    /\ LET e == E(c)
       IN  CASE e.cls = "leave" ->
                  role' = [role EXCEPT ![e.author] = "none"] /\ Settle(c, "ephemeral") /\ UNCHANGED db
             [] e.cls = "member" ->
                  IF ~MayCommand(e) \/ ~CommandFits(e, role) THEN Go(c, "undo") /\ UNCHANGED <<db, role>>
                  ELSE \E bad \in Fault("apply") :
                         /\ role' = Commanded(e, role)
                         /\ db' = IF bad THEN db
                                  ELSE [db EXCEPT !.role = role', !.applied = @ \union {e.id}]
                         /\ Go(c, IF bad THEN "undo" ELSE "clear")
             [] e.cls = "icon" ->
                  \E bad \in Fault("apply") :
                    /\ db' = IF bad THEN db ELSE [db EXCEPT !.applied = @ \union {e.id}]
                    /\ Go(c, IF bad THEN "undo" ELSE "clear") /\ UNCHANGED role
             [] e.cls \in GroupActions ->
                  \E refused \in Fault("apply") : Go(c, IF refused THEN "undo" ELSE "clear") /\ UNCHANGED <<db, role>>
             [] OTHER -> Settle(c, "stored") /\ db' = Executed(db, e) /\ UNCHANGED role
    /\ UNCHANGED <<lim, held, clock, up, answered, menu>>

\* reject_stored_command, and the rejection of a stored group action.
Undo(c) ==
    /\ conn[c].at = "undo"
    /\ \E stays \in Fault("removal"), kept \in Fault("clear") :
         LET e == E(c)
             d == [db EXCEPT !.events = @ \ {e.id}]
         IN  /\ db' = IF stays THEN db ELSE IF kept THEN d ELSE Unmark(d, e)
             /\ IF e.cls \in GroupActions THEN Charge(c) ELSE UNCHANGED lim
             /\ Settle(c, IF e.cls \in GroupActions /\ ~stays THEN "reject" ELSE "retry")
    /\ UNCHANGED <<role, held, clock, up, answered, menu>>

ClearPending(c) ==
    /\ conn[c].at = "clear"
    /\ \E kept \in Fault("clear") : db' = IF kept THEN db ELSE Unmark(db, E(c))
    /\ Settle(c, "stored")
    /\ UNCHANGED <<role, lim, held, clock, up, answered, menu>>

-----------------------------------------------------------------------------
(* The process *)

\* The debounced save of the role store (Roles has the detail).
PersistRoles ==
    /\ up /\ role # db.role
    /\ db' = [db EXCEPT !.role = role]
    /\ UNCHANGED <<conn, role, lim, held, clock, up, answered, menu>>

ClockTick ==
    /\ up /\ clock + 1 < Len(menu.rate)
    /\ clock' = clock + 1
    /\ UNCHANGED <<conn, db, role, lim, held, up, answered, menu>>

\* restore_role_state: the saved roles without the keys that vanished.
RestoredRole(d) == [a \in Authors |-> IF a \in d.vanished THEN "none" ELSE d.role[a]]

\* A crash; the batches in hand are never answered.
Crash ==
    /\ up /\ "crash" \in menu.faults
    /\ up' = FALSE
    /\ conn' = [c \in Conns |-> IdleConn]
    /\ answered' = [c \in Conns |-> IF conn[c].at = "idle" THEN answered[c] ELSE Append(answered[c], <<>>)]
    /\ role' = RestoredRole(db)
    /\ lim' = [pub |-> NoWindows, join |-> NoWindows]
    /\ held' = <<>>
    /\ UNCHANGED <<db, clock, menu>>

\* recover_command_journal in the order of the commands (their ids), after the marked group actions were removed
\* and the pending deletions resumed.
ReplayedOne(d, p, i) ==
    LET e == menu.event[i]
        ok == e.cls = "icon" \/ (p.role[e.author] = "admin" /\ e.to \notin d.vanished /\ CommandFits(e, p.role))
    IN  CASE i \notin d.journal -> p
          [] i \in d.journal \ d.events -> [p EXCEPT !.left = @ \ {i}]
          [] i \in d.journal \intersect d.events /\ ok ->
               [role |-> IF e.cls = "member" THEN Commanded(e, p.role) ELSE p.role,
                left |-> p.left \ {i}, applied |-> p.applied \union {i}]
          [] OTHER -> p
ReplayedCommand(d) ==
    LET start == [role |-> RestoredRole(d), left |-> d.journal, applied |-> d.applied]
        step[i \in 0..Max(d.journal \union {0})] == IF i = 0 THEN start ELSE ReplayedOne(d, step[i - 1], i)
    IN  step[Max(d.journal \union {0})]

Recover ==
    /\ ~up
    /\ LET d == [db EXCEPT !.events = (@ \ db.marks) \ db.pending, !.marks = {}, !.pending = {},
                           !.deleted = @ \union db.pending]
           r == ReplayedCommand(d)
       IN  /\ db' = [d EXCEPT !.role = r.role, !.journal = r.left, !.applied = r.applied]
           /\ role' = r.role
    /\ up' = TRUE
    /\ UNCHANGED <<conn, lim, held, clock, answered, menu>>

\* flush_pending_removals, once the tasks are done, and the end of the process.
Stop ==
    /\ up /\ "stop" \in menu.faults /\ \A c \in Conns : conn[c].at = "idle"
    /\ held # <<>>
    /\ \E shed \in Fault("removal") :
         /\ db' = IF shed THEN db ELSE [db EXCEPT !.pending = @ \union ToSet(held)]
         /\ held' = <<>>
    /\ up' = FALSE
    /\ role' = RestoredRole(db)
    /\ lim' = [pub |-> NoWindows, join |-> NoWindows]
    /\ UNCHANGED <<conn, clock, answered, menu>>

IntakeInit ==
    /\ menu \in Menus
    /\ conn = [c \in Conns |-> IdleConn]
    /\ db = [events |-> menu.stored, deleted |-> {}, vanished |-> {}, marks |-> {}, journal |-> {}, pending |-> {},
             seen |-> [a \in Authors |-> Unset], banned |-> menu.banned, replies |-> {}, role |-> menu.roles, applied |-> {}]
    /\ role = menu.roles
    /\ lim = [pub |-> NoWindows, join |-> NoWindows]
    /\ held = <<>> /\ clock = 0 /\ up = TRUE
    /\ answered = [c \in Conns |-> <<>>]

Step(c) ==
    \/ AcceptBatchBegin(c) \/ Route(c) \/ RunCheck(c) \/ RunCommit(c) \/ RunAfter(c)
    \/ HoldDrain(c) \/ HoldRecord(c) \/ HoldMerge(c)
    \/ Check(c) \/ AdmitMember(c) \/ AdmitRecheck(c) \/ VanishMark(c) \/ VanishRoles(c)
    \/ Gate(c) \/ Mark(c) \/ Put(c) \/ Effect(c) \/ Undo(c) \/ ClearPending(c)

IntakeNext == (\E c \in Conns : Step(c)) \/ PersistRoles \/ ClockTick \/ Crash \/ Recover \/ Stop

IntakeSpec == IntakeInit /\ [][IntakeNext]_ivars
-----------------------------------------------------------------------------
(* Properties *)

Busy(S) == {c \in Conns : conn[c].at \in S}

\* The answers of c's n-th batch, and where an event of a stored class got a plain yes.
Answers(c) == UNION {{n} \X (DOMAIN answered[c][n]) : n \in DOMAIN answered[c]}
SaidStored(c) ==
    {x \in Answers(c) : answered[c][x[1]][x[2]].ans = "stored"
                        /\ menu.send[c][x[1]][x[2]].cls \in {"note", "delete", "chat", "member", "icon"}}

\* A batch is answered event by event, in its order; a yes is for an event that was committed (it is
\* stored, was deleted since, or its author vanished), and only one sender of an event gets it
\* (accept_batch_mixed and finish put the outcomes of runs and single events back into their slots).
AnswersTrue ==
    \A c \in Conns :
        /\ \A n \in DOMAIN answered[c] : answered[c][n] # <<>> =>
             /\ Len(answered[c][n]) = Len(menu.send[c][n])
             /\ \A k \in DOMAIN answered[c][n] :
                  answered[c][n][k] # Unset /\ answered[c][n][k].id = menu.send[c][n][k].id
        /\ \A x \in SaidStored(c) :
             LET e == menu.send[c][x[1]][x[2]]
             IN  /\ e.id \in db.events \union db.deleted \/ e.author \in db.vanished
                 /\ \A d \in Conns : \A y \in SaidStored(d) :
                      menu.send[d][y[1]][y[2]].id = e.id => <<c, x>> = <<d, y>>

\* The limiters' indices mirror their windows, no window is over its limit and there are never more than
\* the bound, whatever was charged and given back by concurrent connections (PublishRate).
LimiterExact ==
    /\ \A l \in {lim.pub, lim.join} : Mirrored(l) /\ Cardinality(DOMAIN l.win) <= Tracked
    /\ \A a \in DOMAIN lim.pub.win : \E k \in DOMAIN menu.rate : Len(lim.pub.win[a]) <= menu.rate[k]
    /\ \A a \in DOMAIN lim.join.win : Len(lim.join.win[a]) <= JoinLimit

\* A key that vanished is not a member once its request and any admission of it are over
\* (admit_member reads the marker after it changed the store, vanish_pubkey drops the roles after it
\* wrote the marker).
VanishedNotMember ==
    \A a \in db.vanished :
        role[a] # "none" => \E c \in Busy({"recheck", "unrole", "admit"}) : E(c).author = a

\* The connections that send the event i.
SendersOf(i) == {c \in Conns : \E n \in DOMAIN menu.send[c] : \E k \in DOMAIN menu.send[c][n] : menu.send[c][n][k].id = i}

\* A stored command was applied, or its journal entry is there for the next start: the entry is written
\* before the put and cleared after the effect, whatever fails or stops in between, and however often its
\* sender repeats it (accept_event_verified, reject_stored_command, recover_command_journal).
CommandRecoverable ==
    \A i \in db.events \ menu.stored :
        menu.event[i].cls \in Durable /\ (\A c, d \in SendersOf(i) : c = d) => i \in db.applied \union db.journal

\* "written before the put so a crash after the command becomes visible can replay it on startup": the same of a
\* command that several connections send.
CommandReplayable ==
    \A i \in db.events \ menu.stored : menu.event[i].cls \in Durable => i \in db.applied \union db.journal

\* "A failed clear is harmless: the command is idempotent and a startup replay will confirm it": a start
\* that replays only commands that were applied before leaves every role as it was saved.
ReplayConfirms ==
    [][(~up /\ up') /\ db.journal \subseteq db.applied => role' = RestoredRole(db)]_ivars

\* hold_pending_removal answers whether "the request is durably recoverable (recorded now, or still
\* held in memory under the bound)": a deletion that was acknowledged is applied, recorded or held.
AckedRemovalKept ==
    \A c \in Conns : \A n \in DOMAIN answered[c] : \A k \in DOMAIN answered[c][n] :
        LET e == menu.send[c][n][k]
        IN  up /\ e.cls = "delete" /\ answered[c][n][k].ans = "stored"
              => \/ e.to \in db.deleted \union db.pending \union ToSet(held)
                 \/ \E d \in Conns : e.to \in ToSet(conn[d].drained)

\* "A rejected sibling's id is never inserted, so it cannot satisfy a later event's previous tag."
SiblingAccepted ==
    \A c \in Conns : \A n \in DOMAIN answered[c] : \A k \in DOMAIN answered[c][n] :
        LET b == menu.send[c][n]
            s == answered[c][n]
        IN  s[k].ans = "stored" =>
              \A j \in 1..(k - 1) : b[j].id \in b[k].prev => s[j].ans \in {"stored", "ephemeral", "duplicate"}
=============================================================================
