---------------------------- MODULE IndexRebuild ----------------------------
(***************************************************************************)
(* The derived indexes of the event store and their rebuild at startup        *)
(* (db/store.rs, db/threads.rs).  The writer thread walks every stored event   *)
(* in chunks, one commit each, with a cursor that survives a stop, then sets a  *)
(* marker.  A failed rebuild is counted and the relay goes on without it, so     *)
(* writes, a changed limit or a search switched off come between two attempts.    *)
(***************************************************************************)
EXTENDS Integers, Sequences, FiniteSets, SequencesExt, Chunks

CONSTANTS
    Chunk,      \* CHUNK: items per commit of a rebuild
    IndexMenus, \* bound: [ev, old, vanishing, writes, confs, faults, built, queries]: the events, the ids stored by an older build,
                \* pubkeys with a pending vanish, the writes to come, the configuration of each start, what may fail, whether the
                \* indexes are built, scans asked
    Nobody

ASSUME ChunkType == Chunk \in Nat \ {0}
ASSUME PhaseType == Nobody \notin {"clear", "fill"}
\* Ids are numbers from 1 on; a database that a start brought up to date had the search index on.
ASSUME IndexMenuType ==
    \A m \in IndexMenus :
        /\ IsFiniteSet(DOMAIN m.ev) /\ m.old \subseteq DOMAIN m.ev /\ DOMAIN m.ev \subseteq Nat \ {0}
        /\ \A id \in DOMAIN m.ev : m.ev[id].words \in Seq(STRING)
        /\ Len(m.writes) \in Nat /\ \A n \in 1..Len(m.writes) : m.writes[n].id \in DOMAIN m.ev
        /\ Len(m.confs) \in Nat /\ \A n \in 1..Len(m.confs) : m.confs[n] \in [search : BOOLEAN, words : Nat, meta : BOOLEAN]
        /\ m.built \in BOOLEAN /\ (m.built => Len(m.confs) > 0 /\ m.confs[1].search)

VARIABLES
    stored,  \* the events table: a set of ids, which are ordered as numbers
    entries, \* per index: the set of its keys <<what, id>>
    imeta,   \* index_meta: [ready, cursor, phase, state, words, schema]: markers, walk cursors, the phase and limit of
             \* word_rebuild, word_limit, the schema version marker
    vanish,  \* [pending, done]: vanish_pending and vanish
    writer,  \* [at, walk, cursor, cancel, errors, words]: the thread's step, a walk in it, its cursor, the cancel flag, errors
             \* met, indexed_words
    starts,  \* starts so far; the configuration is that of the last one
    written, \* writes taken from the menu
    imenu

ivars == <<stored, entries, imeta, vanish, writer, starts, written, imenu>>

Conf == imenu.confs[starts]
Ev(id) == imenu.ev[id]
Steps == <<"gift", "vanish", "meta", "delegation", "blossom", "word", "schema", "serve">>
Rebuilt == {"gift", "meta", "delegation", "blossom", "word"}
IFault(f) == {FALSE} \union (IF f \in imenu.faults THEN {TRUE} ELSE {})
\* The step after an index: recovery_tx is sent after the vanishes, the rebuilds of the other indexes follow.
After(s) == Steps[1 + CHOOSE i \in 1..Len(Steps) : Steps[i] = s]

\* vanished_or_pending.
VanishedOrPending(p) == p \in vanish.pending \union vanish.done

\* index_event_words: the first limit words of the content, and the overflow key for what is left out, a word longer than
\* a key included.
IndexEventWords(id, limit) ==
    LET words == Ev(id).words
        fits == {i \in 1..Len(words) : i <= limit /\ words[i] # "long"}
    IN  {<<words[i], id>> : i \in fits}
          \union (IF Cardinality(fits) < Len(words) THEN {<<"overflow", id>>} ELSE {})

\* What one event, or one blob, has in an index.
GiftWrapRecipients(id) == {<<r, id>> : r \in Ev(id).to}
\* nip26::verify, and a delegator that has not vanished; put_indexes writes the entry of an event that intake verified.
Delegates(id) == Ev(id).delegator # Nobody /\ Ev(id).delegator # Ev(id).author
DelegationEntry(id) ==
    IF Delegates(id) /\ ~Ev(id).forged /\ ~VanishedOrPending(Ev(id).delegator) THEN {<<Ev(id).delegator, id>>} ELSE {}
EntriesOf(i, id, limit) ==
    CASE i = "gift" -> GiftWrapRecipients(id)
      [] i = "meta" -> {<<Ev(id).kind, id>>}
      [] i = "delegation" -> DelegationEntry(id)
      [] i = "blossom" -> IF Ev(id).blob THEN {<<Ev(id).author, id>>} ELSE {}
      [] i = "word" -> IF Conf.search THEN IndexEventWords(id, limit) ELSE {}

Without(i, ids) == {k \in entries[i] : k[2] \notin ids}
\* put_indexes and remove_event, for the derived indexes.
PutIndexes(id) == [i \in Rebuilt |-> entries[i] \union EntriesOf(i, id, writer.words)]
RemoveEvents(ids) ==
    /\ stored' = stored \ ids
    /\ entries' = [i \in Rebuilt |-> IF i = "word" /\ ~Conf.search THEN entries[i] ELSE Without(i, ids)]

-----------------------------------------------------------------------------
(* Opening the store *)

\* Store::open: word_limit keeps its first value; without the search index the marker and the resume state go, since events
\* will be stored that the index does not know.
OpenMeta(c) ==
    IF c.search THEN [imeta EXCEPT !.words = IF @ = 0 THEN c.words ELSE @]
    ELSE [imeta EXCEPT !.ready = @ \ {"word"}, !.phase = Nobody, !.cursor["word"] = 0]
Open ==
    /\ writer.at = "down" /\ starts < Len(imenu.confs)
    /\ starts' = starts + 1
    /\ imeta' = OpenMeta(imenu.confs[starts + 1])
    /\ writer' = [at |-> "gift", walk |-> FALSE, cursor |-> 0, cancel |-> FALSE, errors |-> FALSE,
                  words |-> IF imenu.confs[starts + 1].search THEN imeta'.words ELSE imenu.confs[starts + 1].words]
    /\ UNCHANGED <<stored, entries, vanish, written, imenu>>

Goto(s) == [writer EXCEPT !.at = s, !.walk = FALSE]
\* db_error: the error is counted and the next step runs; a cancelled step is not an error.
Failed == writer' = [Goto(After(writer.at)) EXCEPT !.errors = @ \/ ~writer.cancel]

-----------------------------------------------------------------------------
(* Rebuilding *)

\* gift_wrap_index_needs_rebuild, meta_needs_rebuild (by counting), delegation_check_, blossom_order_, word_index_needs_rebuild.
NeedsRebuild(i) ==
    CASE i = "meta" -> Conf.meta /\ Cardinality(entries["meta"]) < Cardinality(stored)
      [] i = "word" -> Conf.search /\ (i \notin imeta.ready \/ imeta.words # Conf.words)
      [] OTHER -> i \notin imeta.ready
Skip ==
    /\ writer.at \in Rebuilt /\ ~writer.walk /\ ~NeedsRebuild(writer.at)
    /\ writer' = Goto(After(writer.at))
    /\ UNCHANGED <<stored, entries, imeta, vanish, starts, written, imenu>>
\* A walk begins at the cursor a stopped one left.
Begin ==
    /\ writer.at \in Rebuilt \ {"word"} /\ ~writer.walk /\ NeedsRebuild(writer.at)
    /\ writer' = [writer EXCEPT !.walk = TRUE, !.cursor = imeta.cursor[writer.at]]
    /\ UNCHANGED <<stored, entries, imeta, vanish, starts, written, imenu>>

\* The items a walk still has to see, and its next chunk.
Items(i) == IF i = "blossom" THEN {b \in DOMAIN imenu.ev : Ev(b).blob} ELSE stored
NextChunk(items, cursor) == FirstOf(Chunk, AheadOf(items, cursor))
\* The step cannot begin or commit: the shutdown flag, a full disk, or a failed transaction.
Interrupted == \E failed \in IFault("db") : (writer.cancel \/ failed) /\ Failed /\ UNCHANGED <<entries, imeta>>

\* One chunk of rebuild_gift_wrap_index, rebuild_event_meta, recheck_delegation_indexes and rebuild_blossom_order: the entries
\* and the cursor in one commit.  The recheck also removes what no longer verifies.
RebuildChunk(i) ==
    /\ writer.at = i /\ i # "word" /\ writer.walk
    /\ LET ids == NextChunk(Items(i), writer.cursor)
           base == IF i = "delegation" THEN Without(i, ids) ELSE entries[i]
       IN  \/ /\ ids # {} /\ ~writer.cancel
              /\ entries' = [entries EXCEPT ![i] = base \union UNION {EntriesOf(i, id, 0) : id \in ids}]
              /\ imeta' = [imeta EXCEPT !.cursor[i] = Max(ids)]
              /\ writer' = [writer EXCEPT !.cursor = Max(ids)]
           \/ Interrupted
    /\ UNCHANGED <<stored, vanish, starts, written, imenu>>

\* The marker, in a commit of its own after the last chunk; the metadata has none and only forgets its cursor.
MarkReady(i) ==
    /\ writer.at = i /\ i # "word" /\ writer.walk /\ AheadOf(Items(i), writer.cursor) = {}
    /\ \/ /\ ~writer.cancel \/ i \in {"meta", "delegation"}
          /\ imeta' = [imeta EXCEPT !.ready = IF i = "meta" THEN @ ELSE @ \union {i}, !.cursor[i] = 0]
          /\ writer' = Goto(After(i)) /\ UNCHANGED entries
       \/ Interrupted
    /\ UNCHANGED <<stored, vanish, starts, written, imenu>>

\* rebuild_word_index: where to begin.  A walk for another limit starts over; without a state the index is cleared first.
ResumePhase ==
    CASE imeta.phase = "fill" /\ imeta.state # Conf.words -> <<"clear", 0>>
      [] imeta.phase # Nobody /\ ~(imeta.phase = "fill" /\ imeta.state # Conf.words) -> <<imeta.phase, imeta.cursor["word"]>>
      [] imeta.phase = Nobody -> IF "word" \in imeta.ready /\ imeta.words = Conf.words THEN <<"fill", 0>> ELSE <<"clear", 0>>
\* The marker goes and the state is written in one commit, before a key is touched.
WordBegin ==
    /\ writer.at = "word" /\ ~writer.walk /\ NeedsRebuild("word")
    /\ \/ /\ ~writer.cancel
          /\ imeta' = [imeta EXCEPT !.ready = @ \ {"word"}, !.phase = ResumePhase[1], !.state = Conf.words,
                                    !.cursor["word"] = ResumePhase[2]]
          /\ writer' = [writer EXCEPT !.walk = TRUE, !.cursor = ResumePhase[2]] /\ UNCHANGED entries
       \/ Interrupted
    /\ UNCHANGED <<stored, vanish, starts, written, imenu>>

Walking(phase) == writer.at = "word" /\ writer.walk /\ imeta.phase = phase

\* Phase 0: the keys of the index, chunk by chunk (all keys of an id stand together here); then phase 1 begins.
WordClear ==
    /\ Walking("clear")
    /\ LET chunk == NextChunk({k[2] : k \in entries["word"]}, writer.cursor)
       IN  \/ /\ ~writer.cancel
              /\ entries' = [entries EXCEPT !["word"] = Without("word", chunk)]
              /\ IF chunk = {}
                 THEN /\ imeta' = [imeta EXCEPT !.phase = "fill", !.cursor["word"] = 0]
                      /\ writer' = [writer EXCEPT !.cursor = 0]
                 ELSE /\ imeta' = [imeta EXCEPT !.cursor["word"] = Max(chunk)]
                      /\ writer' = [writer EXCEPT !.cursor = Max(chunk)]
           \/ Interrupted
    /\ UNCHANGED <<stored, vanish, starts, written, imenu>>

\* Phase 1: the words of the stored events.
WordFill ==
    /\ Walking("fill") /\ AheadOf(stored, writer.cursor) # {}
    /\ LET chunk == NextChunk(stored, writer.cursor)
       IN  \/ /\ ~writer.cancel
              /\ entries' = [entries EXCEPT !["word"] = @ \union UNION {IndexEventWords(id, Conf.words) : id \in chunk}]
              /\ imeta' = [imeta EXCEPT !.cursor["word"] = Max(chunk)]
              /\ writer' = [writer EXCEPT !.cursor = Max(chunk)]
           \/ Interrupted
    /\ UNCHANGED <<stored, vanish, starts, written, imenu>>

\* The limit, the marker and the end of the state in one commit; then the writes use the new limit.
WordReady ==
    /\ Walking("fill") /\ AheadOf(stored, writer.cursor) = {}
    /\ \/ /\ ~writer.cancel
          /\ imeta' = [imeta EXCEPT !.ready = @ \union {"word"}, !.words = Conf.words, !.phase = Nobody, !.cursor["word"] = 0]
          /\ writer' = [Goto("schema") EXCEPT !.words = Conf.words] /\ UNCHANGED entries
       \/ Interrupted
    /\ UNCHANGED <<stored, vanish, starts, written, imenu>>

-----------------------------------------------------------------------------
(* The recovery of vanishes, the schema marker, and the writes *)

\* Mutant: a wrap that the stopped rebuild has not reached is not looked for.
GiftMutant == entries["gift"]
GiftIndex ==
    entries["gift"] \union (IF "gift" \in imeta.ready THEN {}
                            ELSE UNION {GiftWrapRecipients(id) : id \in AheadOf(stored, imeta.cursor["gift"])})
\* The walk for one key: its events, the wraps addressed to it, and the record moved.
FinishVanish(p) ==
    LET removed == {id \in stored : Ev(id).author = p \/ <<p, id>> \in GiftIndex}
    IN  /\ stored' = stored \ removed
        /\ entries' = [i \in Rebuilt |-> IF i = "gift" THEN {k \in GiftIndex : k[2] \notin removed}
                                         ELSE IF i = "word" /\ ~Conf.search THEN entries[i]
                                         ELSE {k \in Without(i, removed) : i # "delegation" \/ k[1] # p}]
        /\ imeta' = [imeta EXCEPT !.ready = @ \union {"gift"}, !.cursor["gift"] = 0]
        /\ vanish' = [pending |-> vanish.pending \ {p}, done |-> vanish.done \union {p}]
ResumeVanish ==
    /\ writer.at = "vanish"
    /\ \/ \E p \in vanish.pending : ~writer.cancel /\ FinishVanish(p) /\ UNCHANGED writer
       \/ \* a failed walk leaves the record; the next start tries again
          /\ vanish.pending = {} \/ writer.cancel \/ "db" \in imenu.faults
          /\ writer' = [Goto("meta") EXCEPT !.errors = @ \/ (vanish.pending # {} /\ ~writer.cancel)]
          /\ UNCHANGED <<stored, entries, imeta, vanish>>
    /\ UNCHANGED <<starts, written, imenu>>

\* The schema version is marked only when every step before it succeeded.
MarkSchema ==
    /\ writer.at = "schema"
    /\ imeta' = [imeta EXCEPT !.schema = @ \/ (~writer.cancel /\ ~writer.errors)]
    /\ writer' = [writer EXCEPT !.at = IF writer.cancel THEN "down" ELSE "serve"]
    /\ UNCHANGED <<stored, entries, vanish, starts, written, imenu>>

\* A write once the thread serves: [put |-> TRUE or FALSE, id].
Write ==
    /\ writer.at = "serve" /\ written < Len(imenu.writes)
    /\ LET w == imenu.writes[written + 1]
       IN  IF w.put /\ \A p \in {Ev(w.id).author, Ev(w.id).delegator} \union Ev(w.id).to : ~VanishedOrPending(p)
           THEN stored' = stored \union {w.id} /\ entries' = PutIndexes(w.id)
           ELSE IF w.put THEN UNCHANGED <<stored, entries>>
           ELSE RemoveEvents({w.id} \intersect stored)
    /\ written' = written + 1
    /\ UNCHANGED <<imeta, vanish, writer, starts, imenu>>

\* cancel_work during the rebuilds, an orderly stop, a crash: every commit made stays.
CancelWork ==
    /\ "cancel" \in imenu.faults /\ writer.at \notin {"down", "serve"} /\ ~writer.cancel
    /\ writer' = [writer EXCEPT !.cancel = TRUE]
    /\ UNCHANGED <<stored, entries, imeta, vanish, starts, written, imenu>>
Down ==
    /\ writer.at = "serve" \/ (writer.at # "down" /\ "crash" \in imenu.faults)
    /\ writer' = [writer EXCEPT !.at = "down"]
    /\ UNCHANGED <<stored, entries, imeta, vanish, starts, written, imenu>>

\* A database of an older build before the first start of this one, or one that a start of this build brought up to date.
IndexInit ==
    /\ imenu \in IndexMenus
    /\ stored = imenu.old
    /\ vanish = [pending |-> imenu.vanishing, done |-> {}]
    /\ starts = IF imenu.built THEN 1 ELSE 0
    /\ entries = [i \in Rebuilt |-> IF imenu.built THEN UNION {EntriesOf(i, id, Conf.words) : id \in imenu.old}
                                   ELSE IF i = "delegation" THEN {<<Ev(id).delegator, id>> : id \in {x \in imenu.old : Delegates(x)}}
                                   ELSE {}]
    /\ imeta = [ready |-> IF imenu.built THEN Rebuilt \ {"meta"} ELSE {}, cursor |-> [i \in Rebuilt |-> 0], phase |-> Nobody,
                state |-> 0, words |-> IF imenu.built THEN Conf.words ELSE 0, schema |-> imenu.built]
    /\ writer = [at |-> IF imenu.built THEN "serve" ELSE "down", walk |-> FALSE, cursor |-> 0, cancel |-> FALSE, errors |-> FALSE,
                 words |-> imeta.words]
    /\ written = 0

IndexNext ==
    \/ Open \/ Skip \/ Begin
    \/ \E i \in Rebuilt : RebuildChunk(i) \/ MarkReady(i)
    \/ WordBegin \/ WordClear \/ WordFill \/ WordReady
    \/ ResumeVanish \/ MarkSchema \/ Write \/ CancelWork \/ Down

IndexSpec == IndexInit /\ [][IndexNext]_ivars

-----------------------------------------------------------------------------
(* Properties *)

\* What a search for a word finds through the index.
Finds(word, id) == <<word, id>> \in entries["word"] \/ <<"overflow", id>> \in entries["word"]

\* A marker is never a promise the index does not keep: while it is set, every stored event is found by each of its words,
\* every wrap by its recipients, and a delegator's feed has the verified delegations and no other, whatever stops, errors, changed limits, switched
\* features and writes came between the commits of the rebuild.
IndexedWhenReady ==
    /\ "word" \in imeta.ready => \A id \in stored : \A w \in ToSet(Ev(id).words) : Finds(w, id)
    /\ "gift" \in imeta.ready => \A id \in stored : GiftWrapRecipients(id) \subseteq entries["gift"]
    /\ "delegation" \in imeta.ready => entries["delegation"] = UNION {DelegationEntry(id) : id \in stored}

\* A vanish that is no longer pending took the wraps addressed to it along, also those an older build stored without a
\* recipient entry and whose rebuild failed.
VanishedWrapsGone == \A p \in vanish.done : \A id \in stored : p \notin Ev(id).to /\ p # Ev(id).author

\* An index that says it is whole is whole, and what a vanish finds through it is gone.
IndexesWhole == IndexedWhenReady /\ VanishedWrapsGone
=============================================================================
