------------------------------- MODULE Blossom -------------------------------
(***************************************************************************)
(* The Blossom media server (server/blossom/mod.rs, storage.rs, s3.rs).  An *)
(* upload is spooled chunk by chunk against several budgets, published as an  *)
(* object and only then mapped to its owner; reads, deletions, the migration   *)
(* of old files and a stop of the process run beside it.  Objects live in the   *)
(* file system or behind S3, where a request can be lost either way.             *)
(***************************************************************************)
EXTENDS Integers, Sequences, FiniteSets, SequencesExt, Sums

CONSTANTS
    Owners, Shas,
    MinFree,     \* blossom.min_free_bytes, in chunks
    MaxUpload,   \* max_upload_bytes, in chunks
    UploadBudget,\* permits of upload_budget
    MaxPerKey,   \* MAX_UPLOADS_PER_PUBKEY
    MaxOwners,   \* MAX_BLOB_OWNERS
    Attempts,    \* S3_RETRY_ATTEMPTS
    Later(_, _), \* blossom_order_key: the first blob was uploaded after the second
    BlobMenus,   \* bound: [ops, faults, s3, free, files, allowed]: requests per client, what may fail, the
                 \* backend, free chunks at the start, old files without a mapping, who may upload
    None

\* What a request can ask: t is the handler, bad what is wrong with its authorization.
BlobOps == [t : {"put", "get", "list", "delete", "head_upload"}, who : Owners, sha : Shas, size : Nat, bad : STRING, range : Seq(Nat)]

\* The shape of the menus.
ASSUME BlobMenuType ==
    \A m \in BlobMenus :
      /\ DOMAIN m = {"ops", "faults", "s3", "free", "files", "allowed"}
      /\ IsFiniteSet(DOMAIN m.ops) /\ None \notin DOMAIN m.ops
      /\ \A c \in DOMAIN m.ops : m.ops[c] \in Seq(BlobOps)
      /\ m.s3 \in BOOLEAN /\ m.free \in Nat /\ m.files \subseteq Owners \X Shas
ASSUME FloorType == MinFree \in Nat

VARIABLES
    objects,    \* the stored objects: pairs of an owner and a hash
    owners,     \* the mapping: per hash the sequence of its owners
    missing,    \* missing_objects; seen: the owners whose objects were looked for
    generation, \* missing_generation, per hash
    disk,       \* [free, reserved, orphans, other]: free chunks, LocalStore::reserved, chunks in spools nobody
                \* removes, chunks of others (what is missing from the floor at the start is theirs)
    slots,      \* [inflight, held, permits]: uploads and chunks per key, permits of the budget
    shaLocks,      \* blob_lock, per hash
    req,        \* per client: the request in hand
    taken,      \* per client: requests taken from the menu
    acked,      \* uploads that were acknowledged and not deleted since
    migration,  \* [at, found]: the pass over the old files
    stopping,   \* the drain signal
    bmenu

bvars == <<objects, owners, missing, generation, disk, slots, shaLocks, req, taken, acked, migration, stopping, bmenu>>

BlobClients == DOMAIN bmenu.ops
BFault(f) == {FALSE} \union (IF f \in bmenu.faults THEN {TRUE} ELSE {})
Asked(c) == bmenu.ops[c][taken[c] + 1]
Idle(c, t) == req[c] = None /\ taken[c] < Len(bmenu.ops[c]) /\ Asked(c).t = t
At(c, s) == req[c] # None /\ req[c].at = s
GoTo(c, s) == req' = [req EXCEPT ![c].at = s]
Answered(c) == req' = [req EXCEPT ![c] = None]
Take(c) == taken' = [taken EXCEPT ![c] = @ + 1]
Mapped(o, s) == o \in ToSet(owners[s])

\* validate_auth_event and verify_auth_meta: bad is what is wrong with the request's authorization, if anything.
Authorized(o) == o.bad \notin {"missing", "kind", "signature", "future", "verb", "expired", "server", "banned"}
\* The hash the authorization names; an upload is compared with it only after it was received.
ShaSigned(o) == o.bad # "hash"
\* upload_allowed: restrict_uploads and the list of the operator.
UploadAllowed(o) == o.who \in bmenu.allowed

\* parse_range on a blob of n chunks: bytes=first-last, with 0 for a side left out; <<>> when it cannot be satisfied.
ParseRange(r, n) ==
    LET from == IF r[1] = 0 THEN IF r[2] < n THEN n - r[2] + 1 ELSE 1 ELSE r[1]
        to == IF r[1] = 0 \/ r[2] = 0 \/ r[2] > n THEN n ELSE r[2]
    IN  IF (r[1] = 0 /\ r[2] = 0) \/ from > n \/ to < from THEN <<>> ELSE <<from, to>>

StoreFails == bmenu.faults \intersect {"s3", "io"} # {}

\* check_space: a floor for the local store only.
Full == ~bmenu.s3 /\ disk.free < MinFree

-----------------------------------------------------------------------------
(* Uploads *)

\* put_blob: the authorization, the allow list, the floor, the declared length, then a slot.
PutBlob(c) ==
    /\ Idle(c, "put") /\ ~stopping
    /\ LET o == Asked(c)
           refused == ~Authorized(o) \/ ~UploadAllowed(o) \/ Full \/ o.size > MaxUpload \/ slots.inflight[o.who] >= MaxPerKey
       IN  IF refused THEN UNCHANGED <<req, slots>>
           ELSE /\ req' = [req EXCEPT ![c] = [o |-> o, at |-> "spool", size |-> 0, try |-> 1]]
                /\ slots' = [slots EXCEPT !.inflight[o.who] = @ + 1]
    /\ Take(c) /\ UNCHANGED <<objects, owners, missing, generation, disk, shaLocks, acked, migration, stopping, bmenu>>

\* head_preflight: the same questions without a body; the reservation is dropped with the answer.
HeadUpload(c) ==
    /\ Idle(c, "head_upload") /\ Take(c)
    /\ LET o == Asked(c)
           fits == disk.free >= MinFree + disk.reserved + o.size
       IN  req' = [req EXCEPT ![c] = IF Authorized(o) /\ ShaSigned(o) /\ UploadAllowed(o) /\ o.size <= MaxUpload /\ fits
                                     THEN [o |-> o, at |-> "reserved"] ELSE None]
    /\ disk' = IF req'[c] = None THEN disk ELSE [disk EXCEPT !.reserved = @ + Asked(c).size]
    /\ UNCHANGED <<objects, owners, missing, generation, slots, shaLocks, acked, migration, stopping, bmenu>>
HeadUploadDone(c) ==
    /\ At(c, "reserved") /\ Answered(c)
    /\ disk' = [disk EXCEPT !.reserved = @ - req[c].o.size]
    /\ UNCHANGED <<objects, owners, missing, generation, slots, shaLocks, taken, acked, migration, stopping, bmenu>>

\* The guards of an upload are dropped: UploadSlot, SpaceReservation, TempUploadCleanup.  A spool is left behind
\* when the process stops.
ReleaseSlot(r) ==
    [slots EXCEPT !.inflight[r.o.who] = @ - 1, !.held[r.o.who] = @ - r.size, !.permits = @ + r.size]
ReleaseSpace(r, spooled) ==
    [disk EXCEPT !.reserved = @ - r.size, !.free = IF spooled /\ ~stopping THEN @ + r.size ELSE @,
                 !.orphans = IF spooled /\ stopping THEN @ + r.size ELSE @]
Abort(c) ==
    /\ slots' = ReleaseSlot(req[c]) /\ disk' = ReleaseSpace(req[c], TRUE) /\ Answered(c)

\* spool_upload: one chunk.  try_reserve takes it from the key's share and the common budget; grow adds it to the
\* reserved bytes before it compares them with the free space.
CanReserve(r) == slots.held[r.o.who] + 1 <= MaxUpload /\ slots.permits > 0
ReservedMutant(d) == d   \* mutant: the chunk is not counted before the comparison
Reserved(d) == [d EXCEPT !.reserved = @ + 1]
SpoolChunk(c) ==
    /\ At(c, "spool") /\ req[c].size < req[c].o.size
    /\ LET r == req[c]
           d == Reserved(disk)
           held == [slots EXCEPT !.held[r.o.who] = @ + 1, !.permits = @ - 1]
       IN  IF ~CanReserve(r) THEN Abort(c)
           ELSE IF d.free < MinFree + d.reserved
           THEN \* the chunk's permit goes with the slot
                /\ slots' = ReleaseSlot(r) /\ disk' = ReleaseSpace(r, TRUE) /\ Answered(c)
           ELSE slots' = held /\ disk' = d /\ GoTo(c, "check")
    /\ UNCHANGED <<objects, owners, missing, generation, shaLocks, taken, acked, migration, stopping, bmenu>>

\* check_space at the end of reserve reads the free space a second time.
GrowCheck(c) ==
    /\ At(c, "check")
    /\ LET r == req[c]
       IN  IF Full
           THEN /\ slots' = [ReleaseSlot(r) EXCEPT !.held[r.o.who] = @ - 1, !.permits = @ + 1]
                /\ disk' = ReleaseSpace(r, TRUE) /\ Answered(c)
           ELSE /\ disk' = [disk EXCEPT !.free = @ - 1]
                /\ req' = [req EXCEPT ![c].at = "spool", ![c].size = @ + 1]
                /\ UNCHANGED slots
    /\ UNCHANGED <<objects, owners, missing, generation, shaLocks, taken, acked, migration, stopping, bmenu>>

\* A body that stalls, is too slow or breaks off.
UploadFails(c) ==
    /\ "body" \in bmenu.faults /\ At(c, "spool") /\ Abort(c)
    /\ UNCHANGED <<objects, owners, missing, generation, shaLocks, taken, acked, migration, stopping, bmenu>>

\* put_file: the hash is what was signed, then the blob's lock, the mapping and the owner limit.
PutFile(c) ==
    /\ At(c, "spool") /\ req[c].size = req[c].o.size /\ shaLocks[req[c].o.sha] = None
    /\ LET o == req[c].o
           full == ~Mapped(o.who, o.sha) /\ Len(owners[o.sha]) >= MaxOwners
       IN  \E failed \in BFault("db") :
             IF ~ShaSigned(o) \/ Full \/ failed \/ full THEN Abort(c) /\ UNCHANGED shaLocks
             ELSE /\ GoTo(c, "publish") /\ shaLocks' = [shaLocks EXCEPT ![o.sha] = c]
                  /\ UNCHANGED <<slots, disk>>
    /\ UNCHANGED <<objects, owners, missing, generation, taken, acked, migration, stopping, bmenu>>
Unlocked(c) == shaLocks' = [shaLocks EXCEPT ![req[c].o.sha] = None]

\* LocalStore::put_file: the rename of the spool and the fsync of its directory, which may fail after the rename.
PublishFailed(c) ==
    /\ objects' \in {objects, objects \union {<<req[c].o.who, req[c].o.sha>>}}
    /\ slots' = ReleaseSlot(req[c]) /\ disk' = ReleaseSpace(req[c], bmenu.s3 \/ objects' = objects)
    /\ Unlocked(c) /\ Answered(c)
Published(c) ==
    /\ objects' = objects \union {<<req[c].o.who, req[c].o.sha>>}
    /\ GoTo(c, "forget") /\ UNCHANGED <<slots, disk, shaLocks>>
PublishLocal(c) ==
    /\ At(c, "publish") /\ ~bmenu.s3
    /\ Published(c) \/ ("io" \in bmenu.faults /\ PublishFailed(c))
    /\ UNCHANGED <<owners, missing, generation, taken, acked, migration, stopping, bmenu>>

\* put_object_file: a request whose answer is lost may have been carried out; a retryable one is sent again.
Retried(c) ==
    /\ "s3" \in bmenu.faults /\ req[c].try < Attempts
    /\ objects' \in {objects, objects \union {<<req[c].o.who, req[c].o.sha>>}}
    /\ req' = [req EXCEPT ![c].try = @ + 1] /\ UNCHANGED <<slots, disk, shaLocks>>
PublishS3(c) ==
    /\ At(c, "publish") /\ bmenu.s3
    /\ Published(c) \/ Retried(c) \/ ("s3" \in bmenu.faults /\ PublishFailed(c))
    /\ UNCHANGED <<owners, missing, generation, taken, acked, migration, stopping, bmenu>>

Without(s) == {e \in missing : e.sha # s}
\* forget_missing: the generation first, then the entry.
ForgetMissing(c) ==
    /\ At(c, "forget")
    /\ generation' = [generation EXCEPT ![req[c].o.sha] = @ + 1]
    /\ missing' = Without(req[c].o.sha)
    /\ GoTo(c, "commit")
    /\ UNCHANGED <<objects, owners, disk, slots, shaLocks, taken, acked, migration, stopping, bmenu>>

\* add_blossom_mapping, which refuses an owner past the limit.
WithOwner(seq, o) == IF o \in ToSet(seq) \/ Len(seq) >= MaxOwners THEN seq ELSE Append(seq, o)
CommitOwner(c) ==
    /\ At(c, "commit")
    /\ LET o == req[c].o
       IN  \E failed \in BFault("db") :
             IF failed \/ o.who \notin ToSet(WithOwner(owners[o.sha], o.who)) THEN UNCHANGED <<owners, acked>>
             ELSE /\ owners' = [owners EXCEPT ![o.sha] = WithOwner(@, o.who)]
                  /\ acked' = acked \union {<<o.who, o.sha>>}
    /\ slots' = ReleaseSlot(req[c]) /\ disk' = ReleaseSpace(req[c], bmenu.s3)
    /\ Unlocked(c) /\ Answered(c)
    /\ UNCHANGED <<objects, missing, generation, taken, migration, stopping, bmenu>>

-----------------------------------------------------------------------------
(* Reads *)

\* resolve: the mapping is read once, before anything else.
Resolve(c) ==
    /\ Idle(c, "get")
    /\ LET s == Asked(c).sha
       IN  req' = IF owners[s] = <<>> THEN req
                  ELSE [req EXCEPT ![c] = [o |-> Asked(c), at |-> "resolved", all |-> owners[s], seen |-> owners[s],
                                           gen |-> 0, err |-> FALSE]]
    /\ Take(c)
    /\ UNCHANGED <<objects, owners, missing, generation, disk, slots, shaLocks, acked, migration, stopping, bmenu>>

\* get_blob answers a range it cannot serve before it opens anything; then missing_cached and the generation.
Unsatisfiable(o) == o.range # <<>> /\ ParseRange(o.range, o.size) = <<>>
Cached(s) == \E e \in missing : e.sha = s
OpenStart(c) ==
    /\ At(c, "resolved")
    /\ req' = IF Cached(req[c].o.sha) \/ Unsatisfiable(req[c].o) THEN [req EXCEPT ![c] = None]
              ELSE [req EXCEPT ![c].at = "open", ![c].gen = generation[req[c].o.sha]]
    /\ UNCHANGED <<objects, owners, missing, generation, disk, slots, shaLocks, taken, acked, migration, stopping, bmenu>>

\* What a lookup of one owner's object answers.  A path that is a symbolic link is refused: nothing is known.
LocalLookup(p) ==
    {IF p \in objects THEN "found" ELSE "missing"} \union (IF "link" \in bmenu.faults THEN {"refused"} ELSE {})
S3Lookup(p) ==
    {IF p \in objects THEN "found" ELSE "missing"} \union (IF "s3" \in bmenu.faults THEN {"error"} ELSE {})

\* open_resolved and any_exists: the owners one after the other.  A found object forgets the miss; after an error or a
\* refusal nothing is remembered.
OpenOwner(c) ==
    /\ At(c, "open")
    /\ LET s == req[c].o.sha
           p == <<Head(req[c].all), s>>
           rest == Tail(req[c].all)
       IN  \E found \in IF bmenu.s3 THEN S3Lookup(p) ELSE LocalLookup(p) :
             LET known == found = "missing" /\ ~req[c].err
             IN  /\ IF found = "found"
                    THEN generation' = [generation EXCEPT ![s] = @ + 1] /\ missing' = Without(s)
                    ELSE UNCHANGED <<generation, missing>>
                 /\ req' = IF found = "found" \/ (rest = <<>> /\ ~known) THEN [req EXCEPT ![c] = None]
                           ELSE IF rest = <<>> THEN [req EXCEPT ![c].at = "remember"]
                           ELSE [req EXCEPT ![c].all = rest, ![c].err = ~known]
    /\ UNCHANGED <<objects, owners, disk, slots, shaLocks, taken, acked, migration, stopping, bmenu>>

\* remember_missing_if
RememberMissing(c) ==
    /\ At(c, "remember") /\ Answered(c)
    /\ missing' = IF generation[req[c].o.sha] # req[c].gen THEN missing
                  ELSE Without(req[c].o.sha) \union {[sha |-> req[c].o.sha, seen |-> req[c].seen]}
    /\ UNCHANGED <<objects, owners, generation, disk, slots, shaLocks, taken, acked, migration, stopping, bmenu>>

\* MISSING_CACHE_TTL, or the table is full.
ForgetsItself(s) ==
    /\ Cached(s) /\ missing' = Without(s)
    /\ UNCHANGED <<objects, owners, generation, disk, slots, shaLocks, req, taken, acked, migration, stopping, bmenu>>

\* list: one page after the other, newest first; the cursor is the last blob of the page before, and a cursor that is
\* not mapped any more ends the walk.
ListStart(c) ==
    /\ Idle(c, "list") /\ Take(c)
    /\ req' = IF Authorized(Asked(c)) THEN [req EXCEPT ![c] = [o |-> Asked(c), at |-> "list", cursor |-> None]] ELSE req
    /\ UNCHANGED <<objects, owners, missing, generation, disk, slots, shaLocks, acked, migration, stopping, bmenu>>
PageAfter(o, cursor) ==
    LET before(s) == cursor = None \/ Later(cursor, s)
    IN  {s \in Shas : Mapped(o, s) /\ before(s) /\ \A t \in Shas : Mapped(o, t) /\ before(t) => t = s \/ Later(s, t)}
ListPage(c) ==
    /\ At(c, "list")
    /\ LET r == req[c]
           page == IF r.cursor = None \/ Mapped(r.o.who, r.cursor) THEN PageAfter(r.o.who, r.cursor) ELSE {}
       IN  req' = [req EXCEPT ![c] = IF page = {} THEN None ELSE [r EXCEPT !.cursor = CHOOSE s \in page : TRUE]]
    /\ UNCHANGED <<objects, owners, missing, generation, disk, slots, shaLocks, taken, acked, migration, stopping, bmenu>>

-----------------------------------------------------------------------------
(* Deletions *)

\* delete_blob: only an owner may.
DeleteBlob(c) ==
    /\ Idle(c, "delete")
    /\ LET o == Asked(c)
       IN  req' = IF Authorized(o) /\ ShaSigned(o) /\ Mapped(o.who, o.sha) THEN [req EXCEPT ![c] = [o |-> o, at |-> "unlink"]] ELSE req
    /\ Take(c)
    /\ UNCHANGED <<objects, owners, missing, generation, disk, slots, shaLocks, acked, migration, stopping, bmenu>>

\* Mutant: the object goes before the lock is taken.
DeleteFileMutant(c) ==
    /\ At(c, "unlink")
    /\ objects' = objects \ {<<req[c].o.who, req[c].o.sha>>}
    /\ acked' = acked \ {<<req[c].o.who, req[c].o.sha>>}
    /\ GoTo(c, "unmap")
    /\ UNCHANGED <<owners, missing, generation, disk, slots, shaLocks, taken, migration, stopping, bmenu>>

\* BlobStore::delete: under the lock, the object and then the mapping.  unlink and the HEAD and DELETE of S3 may fail
\* after they took effect.
FileUnlinked(c) ==
    /\ objects' = objects \ {<<req[c].o.who, req[c].o.sha>>} /\ GoTo(c, "unmap")
    /\ shaLocks' = [shaLocks EXCEPT ![req[c].o.sha] = c]
UnlinkFailed(c) ==
    /\ StoreFails /\ objects' \in {objects, objects \ {<<req[c].o.who, req[c].o.sha>>}}
    /\ Answered(c) /\ UNCHANGED shaLocks
DeleteFile(c) ==
    /\ At(c, "unlink") /\ shaLocks[req[c].o.sha] = None
    /\ FileUnlinked(c) \/ UnlinkFailed(c)
    /\ acked' = IF objects' = objects THEN acked ELSE acked \ {<<req[c].o.who, req[c].o.sha>>}
    /\ UNCHANGED <<owners, missing, generation, disk, slots, taken, migration, stopping, bmenu>>
\* remove_blossom_owner: an owner is in the list at most once.
WithoutOwner(seq, o) ==
    IF o \in ToSet(seq) THEN RemoveAt(seq, CHOOSE i \in DOMAIN seq : seq[i] = o) ELSE seq
DeleteMapping(c) ==
    /\ At(c, "unmap")
    /\ \E failed \in BFault("db") :
         owners' = IF failed THEN owners ELSE [owners EXCEPT ![req[c].o.sha] = WithoutOwner(@, req[c].o.who)]
    /\ shaLocks' = [shaLocks EXCEPT ![req[c].o.sha] = IF @ = c THEN None ELSE @]
    /\ Answered(c)
    /\ UNCHANGED <<objects, missing, generation, disk, slots, taken, acked, migration, stopping, bmenu>>

-----------------------------------------------------------------------------
(* The old files, the disk, a stop *)

\* auto_migrate_legacy: every file the walk finds, in the order of the directory, is mapped without the blob's lock;
\* done is recorded at the end.
MigrateScan ==
    /\ migration.at = "scan" /\ ~stopping
    /\ migration' = [at |-> "add", found |-> objects]
    /\ UNCHANGED <<objects, owners, missing, generation, disk, slots, shaLocks, req, taken, acked, stopping, bmenu>>
MigrateAdd ==
    /\ migration.at = "add" /\ ~stopping
    /\ \E failed \in BFault("db") :
         \/ /\ migration.found = {}
            /\ migration' = [migration EXCEPT !.at = IF failed THEN "off" ELSE "done"] /\ UNCHANGED owners
         \/ \E f \in migration.found :
              /\ owners' = IF failed THEN owners ELSE [owners EXCEPT ![f[2]] = WithOwner(@, f[1])]
              /\ migration' = IF failed THEN [at |-> "off", found |-> {}] ELSE [migration EXCEPT !.found = @ \ {f}]
    /\ UNCHANGED <<objects, missing, generation, disk, slots, shaLocks, req, taken, acked, stopping, bmenu>>

\* Something else writes to the same file system.
DiskUse ==
    /\ "disk" \in bmenu.faults /\ disk.free > 0
    /\ \E n \in 1..disk.free : disk' = [disk EXCEPT !.free = @ - n, !.other = @ + n]
    /\ bmenu' = [bmenu EXCEPT !.faults = @ \ {"disk"}]
    /\ UNCHANGED <<objects, owners, missing, generation, slots, shaLocks, req, taken, acked, migration, stopping>>

\* The drain signal: a spool dropped from now on is left for the next start.
DrainSignal ==
    /\ "drain" \in bmenu.faults /\ ~stopping /\ stopping' = TRUE
    /\ bmenu' = [bmenu EXCEPT !.faults = @ \ {"drain"}]
    /\ UNCHANGED <<objects, owners, missing, generation, disk, slots, shaLocks, req, taken, acked, migration>>

\* A new process: build_state, sweep_stale_spools and the migration when it is not recorded as done.
Fresh(free, at) ==
    /\ disk' = [disk EXCEPT !.free = free, !.reserved = 0, !.orphans = 0]
    /\ slots' = [inflight |-> [o \in Owners |-> 0], held |-> [o \in Owners |-> 0], permits |-> UploadBudget]
    /\ shaLocks' = [s \in Shas |-> None] /\ req' = [c \in BlobClients |-> None]
    /\ missing' = {} /\ generation' = [s \in Shas |-> 0]
    /\ migration' = [at |-> at, found |-> {}] /\ stopping' = FALSE
Restart ==
    /\ stopping \/ "crash" \in bmenu.faults
    /\ LET spool == {"spool", "check", "publish"} \union (IF bmenu.s3 THEN {"forget", "commit"} ELSE {})
           inSpool(c) == req[c] # None /\ req[c].at \in spool
       IN  Fresh(disk.free + disk.orphans + SumOver([c \in BlobClients |-> IF inSpool(c) THEN req[c].size ELSE 0], BlobClients),
                 IF migration.at = "done" THEN "done" ELSE "scan")
    /\ bmenu' = [bmenu EXCEPT !.faults = @ \ {"crash"}]
    /\ UNCHANGED <<objects, owners, taken, acked>>

-----------------------------------------------------------------------------
BlossomInit ==
    /\ bmenu \in BlobMenus
    /\ objects = bmenu.files /\ owners = [s \in Shas |-> <<>>]
    /\ missing = {} /\ generation = [s \in Shas |-> 0]
    /\ disk = [free |-> bmenu.free, reserved |-> 0, orphans |-> 0,
               other |-> IF bmenu.free < MinFree THEN MinFree - bmenu.free ELSE 0]
    /\ slots = [inflight |-> [o \in Owners |-> 0], held |-> [o \in Owners |-> 0], permits |-> UploadBudget]
    /\ shaLocks = [s \in Shas |-> None] /\ req = [c \in BlobClients |-> None]
    /\ taken = [c \in BlobClients |-> 0] /\ acked = {}
    /\ migration = [at |-> IF bmenu.files = {} THEN "done" ELSE "scan", found |-> {}] /\ stopping = FALSE

BlossomNext ==
    \/ \E c \in BlobClients :
         \/ PutBlob(c) \/ HeadUpload(c) \/ HeadUploadDone(c) \/ SpoolChunk(c) \/ GrowCheck(c) \/ UploadFails(c) \/ PutFile(c) \/ PublishLocal(c) \/ PublishS3(c)
         \/ ForgetMissing(c) \/ CommitOwner(c)
         \/ Resolve(c) \/ OpenStart(c) \/ OpenOwner(c) \/ RememberMissing(c)
         \/ ListStart(c) \/ ListPage(c) \/ DeleteBlob(c) \/ DeleteFile(c) \/ DeleteMapping(c)
    \/ \E s \in Shas : ForgetsItself(s)
    \/ MigrateScan \/ MigrateAdd \/ DiskUse \/ DrainSignal \/ Restart

BlossomSpec == BlossomInit /\ [][BlossomNext]_bvars

-----------------------------------------------------------------------------
(* Properties *)

\* An upload that was acknowledged can be served until its owner deletes it: its object is stored under that owner and
\* the owner is mapped, whatever uploads, deletions, the migration, a failed store or a restart come between.
AckedServable == \A p \in acked : p \in objects /\ Mapped(p[1], p[2])

\* A remembered miss never hides an acknowledged upload of an owner the lookup asked for: an upload that healed the
\* hash while the owners were tried makes the observation stale.
MissingHonest == \A e \in missing : \A o \in ToSet(e.seen) : <<o, e.sha>> \notin acked

\* "An upload of the same hash clears the entry immediately" (MISSING_CACHE_TTL): an acknowledged upload is not hidden.
UploadClearsMiss == \A p \in acked : ~Cached(p[2])

\* Uploads that run side by side never take the free space under the floor: the bytes a chunk needs are reserved
\* before the free space is read (what others write apart), and a reservation lasts until its spool is published or removed.
FloorHeld == bmenu.s3 \/ disk.free + disk.other >= MinFree

\* "Reserves `size` bytes against the free-space floor" (LocalStore::reserve): a reservation ends with its upload, so
\* nothing stays reserved when every upload has ended.
ReservedExact == (\A c \in BlobClients : req[c] = None) => disk.reserved = 0

\* What was acknowledged is there to be served, and no remembered miss was found by asking for it.
BlobsHonest == AckedServable /\ MissingHonest

-----------------------------------------------------------------------------
(* The inductive invariant *)

BlobOf(o) == <<o.who, o.sha>>
InStep(c, steps) == \E a \in steps : At(c, a)

PutReqs == [o : BlobOps, at : {"spool", "check", "publish", "forget", "commit"}, size : Nat, try : Nat]
GetReqs == [o : BlobOps, at : {"resolved", "open", "remember"}, all : Seq(Owners), seen : Seq(Owners), gen : Nat,
            err : BOOLEAN]
ListReqs == [o : BlobOps, at : {"list"}, cursor : Shas \union {None}]
OtherReqs == [o : BlobOps, at : {"unlink", "unmap", "reserved"}]

BmenuOK ==
    /\ DOMAIN bmenu = {"ops", "faults", "s3", "free", "files", "allowed"}
    /\ IsFiniteSet(BlobClients) /\ None \notin BlobClients
    /\ \A c \in BlobClients : bmenu.ops[c] \in Seq(BlobOps)
    /\ taken \in [BlobClients -> Nat] /\ bmenu.s3 \in BOOLEAN
BlobsOK ==
    /\ objects \subseteq Owners \X Shas
    /\ owners \in [Shas -> Seq(Owners)]
    /\ missing \subseteq [sha : Shas, seen : Seq(Owners)]
    /\ generation \in [Shas -> Nat]
    /\ shaLocks \in [Shas -> BlobClients \union {None}]
    /\ DOMAIN migration = {"at", "found"} /\ migration.found \subseteq Owners \X Shas
ReqsOK == req \in [BlobClients -> PutReqs \union GetReqs \union ListReqs \union OtherReqs \union {None}]
DiskOK == disk \in [free : Int, reserved : Int, orphans : Nat, other : Nat]

\* The lock of a blob is held from the check of its owners to the mapping, and from the removal of the object to that
\* of its mapping.
LockInv == \A c \in BlobClients :
    InStep(c, {"publish", "forget", "commit", "unmap"}) => shaLocks[req[c].o.sha] = c
\* What is about to be mapped is stored, and what is about to be unmapped is not acknowledged.
HandInv == \A c \in BlobClients :
    /\ InStep(c, {"forget", "commit"}) => BlobOf(req[c].o) \in objects
    /\ At(c, "unmap") => BlobOf(req[c].o) \notin acked

\* No upload of s by o is acknowledged or can be without another change of the generation.
Unborn(o, s) == <<o, s>> \notin acked /\ \A c \in BlobClients : At(c, "commit") => BlobOf(req[c].o) # <<o, s>>
\* A lookup whose generation is the current one has found no object of an owner it asked and got an answer for.
Current(c) == req[c].gen = generation[req[c].o.sha]
LookOK(c) ==
    /\ InStep(c, {"open", "remember"}) => req[c].gen <= generation[req[c].o.sha]
    /\ At(c, "resolved") => req[c].all # <<>> /\ req[c].seen = req[c].all
    /\ At(c, "open") => req[c].all # <<>>
    /\ At(c, "open") /\ Current(c) =>
         \A o \in ToSet(req[c].seen) : o \in ToSet(req[c].all) \/ req[c].err \/ Unborn(o, req[c].o.sha)
    /\ At(c, "remember") /\ Current(c) => \A o \in ToSet(req[c].seen) : Unborn(o, req[c].o.sha)
LookInv == \A c \in BlobClients : LookOK(c)
MissInv == \A e \in missing : \A o \in ToSet(e.seen) : Unborn(o, e.sha)

\* The chunks a request has reserved, and the one it has reserved and not written yet.
Claimed == [c \in BlobClients |->
    IF At(c, "reserved") THEN req[c].o.size
    ELSE IF At(c, "check") THEN req[c].size + 1
    ELSE IF InStep(c, {"spool", "publish", "forget", "commit"}) THEN req[c].size ELSE 0]
Unwritten == [c \in BlobClients |-> IF At(c, "check") THEN 1 ELSE 0]
ReservedInv == disk.reserved >= SumOver(Claimed, BlobClients)
FloorInv == bmenu.s3 \/ disk.free + disk.other >= MinFree + SumOver(Unwritten, BlobClients)

BlossomInv ==
    /\ BmenuOK /\ BlobsOK /\ ReqsOK /\ DiskOK
    /\ LockInv /\ HandInv /\ LookInv /\ MissInv /\ AckedServable
    /\ ReservedInv /\ FloorInv
=============================================================================
