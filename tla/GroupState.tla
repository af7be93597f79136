----------------------------- MODULE GroupState -----------------------------
(***************************************************************************)
(* The derived NIP-29 group state of nostrfy and its two copies: the live  *)
(* GroupStore that answers every membership and visibility question, and   *)
(* the snapshot a restart restores instead of replaying the history        *)
(* (src/relay/mod.rs, src/server/mod.rs, src/nips/nip29/mod.rs).           *)
(*                                                                         *)
(* Tasks that share no transaction keep them in step with the stored       *)
(* events: the accept path of each group event, the removal of a stored    *)
(* one, the coalesced rebuild worker, the debounced snapshot worker, and   *)
(* the startup recovery after a crash.  A step is what a task does between *)
(* two awaits or under one lock, or one commit of the database writer.     *)
(*                                                                         *)
(* A copy of the state is the set of events it was derived from.  The      *)
(* events are those whose effect a replay reconstructs: a kind:9008, whose *)
(* ghost and purge are not, only discards a scan, as an overflow does.     *)
(***************************************************************************)
EXTENDS Integers, FiniteSets

CONSTANTS
    Event,        \* group-state events, 1..n in the order of created_at
    Group,        \* group ids
    GroupOf,      \* the group of each event
    Unresolved,   \* the events whose removal cannot name its groups
    NoSnap,       \* no snapshot on disk
    Rebuilder,    \* groups_rebuild_worker, as a holder of persist_lock
    Saver,        \* snapshot_persist_worker, as one
    NoTask,       \* nobody holds persist_lock
    BufferMax,    \* GROUPS_REBUILD_BUFFER_MAX
    Preempted,    \* a save may start between the clear and its re-check
    DeleteEarly,  \* an event may be deleted before its OK was sent
    MayDrain,     \* the shutdown signal may be given
    MaxCrashes,   \* bound: process stops
    MaxFaults     \* bound: failed database requests

ASSUME EventsInOrder == IsFiniteSet(Event) /\ Event = 1..Cardinality(Event)
ASSUME GroupType == GroupOf \in [Event -> Group] /\ Unresolved \subseteq Event
ASSUME TasksDistinct ==
    NoTask \notin Event \cup {Rebuilder, Saver} /\ Rebuilder # Saver
    /\ {Rebuilder, Saver} \cap Event = {}
ASSUME NoSnapIsFresh == NoSnap \notin [ev : SUBSET Event, seq : Nat]
ASSUME BoundsType ==
    /\ {BufferMax, MaxCrashes, MaxFaults} \subseteq Nat
    /\ {Preempted, DeleteEarly, MayDrain} \subseteq BOOLEAN

VARIABLES
    stored,      \* disk: the group-state events
    marker,      \* disk: group_apply_pending
    seq,         \* disk: STATE_SEQ_GROUP_KEY
    snap,        \* disk: the snapshot, with its group_seq
    live,        \* GroupStore
    stale,       \* the groups that fail closed
    unrestored,  \* GroupStore.unrestored
    dirty, saveDue, running, \* the flags of GroupsRebuild
    buffer,      \* RebuildBuffer
    worker,      \* groups_rebuild_worker: its step and its scan
    overlapped,  \* publishers whose captured scan generation is outdated
    publish,     \* the accept path of each event
    removal,     \* the removal of each event
    marking,     \* mark_group_state_stale_scope, as far as it has come
    saver,       \* snapshot_persist_worker
    unsaved,     \* SnapshotPersist.groups_dirty
    saving,      \* GroupsRebuild::persist under persist_lock
    drain,       \* the shutdown signal
    boot,        \* the startup sequence
    crashes, faults,
    acked,       \* history: events reported OK
    refused,     \* history: events rejected at apply time
    deleted,     \* history: events removed by a deletion
    recovered,   \* history: events removed by the startup recovery
    missed,      \* history: events the running scan's marker filter misjudged
    misread      \* history: those of the scan the live store is from

disk     == <<stored, marker, seq, snap>>
store    == <<live, stale, unrestored>>
flags    == <<dirty, saveDue, running>>
scan     == <<buffer, worker, overlapped>>
paths    == <<publish, removal, marking>>
saveVars == <<saver, unsaved, saving>>
process  == <<drain, boot, crashes>>
history  == <<acked, refused, deleted, recovered, missed, misread>>
dvars == <<disk, store, flags, scan, paths, saveVars, process, faults, history>>

Up == boot = "up"

NoBuffer == [scanning |-> FALSE, events |-> {}, scope |-> {}, retry |-> FALSE]
NoWorker == [step |-> "none", at |-> 0, page |-> {}, fresh |-> {}]
NoSave   == [by |-> NoTask, step |-> "none", seq |-> 0, ev |-> {}]

\* A database request may fail: overload, a full disk, a lost reply.
Fault == faults < MaxFaults /\ faults' = faults + 1
NoFault == UNCHANGED faults

-----------------------------------------------------------------------------
(* Scheduling: both workers are single-flight by their running flag.       *)

\* schedule_groups_rebuild
ScheduleRebuild ==
    IF drain \/ running
    THEN UNCHANGED <<running, worker>>
    ELSE running' = TRUE /\ worker' = [NoWorker EXCEPT !.step = "head"]

\* schedule_groups_persist
ScheduleSave ==
    /\ unsaved' = TRUE
    /\ saver' = IF drain \/ saver # "none" THEN saver ELSE "wait"

-----------------------------------------------------------------------------
(* The accept path of a group event: accept_event, after_put,              *)
(* apply_group_state.                                                      *)

Goto(e, step) == publish' = [publish EXCEPT ![e] = step]

\* Validation refuses writes to a group that fails closed.  The derived
\* claim is taken, the scan generation captured and the marker written.
MarkPending(e) ==
    /\ Up /\ publish[e] = "idle"
    /\ GroupOf[e] \notin stale /\ ~unrestored
    /\ marker' = marker \cup {e}
    /\ overlapped' = overlapped \ {e}
    /\ Goto(e, "marked")
    /\ UNCHANGED <<stored, seq, snap, store, flags, buffer, worker, removal, marking,
                   saveVars, process, faults, history>>

\* put_with_first_seen commits the event and advances the group sequence.
Put(e) ==
    /\ Up /\ publish[e] = "marked"
    /\ stored' = stored \cup {e}
    /\ seq' = seq + 1
    /\ Goto(e, "stored")
    /\ UNCHANGED <<marker, snap, store, flags, scan, removal, marking, saveVars,
                   process, faults, history>>

\* Not accepted: the marker of this call is cleared, best effort.
PutRefused(e) ==
    /\ Up /\ publish[e] = "marked"
    /\ \/ marker' = marker \ {e} /\ NoFault
       \/ UNCHANGED marker /\ Fault
    /\ Goto(e, "done")
    /\ UNCHANGED <<stored, seq, snap, store, flags, scan, removal, marking, saveVars,
                   process, history>>

\* Mutant: an event applied while a scan runs is not captured.
CaptureMutant(e) == buffer

\* What the buffer lock protects while a scan runs: the event is captured
\* for replay, or the buffer is full.
Capture(e) ==
    IF ~buffer.scanning THEN buffer
    ELSE IF Cardinality(buffer.events) >= BufferMax THEN [buffer EXCEPT !.retry = TRUE]
    ELSE [buffer EXCEPT !.events = @ \cup {e}]

\* apply_group_state: capture and live apply are one step.
Apply(e) ==
    /\ Up /\ publish[e] = "stored"
    /\ buffer' = Capture(e)
    /\ live' = live \cup {e}
    /\ ScheduleSave
    /\ Goto(e, "applied")
    /\ UNCHANGED <<disk, stale, unrestored, flags, worker, overlapped, removal, marking,
                   saving, process, faults, history>>

\* The marker goes; a failed clear leaves it to the startup recovery.
ClearApplied(e) ==
    /\ Up /\ publish[e] = "applied"
    /\ \/ marker' = marker \ {e} /\ NoFault
       \/ UNCHANGED marker /\ Fault
    /\ acked' = acked \cup {e}
    /\ Goto(e, "done")
    /\ UNCHANGED <<stored, seq, snap, store, flags, scan, removal, marking, saveVars,
                   process, refused, deleted, recovered, missed, misread>>

\* Incarnation, authorization or capacity refuse the stored event; a scan
\* in flight may have read it and is discarded.
Reject(e) ==
    /\ Up /\ publish[e] = "stored"
    /\ buffer' = [buffer EXCEPT !.retry = @ \/ buffer.scanning]
    /\ ScheduleSave
    /\ refused' = refused \cup {e}
    /\ Goto(e, "rejected")
    /\ UNCHANGED <<disk, store, flags, worker, overlapped, removal, marking, saving,
                   process, faults, acked, deleted, recovered, missed, misread>>

\* remove_events_by_id moves no generation; when it fails the marker stays.
RemoveRejected(e) ==
    /\ Up /\ publish[e] = "rejected"
    /\ \/ stored' = stored \ {e} /\ Goto(e, "removed") /\ NoFault
       \/ UNCHANGED stored /\ Goto(e, "done") /\ Fault
    /\ UNCHANGED <<marker, seq, snap, store, flags, scan, removal, marking, saveVars,
                   process, history>>

\* repair_rejected_group_scan: a scan completed since the generation was
\* captured may have swapped the event in.
RepairRejectedScan(e) ==
    /\ Up /\ publish[e] = "removed"
    /\ IF e \in overlapped
       THEN Goto(e, "repair") /\ marking' = [marking EXCEPT ![e] = "dirty"]
       ELSE Goto(e, "clear") /\ UNCHANGED marking
    /\ UNCHANGED <<disk, store, flags, scan, removal, saveVars, process, faults, history>>

ClearRejected(e) ==
    /\ Up
    /\ publish[e] = "clear" \/ (publish[e] = "repair" /\ marking[e] = "none")
    /\ \/ marker' = marker \ {e} /\ NoFault
       \/ UNCHANGED marker /\ Fault
    /\ Goto(e, "done")
    /\ UNCHANGED <<stored, seq, snap, store, flags, scan, removal, marking, saveVars,
                   process, history>>

-----------------------------------------------------------------------------
(* The removal of a stored event: NIP-09, NIP-62, NIP-40, NIP-86.          *)

\* The derived claim is held and the walk commits, with the generation.
RemoveEvent(e) ==
    /\ Up /\ removal[e] = "idle"
    /\ e \in stored
    /\ DeleteEarly \/ e \in acked
    /\ stored' = stored \ {e}
    /\ seq' = seq + 1
    /\ deleted' = deleted \cup {e}
    /\ removal' = [removal EXCEPT ![e] = "marking"]
    /\ marking' = [marking EXCEPT ![e] = "dirty"]
    /\ UNCHANGED <<marker, snap, store, flags, scan, publish, saveVars, process, faults,
                   acked, refused, recovered, missed, misread>>

RemoveDone(e) ==
    /\ Up /\ removal[e] = "marking" /\ marking[e] = "none"
    /\ removal' = [removal EXCEPT ![e] = "done"]
    /\ UNCHANGED <<disk, store, flags, scan, publish, marking, saveVars, process, faults,
                   history>>

\* DerivedMutationEpoch::in_flight, mutant: removals take no claim.
InFlightMutant == \E e \in Event : publish[e] \notin {"idle", "done"}

\* DerivedMutationEpoch::in_flight
InFlight == \E e \in Event : publish[e] \notin {"idle", "done"} \/ removal[e] = "marking"

-----------------------------------------------------------------------------
(* mark_group_state_stale_scope, on behalf of the removal of e.            *)

MarkStep(e, from, to) ==
    /\ Up /\ marking[e] = from
    /\ marking' = [marking EXCEPT ![e] = to]

MarkDirty(e) ==
    /\ MarkStep(e, "dirty", "pending")
    /\ dirty' = TRUE
    /\ UNCHANGED <<disk, store, saveDue, running, scan, publish, removal, saveVars,
                   process, faults, history>>

SetPending(e) ==
    /\ MarkStep(e, "pending", "buffer")
    /\ saveDue' = TRUE
    /\ UNCHANGED <<disk, store, dirty, running, scan, publish, removal, saveVars,
                   process, faults, history>>

\* The groups the walk resolved, or the whole store when it could not.
Scope(e) == IF e \in Unresolved THEN Group ELSE {GroupOf[e]}

\* Mutant: a mark that arrives while a scan runs is not carried over.
MarkBufferMutant(e) ==
    /\ MarkStep(e, "buffer", "live")
    /\ UNCHANGED <<disk, store, flags, scan, publish, removal, saveVars, process, faults,
                   history>>

MarkBuffer(e) ==
    /\ MarkStep(e, "buffer", "live")
    /\ buffer' = [buffer EXCEPT !.scope = @ \cup Scope(e)]
    /\ UNCHANGED <<disk, store, flags, worker, overlapped, publish, removal, saveVars,
                   process, faults, history>>

MarkLive(e) ==
    /\ MarkStep(e, "live", "persist")
    /\ stale' = stale \cup Scope(e)
    /\ UNCHANGED <<disk, live, unrestored, flags, scan, publish, removal, saveVars,
                   process, faults, history>>

MarkSchedule(e) ==
    /\ MarkStep(e, "schedule", "none")
    /\ ScheduleRebuild
    /\ UNCHANGED <<disk, store, dirty, saveDue, buffer, overlapped, publish, removal,
                   saveVars, process, faults, history>>

-----------------------------------------------------------------------------
(* GroupsRebuild::persist, for the task that holds persist_lock.           *)

Wants(t) ==
    \/ t = Rebuilder /\ worker.step = "persist"
    \/ t = Saver /\ saver \in {"persist", "final"}
    \/ t \in Event /\ marking[t] = "persist"

\* The caller goes on; only the debounced worker retries a deferred save.
Resume(t, outcome) ==
    \/ /\ t = Rebuilder
       /\ worker' = [worker EXCEPT !.step = "head"]
       /\ UNCHANGED <<marking, saver, unsaved>>
    \/ /\ t = Saver /\ saver = "persist"
       /\ unsaved' = (unsaved \/ outcome = "Deferred")
       /\ saver' = IF unsaved' /\ ~drain THEN "wait" ELSE "none"
       /\ UNCHANGED <<worker, marking>>
    \/ /\ t = Saver /\ saver = "final"
       /\ saver' = "closed"
       /\ UNCHANGED <<worker, marking, unsaved>>
    \/ /\ t \in Event
       /\ marking' = [marking EXCEPT ![t] = "schedule"]
       /\ UNCHANGED <<worker, saver, unsaved>>

\* The rebuild worker keeps the state pending when its save failed.
Return(t, outcome) ==
    /\ Resume(t, outcome)
    /\ saveDue' = (saveDue \/ (t = Rebuilder /\ outcome = "Failed"))

\* clear_groups_snapshot
ClearSnapshot(t) ==
    \/ snap' = NoSnap /\ Return(t, "Committed") /\ NoFault
    \/ UNCHANGED snap /\ Return(t, "Failed") /\ Fault

\* The generation cannot be read: the state turns pending and the snapshot
\* is dropped, if that request succeeds.
Unreadable(t) ==
    /\ Fault
    /\ saveDue' = TRUE
    /\ snap' \in {snap, NoSnap}
    /\ Resume(t, "Failed")

PersistFrame ==
    UNCHANGED <<stored, marker, seq, store, dirty, running, buffer, overlapped, publish,
                removal, process, history>>

\* A pending state drops the snapshot, an unrestored store keeps it for a
\* later recovery, a mutation in flight defers; else the generation is read.
PersistBegin(t) ==
    /\ Up /\ saving.by = NoTask /\ Wants(t)
    /\ Preempted \/ worker.step # "recheck"
    /\ \/ saveDue /\ ClearSnapshot(t) /\ UNCHANGED saving
       \/ /\ ~saveDue /\ unrestored
          /\ Return(t, "Committed") /\ UNCHANGED <<snap, saving>> /\ NoFault
       \/ /\ ~saveDue /\ ~unrestored /\ InFlight
          /\ Return(t, "Deferred") /\ UNCHANGED <<snap, saving>> /\ NoFault
       \/ /\ ~saveDue /\ ~unrestored /\ ~InFlight
          /\ saving' = [by |-> t, step |-> "capture", seq |-> seq, ev |-> {}]
          /\ UNCHANGED <<snap, worker, saveDue, marking, saver, unsaved>> /\ NoFault
       \/ /\ ~saveDue /\ ~unrestored /\ ~InFlight
          /\ Unreadable(t) /\ UNCHANGED saving
    /\ PersistFrame

\* encode_persisted under the read guard.
PersistCapture ==
    /\ Up /\ saving.step = "capture"
    /\ saving' = [saving EXCEPT !.step = "check", !.ev = live]
    /\ UNCHANGED <<disk, store, flags, scan, paths, saver, unsaved, process, faults, history>>

\* The re-checks follow the capture.
PersistCheck ==
    /\ Up /\ saving.step = "check"
    /\ LET t == saving.by
       IN  \/ saveDue /\ ClearSnapshot(t) /\ saving' = NoSave
           \/ /\ ~saveDue /\ InFlight
              /\ Return(t, "Deferred") /\ saving' = NoSave /\ UNCHANGED snap /\ NoFault
           \/ /\ ~saveDue /\ ~InFlight
              /\ saving' = [saving EXCEPT !.step = "reread"] /\ NoFault
              /\ UNCHANGED <<snap, worker, saveDue, marking, saver, unsaved>>
    /\ PersistFrame

\* The generation is read again.
PersistReread ==
    /\ Up /\ saving.step = "reread"
    /\ LET t == saving.by
       IN  \/ /\ seq > saving.seq
              /\ Return(t, "Failed") /\ saving' = NoSave /\ UNCHANGED snap /\ NoFault
           \/ Unreadable(t) /\ saving' = NoSave
           \/ /\ seq = saving.seq
              /\ saving' = [saving EXCEPT !.step = "save"] /\ NoFault
              /\ UNCHANGED <<snap, worker, saveDue, marking, saver, unsaved>>
    /\ PersistFrame

\* save_groups_encoded
PersistSave ==
    /\ Up /\ saving.step = "save"
    /\ \/ /\ snap' = [ev |-> saving.ev, seq |-> saving.seq]
          /\ Return(saving.by, "Committed") /\ NoFault
       \/ UNCHANGED snap /\ Return(saving.by, "Failed") /\ Fault
    /\ saving' = NoSave
    /\ PersistFrame

-----------------------------------------------------------------------------
(* groups_rebuild_worker.                                                  *)

At(step) == Up /\ worker.step = step

WorkerFrame ==
    UNCHANGED <<disk, paths, saveVars, process, acked, refused, deleted, recovered>>

\* The drain signal, then the dirty flag.
RebuildHead ==
    /\ At("head")
    /\ \/ /\ drain
          /\ saveDue' = TRUE
          /\ worker' = [worker EXCEPT !.step = "release"]
          /\ UNCHANGED dirty
       \/ /\ ~drain /\ ~dirty
          /\ worker' = [worker EXCEPT !.step = "release"]
          /\ UNCHANGED <<dirty, saveDue>>
       \/ /\ ~drain /\ dirty
          /\ dirty' = FALSE
          /\ worker' = [worker EXCEPT !.step = "open"]
          /\ UNCHANGED saveDue
    /\ UNCHANGED <<store, running, buffer, overlapped, missed, misread, faults>>
    /\ WorkerFrame

\* The buffering window opens before anything is read.
RebuildOpen ==
    /\ At("open")
    /\ buffer' = [NoBuffer EXCEPT !.scanning = TRUE]
    /\ worker' = [step |-> "read", at |-> 1, page |-> {}, fresh |-> {}]
    /\ missed' = {}
    /\ UNCHANGED <<store, flags, overlapped, misread, faults>>
    /\ WorkerFrame

\* One page of the ascending scan, as long as the caps allow; the markers
\* among its events are a second request.
ScanRead ==
    /\ At("read")
    /\ \E last \in worker.at..Cardinality(Event) :
         worker' = [worker EXCEPT !.step = "filter", !.at = last + 1,
                                  !.page = (worker.at..last) \cap stored]
    /\ UNCHANGED <<store, flags, buffer, overlapped, missed, misread, faults>>
    /\ WorkerFrame

\* The filter takes a marked event for unconfirmed, and an unmarked one for
\* confirmed: wrong for an event applied before the window opened whose
\* marker is not cleared yet, and for a rejected one that both left the
\* database and lost its marker since the page was read.
Misjudged ==
    {e \in worker.page :
        \/ e \in marker /\ publish[e] = "applied" /\ e \notin buffer.events
        \/ e \notin marker /\ e \notin stored /\ e \in refused}

Kept == worker.page \ marker

\* The last page completes the scan and its generation.
ScanFilter ==
    /\ At("filter")
    /\ worker' = [worker EXCEPT !.step = IF worker.at \in Event THEN "read" ELSE "swap",
                                !.page = {}, !.fresh = @ \cup Kept]
    /\ missed' = missed \cup Misjudged
    /\ overlapped' = IF worker.at \in Event THEN overlapped ELSE Event
    /\ UNCHANGED <<store, flags, buffer, misread, faults>>
    /\ WorkerFrame

Closed == [buffer EXCEPT !.scanning = FALSE, !.events = {}, !.retry = FALSE]

\* A request of the scan fails: the flag is armed again, but nobody is
\* scheduled before the next removal.
ScanFails ==
    /\ Up /\ worker.step \in {"read", "filter"}
    /\ Fault
    /\ buffer' = Closed
    /\ dirty' = TRUE /\ saveDue' = TRUE /\ running' = FALSE
    /\ overlapped' = Event
    /\ worker' = NoWorker
    /\ UNCHANGED <<store, missed, misread>>
    /\ WorkerFrame

\* The shutdown aborts the interval wait and the scan.
ScanAborted ==
    /\ Up /\ drain /\ worker.step \in {"open", "read", "filter"}
    /\ buffer' = IF worker.step = "open" THEN buffer ELSE Closed
    /\ saveDue' = TRUE
    /\ worker' = [NoWorker EXCEPT !.step = "release"]
    /\ UNCHANGED <<store, dirty, running, overlapped, missed, misread, faults>>
    /\ WorkerFrame

\* Finalize under the buffer lock: discard, or replay and swap.
Swap ==
    /\ At("swap")
    /\ \/ /\ buffer.retry
          /\ dirty' = TRUE /\ saveDue' = TRUE
          /\ worker' = [NoWorker EXCEPT !.step = "head"]
          /\ UNCHANGED <<store, misread>>
       \/ /\ ~buffer.retry
          /\ live' = worker.fresh \cup buffer.events
          /\ stale' = buffer.scope
          /\ unrestored' = FALSE
          /\ misread' = missed
          /\ worker' = [NoWorker EXCEPT !.step = "current"]
          /\ UNCHANGED <<dirty, saveDue>>
    /\ buffer' = IF buffer.retry THEN Closed ELSE [Closed EXCEPT !.scope = {}]
    /\ UNCHANGED <<running, overlapped, missed, faults>>
    /\ WorkerFrame

\* Only a store no further removal has touched is current.
CheckDirty ==
    /\ At("current")
    /\ worker' = [worker EXCEPT !.step = IF dirty THEN "persist" ELSE "clear"]
    /\ UNCHANGED <<store, flags, buffer, overlapped, missed, misread, faults>>
    /\ WorkerFrame

ClearPending ==
    /\ At("clear")
    /\ saveDue' = FALSE
    /\ worker' = [worker EXCEPT !.step = "recheck"]
    /\ UNCHANGED <<store, dirty, running, buffer, overlapped, missed, misread, faults>>
    /\ WorkerFrame

RecheckDirty ==
    /\ At("recheck")
    /\ saveDue' = (saveDue \/ dirty)
    /\ worker' = [worker EXCEPT !.step = "persist"]
    /\ UNCHANGED <<store, dirty, running, buffer, overlapped, missed, misread, faults>>
    /\ WorkerFrame

Release ==
    /\ At("release")
    /\ running' = FALSE
    /\ worker' = [worker EXCEPT !.step = "released"]
    /\ UNCHANGED <<store, dirty, saveDue, buffer, overlapped, missed, misread, faults>>
    /\ WorkerFrame

\* Mutant: the worker ends without the trailing check of the dirty flag.
ReleasedMutant ==
    /\ At("released")
    /\ worker' = NoWorker /\ UNCHANGED running
    /\ UNCHANGED <<store, dirty, saveDue, buffer, overlapped, missed, misread, faults>>
    /\ WorkerFrame

\* A trigger that saw the flag still taken must not be lost.
UnmarkReleased ==
    /\ At("released")
    /\ IF dirty /\ ~drain
       THEN running' = TRUE /\ worker' = [NoWorker EXCEPT !.step = "head"]
       ELSE worker' = NoWorker /\ UNCHANGED running
    /\ UNCHANGED <<store, dirty, saveDue, buffer, overlapped, missed, misread, faults>>
    /\ WorkerFrame

-----------------------------------------------------------------------------
(* snapshot_persist_worker and the flush at shutdown.                      *)

\* The coalescing interval is over, or cut short by the drain.
SaverPass ==
    /\ Up /\ unsaved /\ saver = "wait"
    /\ unsaved' = FALSE
    /\ saver' = "persist"
    /\ UNCHANGED <<disk, store, flags, scan, paths, saving, process, faults, history>>

\* finish_snapshot_persists: one flush once the worker is gone.
SaverFinal ==
    /\ Up /\ drain /\ saver = "none" /\ unsaved
    /\ unsaved' = FALSE
    /\ saver' = "final"
    /\ UNCHANGED <<disk, store, flags, scan, paths, saving, process, faults, history>>

-----------------------------------------------------------------------------
(* The process: shutdown, crash and startup_group_state.                   *)

DrainProcess ==
    /\ Up /\ MayDrain /\ ~drain
    /\ drain' = TRUE
    /\ UNCHANGED <<disk, store, flags, scan, paths, saveVars, boot, crashes, faults, history>>

\* The process ends, at any point; the disk is what remains.
CrashAndRestart ==
    /\ crashes < MaxCrashes
    /\ crashes' = crashes + 1
    /\ live' = {} /\ stale' = {} /\ unrestored' = FALSE
    /\ dirty' = FALSE /\ saveDue' = FALSE /\ running' = FALSE
    /\ buffer' = NoBuffer /\ worker' = NoWorker /\ overlapped' = {}
    /\ publish' = [e \in Event |-> IF publish[e] = "idle" THEN "idle" ELSE "done"]
    /\ removal' = [e \in Event |-> IF removal[e] = "idle" THEN "idle" ELSE "done"]
    /\ marking' = [e \in Event |-> "none"]
    /\ saver' = "none" /\ unsaved' = FALSE /\ saving' = NoSave
    /\ drain' = FALSE
    /\ boot' = "recover"
    /\ UNCHANGED <<disk, faults, history>>

\* recover_group_apply_pending: unconfirmed events go with their markers,
\* and no generation moves.
RecoverPending ==
    /\ boot = "recover"
    /\ stored' = stored \ marker
    /\ recovered' = recovered \cup (stored \cap marker)
    /\ marker' = {}
    /\ boot' = IF marker = {} THEN "restore" ELSE "rebuild"
    /\ UNCHANGED <<seq, snap, store, flags, scan, paths, saveVars, drain, crashes, faults,
                   acked, refused, deleted, missed, misread>>

\* snapshot_is_current, restore_checked
SnapshotIsCurrent == snap # NoSnap /\ snap.seq >= seq

\* restore_group_state from the snapshot; saving it again changes nothing.
Restore ==
    /\ boot = "restore" /\ SnapshotIsCurrent
    /\ live' = snap.ev
    /\ boot' = "up"
    /\ UNCHANGED <<disk, stale, unrestored, flags, scan, paths, saveVars, drain, crashes,
                   faults, history>>

\* rebuild_group_state: forced by the recovery, or the snapshot is missing,
\* unreadable or too old.  The result is saved, best effort.
Rebuild ==
    /\ \/ boot = "rebuild" \/ (boot = "restore" /\ ~SnapshotIsCurrent)
    /\ live' = stored
    /\ \/ snap' = [ev |-> stored, seq |-> seq] /\ misread' = {} /\ NoFault
       \/ UNCHANGED <<snap, misread>> /\ Fault
    /\ boot' = "up"
    /\ UNCHANGED <<stored, marker, seq, stale, unrestored, flags, scan, paths, saveVars,
                   drain, crashes, acked, refused, deleted, recovered, missed>>

\* fail_closed_group_state: everything is hidden, the snapshot stays.
RebuildFails ==
    /\ \/ boot = "rebuild" \/ (boot = "restore" /\ ~SnapshotIsCurrent)
    /\ Fault
    /\ unrestored' = TRUE
    /\ boot' = "up"
    /\ UNCHANGED <<disk, live, stale, flags, scan, paths, saveVars, drain, crashes, history>>

-----------------------------------------------------------------------------
DerivedInit ==
    /\ stored = {} /\ marker = {} /\ seq = 0 /\ snap = NoSnap
    /\ live = {} /\ stale = {} /\ unrestored = FALSE
    /\ dirty = FALSE /\ saveDue = FALSE /\ running = FALSE
    /\ buffer = NoBuffer /\ worker = NoWorker /\ overlapped = {}
    /\ publish = [e \in Event |-> "idle"]
    /\ removal = [e \in Event |-> "idle"]
    /\ marking = [e \in Event |-> "none"]
    /\ saver = "none" /\ unsaved = FALSE /\ saving = NoSave
    /\ drain = FALSE /\ boot = "up"
    /\ crashes = 0 /\ faults = 0
    /\ acked = {} /\ refused = {} /\ deleted = {} /\ recovered = {}
    /\ missed = {} /\ misread = {}

Publishing(e) ==
    \/ Put(e) \/ PutRefused(e) \/ Apply(e) \/ ClearApplied(e)
    \/ Reject(e) \/ RemoveRejected(e) \/ RepairRejectedScan(e) \/ ClearRejected(e)

Marking(e) ==
    MarkDirty(e) \/ SetPending(e) \/ MarkBuffer(e) \/ MarkLive(e) \/ MarkSchedule(e)

Tasks == Event \cup {Rebuilder, Saver}

Persisting ==
    \/ \E t \in Tasks : PersistBegin(t)
    \/ PersistCapture \/ PersistCheck \/ PersistReread \/ PersistSave

Worker ==
    \/ RebuildHead \/ RebuildOpen \/ ScanRead \/ ScanFilter \/ ScanFails \/ ScanAborted
    \/ Swap \/ CheckDirty \/ ClearPending \/ RecheckDirty \/ Release \/ UnmarkReleased

Startup == RecoverPending \/ Restore \/ Rebuild \/ RebuildFails

DerivedNext ==
    \/ \E e \in Event :
         MarkPending(e) \/ Publishing(e) \/ RemoveEvent(e) \/ RemoveDone(e) \/ Marking(e)
    \/ Persisting \/ Worker \/ SaverPass \/ SaverFinal \/ DrainProcess \/ CrashAndRestart \/ Startup

DerivedSpec == DerivedInit /\ [][DerivedNext]_dvars

\* Tokio runs every task that is ready: an accept path or a removal that has
\* begun, the two workers and the startup go on.  Nobody has to publish,
\* delete, drain or crash.
DerivedFairness ==
    /\ \A e \in Event : WF_dvars(Publishing(e)) /\ WF_dvars(Marking(e) \/ RemoveDone(e))
    /\ \A t \in Tasks : WF_dvars(PersistBegin(t))
    /\ WF_dvars(PersistCapture \/ PersistCheck \/ PersistReread \/ PersistSave)
    /\ WF_dvars(Worker) /\ WF_dvars(SaverPass \/ SaverFinal) /\ WF_dvars(Startup)

-----------------------------------------------------------------------------
(* Properties.                                                             *)

DerivedTypeOK ==
    /\ stored \subseteq Event /\ marker \subseteq Event /\ seq \in Nat
    /\ snap \in [ev : SUBSET Event, seq : Nat] \cup {NoSnap}
    /\ live \subseteq Event /\ stale \subseteq Group /\ unrestored \in BOOLEAN
    /\ dirty \in BOOLEAN /\ saveDue \in BOOLEAN /\ running \in BOOLEAN
    /\ unsaved \in BOOLEAN /\ drain \in BOOLEAN
    /\ buffer \in [scanning : BOOLEAN, events : SUBSET Event, scope : SUBSET Group,
                   retry : BOOLEAN]
    /\ worker \in [step : {"none", "head", "open", "read", "filter", "swap", "current",
                           "clear", "recheck", "persist", "release", "released"},
                   at : Nat, page : SUBSET Event, fresh : SUBSET Event]
    /\ overlapped \subseteq Event
    /\ publish \in [Event -> {"idle", "marked", "stored", "applied", "rejected", "removed",
                              "repair", "clear", "done"}]
    /\ removal \in [Event -> {"idle", "marking", "done"}]
    /\ marking \in [Event -> {"none", "dirty", "pending", "buffer", "live", "persist",
                              "schedule"}]
    /\ saver \in {"none", "wait", "persist", "final", "closed"}
    /\ saving \in [by : Tasks \cup {NoTask}, step : {"none", "capture", "check", "reread", "save"},
                   seq : Nat, ev : SUBSET Event]
    /\ boot \in {"recover", "restore", "rebuild", "up"}
    /\ crashes \in 0..MaxCrashes /\ faults \in 0..MaxFaults
    /\ acked \cup refused \cup deleted \cup recovered \cup missed \cup misread \subseteq Event

\* The group answers nothing from the store.
FailsClosed(e) == unrestored \/ GroupOf[e] \in stale

\* mark_group_state_stale_scope, the swap: from the moment its removal has
\* marked the live store until it is out of it, a removed event (a revoked
\* grant) authorizes nobody; no swap in between releases the gate too early.
DeletedFailsClosed ==
    Up => \A e \in live \cap deleted :
              FailsClosed(e) \/ marking[e] \in {"dirty", "pending", "buffer", "live"}

\* GroupsRebuild::persist, restore_checked: a snapshot that a restart would
\* restore holds no removed event and misses no confirmed one, whatever
\* removal, put or rebuild raced its capture, save or clear.
SnapshotTrue ==
    SnapshotIsCurrent =>
        /\ snap.ev \cap deleted = {}
        /\ snap.ev \subseteq stored \cup misread \cup recovered
        /\ stored \ (marker \cup misread) \subseteq snap.ev

\* apply_group_state and the swap: an event reported OK is in the live store
\* until it is removed, but for one the scan's marker filter misjudged.
AckedStaysLive ==
    Up => \A e \in (acked \cap stored) \ (marker \cup misread) : e \in live \/ FailsClosed(e)

\* repair_rejected_group_scan, RebuildBuffer.retry: an event refused at apply
\* time is at no moment in the live store: no scan that read it before its
\* removal brings it in, but for one the filter misjudged.
RefusedStaysOut == Up => refused \cap live \subseteq misread

\* The live store answers from no event that was removed or refused: neither
\* the removal's gate (mark_group_state_stale_scope) nor the repair of a scan
\* (repair_rejected_group_scan) leaves a window in which a swap brings it back.
NoStaleAuthority == DeletedFailsClosed /\ RefusedStaysOut

\* The coalesced rebuild: a removed event leaves the live store in the end,
\* however the removals meet the running worker, unless the relay shuts down
\* (and, in an instance with MaxFaults > 0, unless a scan failed: the code
\* leaves that to the next removal or restart).
DeletedLeaves == \A e \in Event : e \in deleted ~> e \notin live \/ drain

\* "an event can never fall between the two (it is either replayed onto the
\* fresh store or applied to the swapped-in one)": apply_group_state.
NeverBetween ==
    Up => \A e \in (acked \cap stored) \ marker : e \in live \/ FailsClosed(e)
=============================================================================
