-------------------------- MODULE GroupState_proofs --------------------------
(***************************************************************************)
(* Theorems about GroupState, for every number of events, every grouping   *)
(* of them, every buffer size and any number of crashes and failed         *)
(* requests: no removed or refused event authorizes, the snapshot a        *)
(* restart would restore is true, and no acknowledged event is lost.       *)
(*                                                                         *)
(* Two hypotheses name what they leave out.  ~Preempted: no save starts in *)
(* the window between the clear of the pending flag and the re-check of    *)
(* the dirty flag, two adjacent stores without an await (a save of another *)
(* thread could).  ~DeleteEarly: an event is deleted only after its OK was *)
(* sent.  Both are constants of GroupState; the README says what a run     *)
(* finds without them.                                                     *)
(***************************************************************************)
EXTENDS GroupState, FiniteSetTheorems, TLAPS

-----------------------------------------------------------------------------
(* Types.                                                                  *)

FlagsOK ==
    /\ dirty \in BOOLEAN /\ saveDue \in BOOLEAN /\ running \in BOOLEAN
    /\ unsaved \in BOOLEAN /\ drain \in BOOLEAN /\ unrestored \in BOOLEAN

WorkOK ==
    /\ buffer \in [scanning : BOOLEAN, events : SUBSET Event, scope : SUBSET Group,
                   retry : BOOLEAN]
    /\ worker \in [step : {"none", "head", "open", "read", "filter", "swap", "current",
                           "clear", "recheck", "persist", "release", "released"},
                   at : Nat, page : SUBSET Event, fresh : SUBSET Event]

RestOK ==
    /\ stored \subseteq Event /\ marker \subseteq Event /\ seq \in Nat
    /\ snap \in [ev : SUBSET Event, seq : Nat] \cup {NoSnap}
    /\ live \subseteq Event /\ stale \subseteq Group
    /\ overlapped \subseteq Event
    /\ publish \in [Event -> {"idle", "marked", "stored", "applied", "rejected", "removed",
                              "repair", "clear", "done"}]
    /\ removal \in [Event -> {"idle", "marking", "done"}]
    /\ marking \in [Event -> {"none", "dirty", "pending", "buffer", "live", "persist",
                              "schedule"}]
    /\ saver \in {"none", "wait", "persist", "final", "closed"}
    /\ saving \in [by : Tasks \cup {NoTask}, step : {"none", "capture", "check", "reread", "save"},
                   seq : Nat, ev : SUBSET Event]
    /\ boot \in {"recover", "restore", "rebuild", "up"}
    /\ crashes \in 0..MaxCrashes /\ faults \in 0..MaxFaults
    /\ acked \cup refused \cup deleted \cup recovered \cup missed \cup misread \subseteq Event

-----------------------------------------------------------------------------
(* The inductive invariant.                                                *)

Scanning == worker.step \in {"read", "filter", "swap"}
Reading  == Scanning \/ worker.step = "open"
InScan   == worker.fresh \cup worker.page \cup buffer.events

\* The accept paths that have stored their event and still hold its claim.
Owed == {"stored", "applied", "rejected", "removed", "repair", "clear"}

\* The events a scan has to find.
Confirmed == {e \in stored : e \notin marker \/ publish[e] = "applied"}
Applied   == {e \in Event : publish[e] = "applied"}

\* The buffering window is open exactly while a scan runs, one task holds
\* persist_lock and stands where it asked for it.
ControlInv ==
    /\ buffer.scanning <=> Scanning
    /\ ~Scanning => (worker.fresh = {} /\ buffer.events = {} /\ ~buffer.retry)
    /\ worker.step # "filter" => worker.page = {}
    /\ worker.step = "swap" => worker.at \notin Event
    /\ Scanning => worker.at >= 1
    /\ ~running => worker.step \in {"none", "released"}
    /\ saving.by = NoTask => saving = NoSave
    /\ saving.step = "none" => saving.by = NoTask
    /\ saving.by = Rebuilder => worker.step = "persist"
    /\ saving.by \in Event => marking[saving.by] = "persist"
    /\ saving.by # NoTask => ~unrestored

\* While the process starts nothing of it runs, and after the recovery no
\* marker is left.
DownInv == ~Up =>
    /\ live = {} /\ ~unrestored /\ ~dirty /\ ~running
    /\ worker = NoWorker /\ buffer = NoBuffer /\ saving = NoSave
    /\ \A e \in Event : publish[e] \in {"idle", "done"} /\ marking[e] = "none"
    /\ boot # "recover" => marker = {}

\* Where an event is, from how far its accept path and its removal have come.
PathInv == \A e \in Event :
    /\ e \in deleted <=> removal[e] # "idle"
    /\ e \in deleted => e \in acked /\ e \notin stored
    /\ e \in acked => publish[e] = "done" /\ e \notin refused
    /\ publish[e] \in {"idle", "marked", "removed", "repair", "clear"} => e \notin stored
    /\ publish[e] \in {"stored", "applied", "rejected"} => e \in stored
    /\ publish[e] \in Owed \cup {"marked"} => e \in marker
    /\ publish[e] \in {"rejected", "removed", "repair", "clear"} => e \in refused
    /\ publish[e] \in {"idle", "marked", "stored", "applied"} => e \notin refused
    /\ e \in stored /\ e \notin marker => e \in acked
    /\ marking[e] # "none" => (removal[e] = "marking" \/ publish[e] = "repair")

\* A removed event that is in a scan is in the scope its swap will keep
\* closed, and something still due will take it out: the dirty flag or the
\* scan for the live store, the pending flag for the snapshot.
RemovalInv ==
    /\ \A e \in deleted \cap InScan :
         /\ marking[e] \in {"dirty", "pending", "buffer"} \/ GroupOf[e] \in buffer.scope
         /\ dirty \/ marking[e] = "dirty"
    /\ \A e \in deleted \cap live :
         \/ dirty \/ marking[e] = "dirty" \/ Reading
         \/ drain /\ worker.step \in {"none", "head", "release", "released"}
    /\ \A e \in deleted \cap (live \cup InScan) :
         \/ marking[e] \in {"dirty", "pending"} \/ saveDue
         \/ worker.step = "recheck" /\ dirty

\* The pending flag is up, or about to be, until a scan that saw every mark
\* has been swapped in.
MarkInv ==
    /\ dirty => (saveDue \/ worker.step = "recheck" \/ \E e \in Event : marking[e] = "pending")
    /\ (Reading \/ worker.step \in {"current", "clear"})
         => (saveDue \/ \E e \in Event : marking[e] = "pending")

\* Neither the snapshot on disk nor the one being written is current.
Superseded ==
    /\ snap = NoSnap \/ snap.seq < seq
    /\ saving.by = NoTask \/ saving.seq < seq

\* The generation has moved past every snapshot for as long as an accept
\* path, a removal or a scan may still change what the store is derived from.
GenerationInv ==
    /\ snap = NoSnap \/ snap.seq <= seq
    /\ saving.by = NoTask \/ saving.seq <= seq
    /\ \A e \in Event : (publish[e] \in Owed \/ marking[e] = "dirty") => Superseded
    /\ (dirty \/ Reading) => Superseded
    /\ \A e \in deleted \cap (live \cup InScan \cup saving.ev) :
         saving.by = NoTask \/ saving.seq < seq

\* What the live store holds, and what it may miss.
LiveInv ==
    /\ (Up /\ ~unrestored) => Confirmed \subseteq live \cup misread
    /\ live \subseteq acked \cup Applied \cup (refused \cap misread)
    /\ live \subseteq stored \cup deleted \cup misread \cup recovered

\* What the running scan holds, and what it may still miss when it ends.
ScanInv ==
    /\ (Scanning /\ ~buffer.retry)
         => \A e \in Confirmed : e \in missed \cup InScan \/ e >= worker.at
    /\ worker.page \subseteq stored \cup deleted \cup refused
    /\ worker.fresh \subseteq acked \cup (refused \cap missed)
    /\ worker.fresh \subseteq stored \cup deleted \cup missed
    /\ buffer.events \subseteq acked \cup Applied
    /\ buffer.events \subseteq stored \cup deleted

\* What a captured state and a snapshot hold when the generation they carry
\* is the one on disk.
SnapInv ==
    /\ (saving.step \in {"check", "reread", "save"} /\ saving.seq = seq) =>
         /\ saving.ev \subseteq acked \cup (refused \cap misread)
         /\ saving.ev \subseteq stored \cup misread \cup recovered
         /\ stored \ (marker \cup misread) \subseteq saving.ev
    /\ SnapshotIsCurrent => snap.ev \subseteq acked \cup (refused \cap misread)
    /\ SnapshotTrue

DerivedInv ==
    /\ FlagsOK /\ WorkOK /\ RestOK /\ ControlInv /\ DownInv /\ PathInv /\ RemovalInv /\ MarkInv
    /\ GenerationInv /\ LiveInv /\ ScanInv /\ SnapInv /\ DeletedFailsClosed

LEMMA TypeSplit == DerivedTypeOK <=> FlagsOK /\ WorkOK /\ RestOK
  BY DEF DerivedTypeOK, FlagsOK, WorkOK, RestOK

LEMMA ScopeType == \A e \in Event : Scope(e) \subseteq Group /\ GroupOf[e] \in Scope(e)
  BY GroupType DEF Scope

\* The events are numbered in the order a scan reads them.
LEMMA EventOrder ==
  /\ \A e \in Event : e \in Nat /\ e >= 1
  /\ \A n \in Nat : (n >= 1 /\ n \notin Event) => \A e \in Event : e < n
  <1>1. Cardinality(Event) \in Nat
    BY EventsInOrder, FS_CardinalityType
  <1>2. PICK k \in Nat : Event = 1..k
    BY <1>1, EventsInOrder
  <1> QED BY <1>2

USE DEF disk, store, flags, scan, paths, saveVars, process, history, WorkerFrame, NoFault,
        Fault, Up, At, Goto, MarkStep, NoBuffer, NoWorker, NoSave, Closed, Owed

-----------------------------------------------------------------------------
(* One lemma per action: the accept path, the removals and the marking     *)
(* they run, the rebuild worker, the saver, and the process.  The conjuncts *)
(* of the invariant are proved apart where they rest on different ones.    *)

\* accept_event: the marker of the pending event.
LEMMA KeepsMarkPending ==
  ASSUME DerivedInv, ~Preempted, ~DeleteEarly, NEW e \in Event, MarkPending(e)
  PROVE  DerivedInv'
  <1> USE DEF DerivedInv
  <1>1. FlagsOK' /\ WorkOK' /\ ControlInv' /\ RemovalInv' /\ MarkInv' /\ DeletedFailsClosed'
    BY DEF MarkPending, FlagsOK, WorkOK, ControlInv, RemovalInv, MarkInv, DeletedFailsClosed,
       Scanning, Reading, InScan, FailsClosed
  <1>2. RestOK'
    BY BoundsType DEF MarkPending, RestOK, WorkOK, FlagsOK
  <1>3. DownInv'
    BY DEF MarkPending, DownInv
  <1>4. PathInv'
    BY DEF MarkPending, PathInv
  <1>5. GenerationInv'
    BY DEF MarkPending, GenerationInv, Superseded, Reading, Scanning, InScan
  <1>6. LiveInv'
    BY DEF MarkPending, LiveInv, Confirmed, Applied
  <1>7. ScanInv'
    BY DEF MarkPending, ScanInv, Scanning, InScan, Confirmed, Applied
  <1>8. SnapInv'
    BY DEF MarkPending, SnapInv, SnapshotIsCurrent, SnapshotTrue
  <1> QED BY <1>1, <1>2, <1>3, <1>4, <1>5, <1>6, <1>7, <1>8

\* The event is stored and the generation moves in one commit.
LEMMA KeepsPut ==
  ASSUME DerivedInv, ~Preempted, ~DeleteEarly, NEW e \in Event, Put(e)
  PROVE  DerivedInv'
  <1> USE DEF DerivedInv
  <1>1. FlagsOK' /\ WorkOK' /\ ControlInv' /\ RemovalInv' /\ MarkInv' /\ DeletedFailsClosed'
    BY DEF Put, FlagsOK, WorkOK, ControlInv, RemovalInv, MarkInv, DeletedFailsClosed, Scanning,
       Reading, InScan, FailsClosed
  <1>2. RestOK'
    BY BoundsType DEF Put, RestOK, WorkOK, FlagsOK
  <1>3. DownInv'
    BY DEF Put, DownInv
  <1>4. PathInv'
    BY DEF Put, RestOK, PathInv
  <1>5. GenerationInv'
    BY DEF Put, RestOK, GenerationInv, Superseded, Reading, Scanning, InScan
  <1>6. LiveInv'
    BY DEF Put, LiveInv, PathInv, Confirmed, Applied
  <1>7. ScanInv'
    BY DEF Put, ScanInv, PathInv, Scanning, InScan, Confirmed, Applied
  <1>8. SnapInv'
    BY DEF Put, RestOK, SnapInv, ControlInv, GenerationInv, SnapshotIsCurrent, SnapshotTrue,
       Scanning, Superseded, Reading, InScan
  <1> QED BY <1>1, <1>2, <1>3, <1>4, <1>5, <1>6, <1>7, <1>8

\* An event the store refuses, or cannot take, is never derived from.
LEMMA KeepsPutRefused ==
  ASSUME DerivedInv, ~Preempted, ~DeleteEarly, NEW e \in Event, PutRefused(e)
  PROVE  DerivedInv'
  <1> USE DEF DerivedInv
  <1>1. FlagsOK' /\ WorkOK' /\ ControlInv' /\ RemovalInv' /\ MarkInv' /\ DeletedFailsClosed'
    BY DEF PutRefused, FlagsOK, WorkOK, ControlInv, RemovalInv, MarkInv, DeletedFailsClosed,
       Scanning, Reading, InScan, FailsClosed
  <1>2. RestOK'
    BY BoundsType DEF PutRefused, RestOK, WorkOK, FlagsOK
  <1>3. DownInv'
    BY DEF PutRefused, DownInv
  <1>4. PathInv'
    BY DEF PutRefused, RestOK, PathInv
  <1>5. GenerationInv'
    BY DEF PutRefused, GenerationInv, Superseded, Reading, Scanning, InScan
  <1>6. LiveInv'
    BY DEF PutRefused, LiveInv, PathInv, Confirmed, Applied
  <1>7. ScanInv'
    BY DEF PutRefused, ScanInv, PathInv, Scanning, InScan, Confirmed, Applied
  <1>8. SnapInv'
    BY DEF PutRefused, SnapInv, PathInv, SnapshotIsCurrent, SnapshotTrue
  <1> QED BY <1>1, <1>2, <1>3, <1>4, <1>5, <1>6, <1>7, <1>8

\* The live store takes the event, and the buffer of a running scan with it.
LEMMA KeepsApply ==
  ASSUME DerivedInv, ~Preempted, ~DeleteEarly, NEW e \in Event, Apply(e)
  PROVE  DerivedInv'
  <1> USE DEF DerivedInv
  <1>1. MarkInv' /\ SnapInv'
    BY DEF Apply, ScheduleSave, Capture, MarkInv, SnapInv, Reading, Scanning, SnapshotIsCurrent,
       SnapshotTrue
  <1>2. FlagsOK'
    BY Zenon DEF Apply, ScheduleSave, Capture, FlagsOK
  <1>3. WorkOK'
    BY DEF Apply, ScheduleSave, Capture, WorkOK, RestOK
  <1>4. RestOK'
    BY BoundsType DEF Apply, ScheduleSave, Capture, RestOK, WorkOK, FlagsOK
  <1>5. ControlInv'
    BY DEF Apply, ScheduleSave, Capture, ControlInv, Scanning
  <1>6. DownInv'
    BY DEF Apply, ScheduleSave, Capture, DownInv
  <1>7. PathInv'
    BY DEF Apply, ScheduleSave, Capture, PathInv
  <1>8. RemovalInv'
    BY DEF Apply, ScheduleSave, Capture, RemovalInv, PathInv, Reading, Scanning, InScan
  <1>9. GenerationInv'
    BY DEF Apply, ScheduleSave, Capture, GenerationInv, Superseded, Reading, Scanning, InScan
  <1>10. LiveInv'
    BY DEF Apply, ScheduleSave, Capture, RestOK, LiveInv, PathInv, Confirmed, Applied
  <1>11. ScanInv'
    BY DEF Apply, ScheduleSave, Capture, RestOK, ScanInv, ControlInv, PathInv, Scanning, InScan,
       Confirmed, Applied
  <1>12. DeletedFailsClosed'
    BY DEF Apply, ScheduleSave, Capture, DeletedFailsClosed, PathInv, FailsClosed
  <1> QED BY <1>1, <1>2, <1>3, <1>4, <1>5, <1>6, <1>7, <1>8, <1>9, <1>10, <1>11, <1>12

\* The marker goes once the event is applied, and the caller is answered.
LEMMA KeepsClearApplied ==
  ASSUME DerivedInv, ~Preempted, ~DeleteEarly, NEW e \in Event, ClearApplied(e)
  PROVE  DerivedInv'
  <1> USE DEF DerivedInv
  <1>1. FlagsOK' /\ WorkOK' /\ ControlInv' /\ RemovalInv' /\ MarkInv' /\ DeletedFailsClosed'
    BY DEF ClearApplied, FlagsOK, WorkOK, ControlInv, RemovalInv, MarkInv, DeletedFailsClosed,
       Scanning, Reading, InScan, FailsClosed
  <1>2. RestOK'
    BY BoundsType DEF ClearApplied, RestOK, WorkOK, FlagsOK
  <1>3. DownInv'
    BY DEF ClearApplied, DownInv
  <1>4. PathInv'
    BY DEF ClearApplied, RestOK, PathInv
  <1>5. GenerationInv'
    BY DEF ClearApplied, GenerationInv, Superseded, Reading, Scanning, InScan
  <1>6. LiveInv'
    BY DEF ClearApplied, LiveInv, Confirmed, Applied
  <1>7. ScanInv'
    BY DEF ClearApplied, ScanInv, Scanning, InScan, Confirmed, Applied
  <1>8. SnapInv'
    BY DEF ClearApplied, RestOK, SnapInv, ControlInv, GenerationInv, SnapshotIsCurrent,
       SnapshotTrue, Scanning, Superseded, Reading, InScan
  <1> QED BY <1>1, <1>2, <1>3, <1>4, <1>5, <1>6, <1>7, <1>8

\* An event refused at apply time discards the scan that may have read it.
LEMMA KeepsReject ==
  ASSUME DerivedInv, ~Preempted, ~DeleteEarly, NEW e \in Event, Reject(e)
  PROVE  DerivedInv'
  <1> USE DEF DerivedInv
  <1>1. MarkInv' /\ DeletedFailsClosed'
    BY DEF Reject, ScheduleSave, MarkInv, DeletedFailsClosed, Reading, Scanning, FailsClosed
  <1>2. FlagsOK'
    BY Zenon DEF Reject, ScheduleSave, FlagsOK
  <1>3. WorkOK'
    BY DEF Reject, ScheduleSave, WorkOK, RestOK
  <1>4. RestOK'
    BY BoundsType DEF Reject, ScheduleSave, RestOK, WorkOK, FlagsOK
  <1>5. ControlInv'
    BY DEF Reject, ScheduleSave, WorkOK, ControlInv, Scanning
  <1>6. DownInv'
    BY DEF Reject, ScheduleSave, DownInv
  <1>7. PathInv'
    BY DEF Reject, ScheduleSave, RestOK, PathInv
  <1>8. RemovalInv'
    BY DEF Reject, ScheduleSave, RemovalInv, Reading, Scanning, InScan
  <1>9. GenerationInv'
    BY DEF Reject, ScheduleSave, GenerationInv, Superseded, Reading, Scanning, InScan
  <1>10. LiveInv'
    BY DEF Reject, ScheduleSave, LiveInv, Confirmed, Applied
  <1>11. ScanInv'
    BY DEF Reject, ScheduleSave, WorkOK, ScanInv, Scanning, InScan, Confirmed, Applied
  <1>12. SnapInv'
    BY DEF Reject, ScheduleSave, SnapInv, SnapshotIsCurrent, SnapshotTrue
  <1> QED BY <1>1, <1>2, <1>3, <1>4, <1>5, <1>6, <1>7, <1>8, <1>9, <1>10, <1>11, <1>12

\* The stored event goes.
LEMMA KeepsRemoveRejected ==
  ASSUME DerivedInv, ~Preempted, ~DeleteEarly, NEW e \in Event, RemoveRejected(e)
  PROVE  DerivedInv'
  <1> USE DEF DerivedInv
  <1>1. FlagsOK' /\ WorkOK' /\ ControlInv' /\ RemovalInv' /\ MarkInv' /\ DeletedFailsClosed'
    BY DEF RemoveRejected, FlagsOK, WorkOK, ControlInv, RemovalInv, MarkInv, DeletedFailsClosed,
       Scanning, Reading, InScan, FailsClosed
  <1>2. RestOK'
    BY BoundsType DEF RemoveRejected, RestOK, WorkOK, FlagsOK
  <1>3. DownInv'
    BY DEF RemoveRejected, DownInv
  <1>4. PathInv'
    BY DEF RemoveRejected, RestOK, PathInv
  <1>5. GenerationInv'
    BY DEF RemoveRejected, GenerationInv, Superseded, Reading, Scanning, InScan
  <1>6. LiveInv'
    BY DEF RemoveRejected, RestOK, LiveInv, PathInv, Confirmed, Applied
  <1>7. ScanInv'
    BY DEF RemoveRejected, RestOK, ScanInv, PathInv, Scanning, InScan, Confirmed, Applied
  <1>8. SnapInv'
    BY DEF RemoveRejected, SnapInv, PathInv, SnapshotIsCurrent, SnapshotTrue
  <1> QED BY <1>1, <1>2, <1>3, <1>4, <1>5, <1>6, <1>7, <1>8

\* The scope of a refused event is marked for a rebuild if a scan may have read it.
LEMMA KeepsRepairRejectedScan ==
  ASSUME DerivedInv, ~Preempted, ~DeleteEarly, NEW e \in Event, RepairRejectedScan(e)
  PROVE  DerivedInv'
  <1> USE DEF DerivedInv
  <1>1. FlagsOK' /\ WorkOK' /\ SnapInv'
    BY DEF RepairRejectedScan, FlagsOK, WorkOK, SnapInv, SnapshotIsCurrent, SnapshotTrue
  <1>2. RestOK'
    BY BoundsType DEF RepairRejectedScan, RestOK, WorkOK, FlagsOK
  <1>3. ControlInv'
    BY DEF RepairRejectedScan, RestOK, ControlInv, PathInv, Scanning
  <1>4. DownInv'
    BY DEF RepairRejectedScan, DownInv
  <1>5. PathInv'
    BY DEF RepairRejectedScan, RestOK, PathInv
  <1>6. RemovalInv'
    BY DEF RepairRejectedScan, RestOK, RemovalInv, Reading, Scanning, InScan
  <1>7. MarkInv'
    BY DEF RepairRejectedScan, RestOK, MarkInv, PathInv, Reading, Scanning
  <1>8. GenerationInv'
    BY DEF RepairRejectedScan, GenerationInv, Superseded, Reading, Scanning, InScan
  <1>9. LiveInv'
    BY DEF RepairRejectedScan, RestOK, LiveInv, Confirmed, Applied
  <1>10. ScanInv'
    BY DEF RepairRejectedScan, RestOK, ScanInv, Scanning, InScan, Confirmed, Applied
  <1>11. DeletedFailsClosed'
    BY DEF RepairRejectedScan, RestOK, DeletedFailsClosed, FailsClosed
  <1> QED BY <1>1, <1>2, <1>3, <1>4, <1>5, <1>6, <1>7, <1>8, <1>9, <1>10, <1>11

\* The marker of a refused event goes last.
LEMMA KeepsClearRejected ==
  ASSUME DerivedInv, ~Preempted, ~DeleteEarly, NEW e \in Event, ClearRejected(e)
  PROVE  DerivedInv'
  <1> USE DEF DerivedInv
  <1>1. FlagsOK' /\ WorkOK' /\ ControlInv' /\ RemovalInv' /\ MarkInv' /\ DeletedFailsClosed'
    BY DEF ClearRejected, FlagsOK, WorkOK, ControlInv, RemovalInv, MarkInv, DeletedFailsClosed,
       Scanning, Reading, InScan, FailsClosed
  <1>2. RestOK'
    BY BoundsType DEF ClearRejected, RestOK, WorkOK, FlagsOK
  <1>3. DownInv'
    BY DEF ClearRejected, DownInv
  <1>4. PathInv'
    BY DEF ClearRejected, RestOK, PathInv
  <1>5. GenerationInv'
    BY DEF ClearRejected, GenerationInv, Superseded, Reading, Scanning, InScan
  <1>6. LiveInv'
    BY DEF ClearRejected, LiveInv, PathInv, Confirmed, Applied
  <1>7. ScanInv'
    BY DEF ClearRejected, ScanInv, PathInv, Scanning, InScan, Confirmed, Applied
  <1>8. SnapInv'
    BY DEF ClearRejected, SnapInv, PathInv, SnapshotIsCurrent, SnapshotTrue
  <1> QED BY <1>1, <1>2, <1>3, <1>4, <1>5, <1>6, <1>7, <1>8

\* A removal takes the event from the store and begins to mark its scope.
LEMMA KeepsRemoveEvent ==
  ASSUME DerivedInv, ~Preempted, ~DeleteEarly, NEW e \in Event, RemoveEvent(e)
  PROVE  DerivedInv'
  <1> USE DEF DerivedInv
  <1>1. FlagsOK' /\ WorkOK'
    BY DEF RemoveEvent, FlagsOK, WorkOK
  <1>2. RestOK'
    BY BoundsType DEF RemoveEvent, RestOK, WorkOK, FlagsOK
  <1>3. ControlInv'
    BY DEF RemoveEvent, ControlInv, PathInv, Scanning
  <1>4. DownInv'
    BY DEF RemoveEvent, DownInv
  <1>5. PathInv'
    BY DEF RemoveEvent, RestOK, PathInv
  <1>6. RemovalInv'
    BY DEF RemoveEvent, RestOK, RemovalInv, Reading, Scanning, InScan
  <1>7. MarkInv'
    BY DEF RemoveEvent, MarkInv, PathInv, Reading, Scanning
  <1>8. GenerationInv'
    BY DEF RemoveEvent, RestOK, GenerationInv, Superseded, Reading, Scanning, InScan
  <1>9. LiveInv'
    BY DEF RemoveEvent, LiveInv, Confirmed, Applied
  <1>10. ScanInv'
    BY DEF RemoveEvent, ScanInv, Scanning, InScan, Confirmed, Applied
  <1>11. SnapInv'
    BY DEF RemoveEvent, RestOK, SnapInv, ControlInv, GenerationInv, SnapshotIsCurrent, SnapshotTrue,
       Scanning, Superseded, Reading, InScan
  <1>12. DeletedFailsClosed'
    BY DEF RemoveEvent, RestOK, DeletedFailsClosed, FailsClosed
  <1> QED BY <1>1, <1>2, <1>3, <1>4, <1>5, <1>6, <1>7, <1>8, <1>9, <1>10, <1>11, <1>12

\* A removal whose scope is marked.
LEMMA KeepsRemoveDone ==
  ASSUME DerivedInv, ~Preempted, ~DeleteEarly, NEW e \in Event, RemoveDone(e)
  PROVE  DerivedInv'
  <1> USE DEF DerivedInv
  <1>1. /\ FlagsOK' /\ WorkOK' /\ ControlInv' /\ DownInv' /\ RemovalInv' /\ MarkInv'
        /\ GenerationInv' /\ LiveInv' /\ ScanInv' /\ SnapInv' /\ DeletedFailsClosed'
    BY DEF RemoveDone, FlagsOK, WorkOK, ControlInv, DownInv, RemovalInv, MarkInv, GenerationInv,
       LiveInv, ScanInv, SnapInv, DeletedFailsClosed, Scanning, Reading, InScan, Superseded,
       Confirmed, Applied, SnapshotIsCurrent, SnapshotTrue, FailsClosed
  <1>2. RestOK'
    BY BoundsType DEF RemoveDone, RestOK, WorkOK, FlagsOK
  <1>3. PathInv'
    BY DEF RemoveDone, PathInv
  <1> QED BY <1>1, <1>2, <1>3

\* mark_group_state_stale_scope: the dirty flag goes up first.
LEMMA KeepsMarkDirty ==
  ASSUME DerivedInv, ~Preempted, ~DeleteEarly, NEW e \in Event, MarkDirty(e)
  PROVE  DerivedInv'
  <1> USE DEF DerivedInv
  <1>1. WorkOK' /\ LiveInv' /\ ScanInv' /\ SnapInv'
    BY DEF MarkDirty, WorkOK, LiveInv, ScanInv, SnapInv, Confirmed, Applied, Scanning, InScan,
       SnapshotIsCurrent, SnapshotTrue
  <1>2. FlagsOK'
    BY Zenon DEF MarkDirty, FlagsOK
  <1>3. RestOK'
    BY BoundsType DEF MarkDirty, RestOK, WorkOK, FlagsOK
  <1>4. ControlInv'
    BY DEF MarkDirty, ControlInv, Scanning
  <1>5. DownInv'
    BY DEF MarkDirty, DownInv
  <1>6. PathInv'
    BY DEF MarkDirty, PathInv
  <1>7. RemovalInv'
    BY DEF MarkDirty, RemovalInv, Reading, Scanning, InScan
  <1>8. MarkInv'
    BY DEF MarkDirty, RestOK, MarkInv, Reading, Scanning
  <1>9. GenerationInv'
    BY DEF MarkDirty, GenerationInv, Superseded, Reading, Scanning, InScan
  <1>10. DeletedFailsClosed'
    BY DEF MarkDirty, DeletedFailsClosed, FailsClosed
  <1> QED BY <1>1, <1>2, <1>3, <1>4, <1>5, <1>6, <1>7, <1>8, <1>9, <1>10

\* Then the pending flag goes up: no save before a rebuild.
LEMMA KeepsSetPending ==
  ASSUME DerivedInv, ~Preempted, ~DeleteEarly, NEW e \in Event, SetPending(e)
  PROVE  DerivedInv'
  <1> USE DEF DerivedInv
  <1>1. WorkOK' /\ LiveInv' /\ ScanInv' /\ SnapInv'
    BY DEF SetPending, WorkOK, LiveInv, ScanInv, SnapInv, Confirmed, Applied, Scanning, InScan,
       SnapshotIsCurrent, SnapshotTrue
  <1>2. FlagsOK'
    BY Zenon DEF SetPending, FlagsOK
  <1>3. RestOK'
    BY BoundsType DEF SetPending, RestOK, WorkOK, FlagsOK
  <1>4. ControlInv'
    BY DEF SetPending, ControlInv, Scanning
  <1>5. DownInv'
    BY DEF SetPending, DownInv
  <1>6. PathInv'
    BY DEF SetPending, PathInv
  <1>7. RemovalInv'
    BY DEF SetPending, RemovalInv, Reading, Scanning, InScan
  <1>8. MarkInv'
    BY DEF SetPending, MarkInv, Reading, Scanning
  <1>9. GenerationInv'
    BY DEF SetPending, GenerationInv, Superseded, Reading, Scanning, InScan
  <1>10. DeletedFailsClosed'
    BY DEF SetPending, DeletedFailsClosed, FailsClosed
  <1> QED BY <1>1, <1>2, <1>3, <1>4, <1>5, <1>6, <1>7, <1>8, <1>9, <1>10

\* Then the scope enters the buffer, for the swap to keep closed.
LEMMA KeepsMarkBuffer ==
  ASSUME DerivedInv, ~Preempted, ~DeleteEarly, NEW e \in Event, MarkBuffer(e)
  PROVE  DerivedInv'
  <1> USE ScopeType DEF DerivedInv
  <1>1. FlagsOK' /\ LiveInv' /\ SnapInv'
    BY DEF MarkBuffer, FlagsOK, LiveInv, SnapInv, Confirmed, Applied, SnapshotIsCurrent,
       SnapshotTrue
  <1>2. WorkOK'
    BY DEF MarkBuffer, WorkOK, RestOK
  <1>3. RestOK'
    BY BoundsType DEF MarkBuffer, RestOK, WorkOK, FlagsOK
  <1>4. ControlInv'
    BY DEF MarkBuffer, ControlInv, Scanning
  <1>5. DownInv'
    BY DEF MarkBuffer, DownInv
  <1>6. PathInv'
    BY DEF MarkBuffer, PathInv
  <1>7. RemovalInv'
    BY DEF MarkBuffer, RemovalInv, Reading, Scanning, InScan
  <1>8. MarkInv'
    BY DEF MarkBuffer, MarkInv, Reading, Scanning
  <1>9. GenerationInv'
    BY DEF MarkBuffer, GenerationInv, Superseded, Reading, Scanning, InScan
  <1>10. ScanInv'
    BY DEF MarkBuffer, ScanInv, Scanning, InScan, Confirmed, Applied
  <1>11. DeletedFailsClosed'
    BY DEF MarkBuffer, DeletedFailsClosed, FailsClosed
  <1> QED BY <1>1, <1>2, <1>3, <1>4, <1>5, <1>6, <1>7, <1>8, <1>9, <1>10, <1>11

\* Then the group of the live store fails closed.
LEMMA KeepsMarkLive ==
  ASSUME DerivedInv, ~Preempted, ~DeleteEarly, NEW e \in Event, MarkLive(e)
  PROVE  DerivedInv'
  <1> USE ScopeType DEF DerivedInv
  <1>1. FlagsOK' /\ WorkOK' /\ LiveInv' /\ ScanInv' /\ SnapInv'
    BY DEF MarkLive, FlagsOK, WorkOK, LiveInv, ScanInv, SnapInv, Confirmed, Applied, Scanning,
       InScan, SnapshotIsCurrent, SnapshotTrue
  <1>2. RestOK'
    BY BoundsType DEF MarkLive, RestOK, WorkOK, FlagsOK
  <1>3. ControlInv'
    BY DEF MarkLive, ControlInv, Scanning
  <1>4. DownInv'
    BY DEF MarkLive, DownInv
  <1>5. PathInv'
    BY DEF MarkLive, PathInv
  <1>6. RemovalInv'
    BY DEF MarkLive, RemovalInv, Reading, Scanning, InScan
  <1>7. MarkInv'
    BY DEF MarkLive, MarkInv, Reading, Scanning
  <1>8. GenerationInv'
    BY DEF MarkLive, GenerationInv, Superseded, Reading, Scanning, InScan
  <1>9. DeletedFailsClosed'
    BY DEF MarkLive, DeletedFailsClosed, FailsClosed
  <1> QED BY <1>1, <1>2, <1>3, <1>4, <1>5, <1>6, <1>7, <1>8, <1>9

\* Then a rebuild is scheduled if none runs.
LEMMA KeepsMarkSchedule ==
  ASSUME DerivedInv, ~Preempted, ~DeleteEarly, NEW e \in Event, MarkSchedule(e)
  PROVE  DerivedInv'
  <1> USE DEF DerivedInv
  <1>1. LiveInv' /\ SnapInv'
    BY DEF MarkSchedule, ScheduleRebuild, LiveInv, SnapInv, Confirmed, Applied, SnapshotIsCurrent,
       SnapshotTrue
  <1>2. FlagsOK'
    BY Zenon DEF MarkSchedule, ScheduleRebuild, FlagsOK
  <1>3. WorkOK'
    BY DEF MarkSchedule, ScheduleRebuild, WorkOK, RestOK
  <1>4. RestOK'
    BY BoundsType DEF MarkSchedule, ScheduleRebuild, RestOK, WorkOK, FlagsOK
  <1>5. ControlInv'
    BY DEF MarkSchedule, ScheduleRebuild, ControlInv, Scanning
  <1>6. DownInv'
    BY DEF MarkSchedule, ScheduleRebuild, DownInv
  <1>7. PathInv'
    BY DEF MarkSchedule, ScheduleRebuild, PathInv
  <1>8. RemovalInv'
    BY DEF MarkSchedule, ScheduleRebuild, RemovalInv, ControlInv, Reading, Scanning, InScan
  <1>9. MarkInv'
    BY DEF MarkSchedule, ScheduleRebuild, MarkInv, ControlInv, Reading, Scanning
  <1>10. GenerationInv'
    BY DEF MarkSchedule, ScheduleRebuild, GenerationInv, Superseded, Reading, Scanning, InScan
  <1>11. ScanInv'
    BY DEF MarkSchedule, ScheduleRebuild, ScanInv, Scanning, InScan, Confirmed, Applied
  <1>12. DeletedFailsClosed'
    BY DEF MarkSchedule, ScheduleRebuild, DeletedFailsClosed, FailsClosed
  <1> QED BY <1>1, <1>2, <1>3, <1>4, <1>5, <1>6, <1>7, <1>8, <1>9, <1>10, <1>11, <1>12

\* The worker takes the dirty flag, or stops.
LEMMA KeepsRebuildHead ==
  ASSUME DerivedInv, ~Preempted, ~DeleteEarly, RebuildHead
  PROVE  DerivedInv'
  <1> USE DEF DerivedInv
  <1>1. RestOK' /\ PathInv' /\ LiveInv' /\ SnapInv' /\ DeletedFailsClosed'
    BY DEF RebuildHead, RestOK, PathInv, LiveInv, SnapInv, DeletedFailsClosed, Confirmed, Applied,
       SnapshotIsCurrent, SnapshotTrue, FailsClosed
  <1>2. FlagsOK'
    BY Zenon DEF RebuildHead, FlagsOK
  <1>3. WorkOK'
    BY DEF RebuildHead, WorkOK, RestOK
  <1>4. ControlInv'
    BY DEF RebuildHead, WorkOK, ControlInv, Scanning
  <1>5. DownInv'
    BY DEF RebuildHead, DownInv
  <1>6. RemovalInv'
    BY DEF RebuildHead, WorkOK, RemovalInv, ControlInv, Reading, Scanning, InScan
  <1>7. MarkInv'
    BY DEF RebuildHead, WorkOK, MarkInv, Reading, Scanning
  <1>8. GenerationInv'
    BY DEF RebuildHead, WorkOK, GenerationInv, Superseded, Reading, Scanning, InScan
  <1>9. ScanInv'
    BY DEF RebuildHead, WorkOK, ScanInv, Scanning, InScan, Confirmed, Applied
  <1> QED BY <1>1, <1>2, <1>3, <1>4, <1>5, <1>6, <1>7, <1>8, <1>9

\* The worker opens the buffering window.
LEMMA KeepsRebuildOpen ==
  ASSUME DerivedInv, ~Preempted, ~DeleteEarly, RebuildOpen
  PROVE  DerivedInv'
  <1> USE DEF DerivedInv
  <1>1. FlagsOK' /\ PathInv' /\ LiveInv' /\ SnapInv' /\ DeletedFailsClosed'
    BY DEF RebuildOpen, FlagsOK, PathInv, LiveInv, SnapInv, DeletedFailsClosed, Confirmed, Applied,
       SnapshotIsCurrent, SnapshotTrue, FailsClosed
  <1>2. WorkOK'
    BY DEF RebuildOpen, WorkOK, RestOK
  <1>3. RestOK'
    BY BoundsType DEF RebuildOpen, RestOK, WorkOK, FlagsOK
  <1>4. ControlInv'
    BY DEF RebuildOpen, ControlInv, Scanning
  <1>5. DownInv'
    BY DEF RebuildOpen, DownInv
  <1>6. RemovalInv'
    BY DEF RebuildOpen, RemovalInv, Reading, Scanning, InScan
  <1>7. MarkInv'
    BY DEF RebuildOpen, MarkInv, Reading, Scanning
  <1>8. GenerationInv'
    BY DEF RebuildOpen, GenerationInv, Superseded, Reading, Scanning, InScan
  <1>9. ScanInv'
    BY EventOrder DEF RebuildOpen, RestOK, ScanInv, Scanning, InScan, Confirmed, Applied
  <1> QED BY <1>1, <1>2, <1>3, <1>4, <1>5, <1>6, <1>7, <1>8, <1>9

\* A page of the scan.
LEMMA KeepsScanRead ==
  ASSUME DerivedInv, ~Preempted, ~DeleteEarly, ScanRead
  PROVE  DerivedInv'
  <1> USE DEF DerivedInv
  <1>0. PICK last \in worker.at..Cardinality(Event) :
            worker' = [worker EXCEPT !.step = "filter", !.at = last + 1,
                                     !.page = (worker.at..last) \cap stored]
    BY DEF ScanRead
  <1> USE <1>0
  <1>1. FlagsOK' /\ RestOK' /\ PathInv' /\ LiveInv' /\ SnapInv' /\ DeletedFailsClosed'
    BY DEF ScanRead, FlagsOK, RestOK, PathInv, LiveInv, SnapInv, DeletedFailsClosed, Confirmed,
       Applied, SnapshotIsCurrent, SnapshotTrue, FailsClosed
  <1>2. WorkOK'
    <2>1. worker.at \in Nat
      BY DEF WorkOK
    <2>2. last + 1 \in Nat /\ (worker.at..last) \cap stored \subseteq Event
      BY <2>1 DEF RestOK
    <2> QED BY <2>2 DEF ScanRead, WorkOK
  <1>3. ControlInv'
    BY DEF ScanRead, WorkOK, ControlInv, Scanning
  <1>4. DownInv'
    BY DEF ScanRead, DownInv
  <1>5. RemovalInv'
    BY DEF ScanRead, RestOK, RemovalInv, PathInv, Reading, Scanning, InScan
  <1>6. MarkInv'
    BY DEF ScanRead, MarkInv, Reading, Scanning
  <1>7. GenerationInv'
    BY DEF ScanRead, GenerationInv, Superseded, Reading, Scanning, InScan
  <1>8. ScanInv'
    BY EventOrder DEF ScanRead, RestOK, ScanInv, ControlInv, Scanning, InScan, Confirmed, Applied
  <1> QED BY <1>1, <1>2, <1>3, <1>4, <1>5, <1>6, <1>7, <1>8

\* The events of a page whose marker is still there are left out.
LEMMA KeepsScanFilter ==
  ASSUME DerivedInv, ~Preempted, ~DeleteEarly, ScanFilter
  PROVE  DerivedInv'
  <1> USE DEF DerivedInv
  <1>1. FlagsOK' /\ PathInv' /\ LiveInv' /\ SnapInv' /\ DeletedFailsClosed'
    BY DEF ScanFilter, Kept, Misjudged, FlagsOK, PathInv, LiveInv, SnapInv, DeletedFailsClosed,
       Confirmed, Applied, SnapshotIsCurrent, SnapshotTrue, FailsClosed
  <1>2. WorkOK'
    BY DEF ScanFilter, Kept, Misjudged, WorkOK, RestOK
  <1>3. RestOK'
    BY BoundsType DEF ScanFilter, Kept, Misjudged, RestOK, WorkOK, FlagsOK
  <1>4. ControlInv'
    BY DEF ScanFilter, Kept, Misjudged, ControlInv, Scanning
  <1>5. DownInv'
    BY DEF ScanFilter, Kept, Misjudged, DownInv
  <1>6. RemovalInv'
    BY DEF ScanFilter, Kept, Misjudged, RemovalInv, Reading, Scanning, InScan
  <1>7. MarkInv'
    BY DEF ScanFilter, Kept, Misjudged, MarkInv, Reading, Scanning
  <1>8. GenerationInv'
    BY DEF ScanFilter, Kept, Misjudged, GenerationInv, Superseded, Reading, Scanning, InScan
  <1>9. ScanInv'
    BY DEF ScanFilter, Kept, Misjudged, RestOK, ScanInv, PathInv, Scanning, InScan, Confirmed,
       Applied
  <1> QED BY <1>1, <1>2, <1>3, <1>4, <1>5, <1>6, <1>7, <1>8, <1>9

\* A page that cannot be read ends the scan and leaves the work due.
LEMMA KeepsScanFails ==
  ASSUME DerivedInv, ~Preempted, ~DeleteEarly, ScanFails
  PROVE  DerivedInv'
  <1> USE DEF DerivedInv
  <1>1. PathInv' /\ LiveInv' /\ SnapInv' /\ DeletedFailsClosed'
    BY DEF ScanFails, PathInv, LiveInv, SnapInv, DeletedFailsClosed, Confirmed, Applied,
       SnapshotIsCurrent, SnapshotTrue, FailsClosed
  <1>2. FlagsOK'
    BY Zenon DEF ScanFails, FlagsOK
  <1>3. WorkOK'
    BY DEF ScanFails, WorkOK, RestOK
  <1>4. RestOK'
    BY BoundsType DEF ScanFails, RestOK, WorkOK, FlagsOK
  <1>5. ControlInv'
    BY DEF ScanFails, ControlInv, Scanning
  <1>6. DownInv'
    BY DEF ScanFails, DownInv
  <1>7. RemovalInv'
    BY DEF ScanFails, RemovalInv, Reading, Scanning, InScan
  <1>8. MarkInv'
    BY DEF ScanFails, MarkInv, Reading, Scanning
  <1>9. GenerationInv'
    BY DEF ScanFails, GenerationInv, Superseded, Reading, Scanning, InScan
  <1>10. ScanInv'
    BY DEF ScanFails, ScanInv, Scanning, InScan, Confirmed, Applied
  <1> QED BY <1>1, <1>2, <1>3, <1>4, <1>5, <1>6, <1>7, <1>8, <1>9, <1>10

\* The drain ends a scan.
LEMMA KeepsScanAborted ==
  ASSUME DerivedInv, ~Preempted, ~DeleteEarly, ScanAborted
  PROVE  DerivedInv'
  <1> USE DEF DerivedInv
  <1>1. RestOK' /\ PathInv' /\ LiveInv' /\ SnapInv' /\ DeletedFailsClosed'
    BY DEF ScanAborted, RestOK, PathInv, LiveInv, SnapInv, DeletedFailsClosed, Confirmed, Applied,
       SnapshotIsCurrent, SnapshotTrue, FailsClosed
  <1>2. FlagsOK'
    BY Zenon DEF ScanAborted, FlagsOK
  <1>3. WorkOK'
    BY DEF ScanAborted, WorkOK, RestOK
  <1>4. ControlInv'
    BY DEF ScanAborted, ControlInv, Scanning
  <1>5. DownInv'
    BY DEF ScanAborted, DownInv
  <1>6. RemovalInv'
    BY DEF ScanAborted, RemovalInv, Reading, Scanning, InScan
  <1>7. MarkInv'
    BY DEF ScanAborted, MarkInv, Reading, Scanning
  <1>8. GenerationInv'
    BY DEF ScanAborted, GenerationInv, Superseded, Reading, Scanning, InScan
  <1>9. ScanInv'
    BY DEF ScanAborted, ScanInv, Scanning, InScan, Confirmed, Applied
  <1> QED BY <1>1, <1>2, <1>3, <1>4, <1>5, <1>6, <1>7, <1>8, <1>9

\* The rebuilt state replaces the live one, but for the scope a removal buffered.
LEMMA KeepsSwap ==
  ASSUME DerivedInv, ~Preempted, ~DeleteEarly, Swap
  PROVE  DerivedInv'
  <1> USE DEF DerivedInv
  <1>1. PathInv'
    BY DEF Swap, PathInv
  <1>2. FlagsOK'
    BY Zenon DEF Swap, FlagsOK
  <1>3. WorkOK'
    <2>1. buffer' \in [scanning : BOOLEAN, events : SUBSET Event, scope : SUBSET Group,
                       retry : BOOLEAN]
      BY DEF Swap, WorkOK
    <2>2. \/ worker' = [NoWorker EXCEPT !.step = "head"]
          \/ worker' = [NoWorker EXCEPT !.step = "current"]
      BY DEF Swap
    <2> QED BY <2>1, <2>2 DEF WorkOK
  <1>4. RestOK'
    BY BoundsType DEF Swap, RestOK, WorkOK, FlagsOK
  <1>5. ControlInv'
    BY DEF Swap, ControlInv, Scanning
  <1>6. DownInv'
    BY DEF Swap, DownInv
  <1>7. RemovalInv'
    BY DEF Swap, RemovalInv, Reading, Scanning, InScan
  <1>8. MarkInv'
    BY DEF Swap, MarkInv, Reading, Scanning
  <1>9. GenerationInv'
    BY DEF Swap, GenerationInv, Superseded, Reading, Scanning, InScan
  <1>10. LiveInv'
    BY EventOrder DEF Swap, WorkOK, RestOK, LiveInv, ControlInv, ScanInv, Confirmed, Applied,
       Scanning, InScan
  <1>11. ScanInv'
    BY DEF Swap, ScanInv, Scanning, InScan, Confirmed, Applied
  <1>12. SnapInv'
    BY DEF Swap, RestOK, SnapInv, ControlInv, GenerationInv, SnapshotIsCurrent, SnapshotTrue,
       Scanning, Superseded, Reading, InScan
  <1>13. DeletedFailsClosed'
    BY DEF Swap, DeletedFailsClosed, RemovalInv, FailsClosed, Reading, Scanning, InScan
  <1> QED BY <1>1, <1>2, <1>3, <1>4, <1>5, <1>6, <1>7, <1>8, <1>9, <1>10, <1>11, <1>12, <1>13

\* A removal during the scan sends the worker back.
LEMMA KeepsCheckDirty ==
  ASSUME DerivedInv, ~Preempted, ~DeleteEarly, CheckDirty
  PROVE  DerivedInv'
  <1> USE DEF DerivedInv
  <1>1. FlagsOK' /\ RestOK' /\ PathInv' /\ LiveInv' /\ SnapInv' /\ DeletedFailsClosed'
    BY DEF CheckDirty, FlagsOK, RestOK, PathInv, LiveInv, SnapInv, DeletedFailsClosed, Confirmed,
       Applied, SnapshotIsCurrent, SnapshotTrue, FailsClosed
  <1>2. WorkOK'
    BY DEF CheckDirty, WorkOK, RestOK
  <1>3. ControlInv'
    BY DEF CheckDirty, ControlInv, Scanning
  <1>4. DownInv'
    BY DEF CheckDirty, DownInv
  <1>5. RemovalInv'
    BY DEF CheckDirty, RemovalInv, Reading, Scanning, InScan
  <1>6. MarkInv'
    BY DEF CheckDirty, MarkInv, Reading, Scanning
  <1>7. GenerationInv'
    BY DEF CheckDirty, GenerationInv, Superseded, Reading, Scanning, InScan
  <1>8. ScanInv'
    BY DEF CheckDirty, ScanInv, Scanning, InScan, Confirmed, Applied
  <1> QED BY <1>1, <1>2, <1>3, <1>4, <1>5, <1>6, <1>7, <1>8

\* The pending flag goes down when nothing is dirty.
LEMMA KeepsClearPending ==
  ASSUME DerivedInv, ~Preempted, ~DeleteEarly, ClearPending
  PROVE  DerivedInv'
  <1> USE DEF DerivedInv
  <1>1. RestOK' /\ PathInv' /\ LiveInv' /\ SnapInv' /\ DeletedFailsClosed'
    BY DEF ClearPending, RestOK, PathInv, LiveInv, SnapInv, DeletedFailsClosed, Confirmed, Applied,
       SnapshotIsCurrent, SnapshotTrue, FailsClosed
  <1>2. FlagsOK'
    BY Zenon DEF ClearPending, FlagsOK
  <1>3. WorkOK'
    BY DEF ClearPending, WorkOK, RestOK
  <1>4. ControlInv'
    BY DEF ClearPending, ControlInv, Scanning
  <1>5. DownInv'
    BY DEF ClearPending, DownInv
  <1>6. RemovalInv'
    BY DEF ClearPending, RemovalInv, Reading, Scanning, InScan
  <1>7. MarkInv'
    BY DEF ClearPending, MarkInv, Reading, Scanning
  <1>8. GenerationInv'
    BY DEF ClearPending, GenerationInv, Superseded, Reading, Scanning, InScan
  <1>9. ScanInv'
    BY DEF ClearPending, ScanInv, Scanning, InScan, Confirmed, Applied
  <1> QED BY <1>1, <1>2, <1>3, <1>4, <1>5, <1>6, <1>7, <1>8, <1>9

\* A removal that came in between puts it up again.
LEMMA KeepsRecheckDirty ==
  ASSUME DerivedInv, ~Preempted, ~DeleteEarly, RecheckDirty
  PROVE  DerivedInv'
  <1> USE DEF DerivedInv
  <1>1. RestOK' /\ PathInv' /\ LiveInv' /\ SnapInv' /\ DeletedFailsClosed'
    BY DEF RecheckDirty, RestOK, PathInv, LiveInv, SnapInv, DeletedFailsClosed, Confirmed, Applied,
       SnapshotIsCurrent, SnapshotTrue, FailsClosed
  <1>2. FlagsOK'
    BY Zenon DEF RecheckDirty, FlagsOK
  <1>3. WorkOK'
    BY DEF RecheckDirty, WorkOK, RestOK
  <1>4. ControlInv'
    BY DEF RecheckDirty, ControlInv, Scanning
  <1>5. DownInv'
    BY DEF RecheckDirty, DownInv
  <1>6. RemovalInv'
    BY DEF RecheckDirty, FlagsOK, RemovalInv, Reading, Scanning, InScan
  <1>7. MarkInv'
    BY DEF RecheckDirty, FlagsOK, MarkInv, Reading, Scanning
  <1>8. GenerationInv'
    BY DEF RecheckDirty, GenerationInv, Superseded, Reading, Scanning, InScan
  <1>9. ScanInv'
    BY DEF RecheckDirty, ScanInv, Scanning, InScan, Confirmed, Applied
  <1> QED BY <1>1, <1>2, <1>3, <1>4, <1>5, <1>6, <1>7, <1>8, <1>9

\* The worker gives up the running flag.
LEMMA KeepsRelease ==
  ASSUME DerivedInv, ~Preempted, ~DeleteEarly, Release
  PROVE  DerivedInv'
  <1> USE DEF DerivedInv
  <1>1. RestOK' /\ PathInv' /\ LiveInv' /\ SnapInv' /\ DeletedFailsClosed'
    BY DEF Release, RestOK, PathInv, LiveInv, SnapInv, DeletedFailsClosed, Confirmed, Applied,
       SnapshotIsCurrent, SnapshotTrue, FailsClosed
  <1>2. FlagsOK'
    BY Zenon DEF Release, FlagsOK
  <1>3. WorkOK'
    BY DEF Release, WorkOK, RestOK
  <1>4. ControlInv'
    BY DEF Release, ControlInv, Scanning
  <1>5. DownInv'
    BY DEF Release, DownInv
  <1>6. RemovalInv'
    BY DEF Release, RemovalInv, Reading, Scanning, InScan
  <1>7. MarkInv'
    BY DEF Release, MarkInv, Reading, Scanning
  <1>8. GenerationInv'
    BY DEF Release, GenerationInv, Superseded, Reading, Scanning, InScan
  <1>9. ScanInv'
    BY DEF Release, ScanInv, Scanning, InScan, Confirmed, Applied
  <1> QED BY <1>1, <1>2, <1>3, <1>4, <1>5, <1>6, <1>7, <1>8, <1>9

\* A removal that found the worker still running is not lost.
LEMMA KeepsUnmarkReleased ==
  ASSUME DerivedInv, ~Preempted, ~DeleteEarly, UnmarkReleased
  PROVE  DerivedInv'
  <1> USE DEF DerivedInv
  <1>1. RestOK' /\ PathInv' /\ LiveInv' /\ SnapInv' /\ DeletedFailsClosed'
    BY DEF UnmarkReleased, RestOK, PathInv, LiveInv, SnapInv, DeletedFailsClosed, Confirmed,
       Applied, SnapshotIsCurrent, SnapshotTrue, FailsClosed
  <1>2. FlagsOK'
    BY Zenon DEF UnmarkReleased, FlagsOK
  <1>3. WorkOK'
    BY DEF UnmarkReleased, WorkOK, RestOK
  <1>4. ControlInv'
    BY DEF UnmarkReleased, ControlInv, Scanning
  <1>5. DownInv'
    BY DEF UnmarkReleased, DownInv
  <1>6. RemovalInv'
    BY DEF UnmarkReleased, RemovalInv, Reading, Scanning, InScan
  <1>7. MarkInv'
    BY DEF UnmarkReleased, MarkInv, Reading, Scanning
  <1>8. GenerationInv'
    BY DEF UnmarkReleased, GenerationInv, Superseded, Reading, Scanning, InScan
  <1>9. ScanInv'
    BY DEF UnmarkReleased, ScanInv, Scanning, InScan, Confirmed, Applied
  <1> QED BY <1>1, <1>2, <1>3, <1>4, <1>5, <1>6, <1>7, <1>8, <1>9

\* The periodic saver wakes.
LEMMA KeepsSaverPass ==
  ASSUME DerivedInv, ~Preempted, ~DeleteEarly, SaverPass
  PROVE  DerivedInv'
  <1> USE DEF DerivedInv
  <1>1. /\ WorkOK' /\ ControlInv' /\ DownInv' /\ PathInv' /\ RemovalInv' /\ MarkInv'
        /\ GenerationInv' /\ LiveInv' /\ ScanInv' /\ SnapInv' /\ DeletedFailsClosed'
    BY DEF SaverPass, WorkOK, ControlInv, DownInv, PathInv, RemovalInv, MarkInv, GenerationInv,
       LiveInv, ScanInv, SnapInv, DeletedFailsClosed, Scanning, Reading, InScan, Superseded,
       Confirmed, Applied, SnapshotIsCurrent, SnapshotTrue, FailsClosed
  <1>2. FlagsOK'
    BY Zenon DEF SaverPass, FlagsOK
  <1>3. RestOK'
    BY BoundsType DEF SaverPass, RestOK, WorkOK, FlagsOK
  <1> QED BY <1>1, <1>2, <1>3

\* The save of a drain.
LEMMA KeepsSaverFinal ==
  ASSUME DerivedInv, ~Preempted, ~DeleteEarly, SaverFinal
  PROVE  DerivedInv'
  <1> USE DEF DerivedInv
  <1>1. /\ WorkOK' /\ ControlInv' /\ DownInv' /\ PathInv' /\ RemovalInv' /\ MarkInv'
        /\ GenerationInv' /\ LiveInv' /\ ScanInv' /\ SnapInv' /\ DeletedFailsClosed'
    BY DEF SaverFinal, WorkOK, ControlInv, DownInv, PathInv, RemovalInv, MarkInv, GenerationInv,
       LiveInv, ScanInv, SnapInv, DeletedFailsClosed, Scanning, Reading, InScan, Superseded,
       Confirmed, Applied, SnapshotIsCurrent, SnapshotTrue, FailsClosed
  <1>2. FlagsOK'
    BY Zenon DEF SaverFinal, FlagsOK
  <1>3. RestOK'
    BY BoundsType DEF SaverFinal, RestOK, WorkOK, FlagsOK
  <1> QED BY <1>1, <1>2, <1>3

\* The drain begins.
LEMMA KeepsDrainProcess ==
  ASSUME DerivedInv, ~Preempted, ~DeleteEarly, DrainProcess
  PROVE  DerivedInv'
  <1> USE DEF DerivedInv
  <1>1. /\ WorkOK' /\ RestOK' /\ ControlInv' /\ DownInv' /\ PathInv' /\ MarkInv'
        /\ GenerationInv' /\ LiveInv' /\ ScanInv' /\ SnapInv' /\ DeletedFailsClosed'
    BY DEF DrainProcess, WorkOK, RestOK, ControlInv, DownInv, PathInv, MarkInv, GenerationInv,
       LiveInv, ScanInv, SnapInv, DeletedFailsClosed, Scanning, Reading, Superseded, InScan,
       Confirmed, Applied, SnapshotIsCurrent, SnapshotTrue, FailsClosed
  <1>2. FlagsOK'
    BY Zenon DEF DrainProcess, FlagsOK
  <1>3. RemovalInv'
    BY DEF DrainProcess, RemovalInv, Reading, Scanning, InScan
  <1> QED BY <1>1, <1>2, <1>3

\* A crash keeps what is on disk and nothing else.
LEMMA KeepsCrashAndRestart ==
  ASSUME DerivedInv, ~Preempted, ~DeleteEarly, CrashAndRestart
  PROVE  DerivedInv'
  <1> USE DEF DerivedInv
  <1>1. FlagsOK'
    BY Zenon DEF CrashAndRestart, FlagsOK
  <1>2. WorkOK'
    BY DEF CrashAndRestart, WorkOK, RestOK
  <1>3. RestOK'
    BY BoundsType DEF CrashAndRestart, RestOK, WorkOK, FlagsOK
  <1>4. ControlInv'
    BY TasksDistinct DEF CrashAndRestart, ControlInv, Scanning
  <1>5. DownInv'
    BY DEF CrashAndRestart, DownInv
  <1>6. PathInv'
    BY DEF CrashAndRestart, PathInv
  <1>7. RemovalInv'
    BY DEF CrashAndRestart, RemovalInv, Reading, Scanning, InScan
  <1>8. MarkInv'
    BY DEF CrashAndRestart, MarkInv, Reading, Scanning
  <1>9. GenerationInv'
    BY DEF CrashAndRestart, GenerationInv, Superseded, Reading, Scanning, InScan
  <1>10. LiveInv'
    BY DEF CrashAndRestart, LiveInv, Confirmed, Applied
  <1>11. ScanInv'
    BY DEF CrashAndRestart, ScanInv, Scanning, InScan, Confirmed, Applied
  <1>12. SnapInv'
    BY DEF CrashAndRestart, SnapInv, SnapshotIsCurrent, SnapshotTrue
  <1>13. DeletedFailsClosed'
    BY DEF CrashAndRestart, DeletedFailsClosed, FailsClosed
  <1> QED BY <1>1, <1>2, <1>3, <1>4, <1>5, <1>6, <1>7, <1>8, <1>9, <1>10, <1>11, <1>12, <1>13

\* The startup recovery removes the events whose accept path did not finish.
LEMMA KeepsRecoverPending ==
  ASSUME DerivedInv, ~Preempted, ~DeleteEarly, RecoverPending
  PROVE  DerivedInv'
  <1> USE DEF DerivedInv
  <1>1. FlagsOK' /\ WorkOK' /\ ControlInv' /\ RemovalInv' /\ MarkInv' /\ GenerationInv'
    BY DEF RecoverPending, FlagsOK, WorkOK, ControlInv, RemovalInv, MarkInv, GenerationInv,
       Scanning, Reading, InScan, Superseded
  <1>2. RestOK'
    BY BoundsType DEF RecoverPending, RestOK, WorkOK, FlagsOK
  <1>3. DownInv'
    BY DEF RecoverPending, DownInv
  <1>4. PathInv'
    BY DEF RecoverPending, PathInv, DownInv
  <1>5. LiveInv'
    BY DEF RecoverPending, LiveInv, Confirmed, Applied
  <1>6. ScanInv'
    BY DEF RecoverPending, ScanInv, DownInv, Scanning, InScan, Confirmed, Applied
  <1>7. SnapInv'
    BY DEF RecoverPending, SnapInv, SnapshotIsCurrent, SnapshotTrue
  <1>8. DeletedFailsClosed'
    BY DEF RecoverPending, DeletedFailsClosed, FailsClosed
  <1> QED BY <1>1, <1>2, <1>3, <1>4, <1>5, <1>6, <1>7, <1>8

\* A current snapshot is restored.
LEMMA KeepsRestore ==
  ASSUME DerivedInv, ~Preempted, ~DeleteEarly, Restore
  PROVE  DerivedInv'
  <1> USE DEF DerivedInv
  <1>1. FlagsOK' /\ WorkOK' /\ ControlInv' /\ PathInv' /\ MarkInv' /\ ScanInv' /\ SnapInv'
    BY DEF Restore, SnapshotIsCurrent, FlagsOK, WorkOK, ControlInv, PathInv, MarkInv, ScanInv,
       SnapInv, Scanning, Reading, InScan, Confirmed, Applied, SnapshotTrue
  <1>2. RestOK'
    BY BoundsType DEF Restore, SnapshotIsCurrent, RestOK, WorkOK, FlagsOK
  <1>3. DownInv'
    BY DEF Restore, DownInv
  <1>4. RemovalInv'
    BY DEF Restore, RemovalInv, SnapInv, Reading, Scanning, InScan, SnapshotIsCurrent, SnapshotTrue
  <1>5. GenerationInv'
    BY DEF Restore, GenerationInv, DownInv, Superseded, Reading, Scanning, InScan
  <1>6. LiveInv'
    BY DEF Restore, RestOK, LiveInv, GenerationInv, SnapInv, Confirmed, Applied, Superseded,
       Reading, Scanning, InScan, SnapshotIsCurrent, SnapshotTrue
  <1>7. DeletedFailsClosed'
    BY DEF Restore, DeletedFailsClosed, SnapInv, FailsClosed, SnapshotIsCurrent, SnapshotTrue
  <1> QED BY <1>1, <1>2, <1>3, <1>4, <1>5, <1>6, <1>7

\* A stale or missing snapshot is rebuilt from the store.
LEMMA KeepsRebuild ==
  ASSUME DerivedInv, ~Preempted, ~DeleteEarly, Rebuild
  PROVE  DerivedInv'
  <1> USE DEF DerivedInv
  <1>1. FlagsOK' /\ WorkOK' /\ ControlInv' /\ PathInv' /\ MarkInv' /\ ScanInv'
    BY DEF Rebuild, FlagsOK, WorkOK, ControlInv, PathInv, MarkInv, ScanInv, Scanning, Reading,
       InScan, Confirmed, Applied
  <1>2. RestOK'
    BY BoundsType DEF Rebuild, RestOK, WorkOK, FlagsOK
  <1>3. DownInv'
    BY DEF Rebuild, DownInv
  <1>4. RemovalInv'
    BY DEF Rebuild, RestOK, RemovalInv, PathInv, Reading, Scanning, InScan
  <1>5. GenerationInv'
    BY DEF Rebuild, RestOK, GenerationInv, DownInv, Superseded, Reading, Scanning, InScan
  <1>6. LiveInv'
    BY DEF Rebuild, RestOK, LiveInv, DownInv, PathInv, Confirmed, Applied
  <1>7. SnapInv'
    BY DEF Rebuild, RestOK, SnapInv, DownInv, PathInv, SnapshotIsCurrent, SnapshotTrue
  <1>8. DeletedFailsClosed'
    BY DEF Rebuild, RestOK, DeletedFailsClosed, PathInv, FailsClosed
  <1> QED BY <1>1, <1>2, <1>3, <1>4, <1>5, <1>6, <1>7, <1>8

\* A rebuild that fails at startup leaves every group failing closed.
LEMMA KeepsRebuildFails ==
  ASSUME DerivedInv, ~Preempted, ~DeleteEarly, RebuildFails
  PROVE  DerivedInv'
  <1> USE DEF DerivedInv
  <1>1. WorkOK' /\ PathInv' /\ RemovalInv' /\ MarkInv' /\ GenerationInv' /\ ScanInv' /\ SnapInv'
    BY DEF RebuildFails, WorkOK, PathInv, RemovalInv, MarkInv, GenerationInv, ScanInv, SnapInv,
       Reading, Scanning, InScan, Superseded, Confirmed, Applied, SnapshotIsCurrent, SnapshotTrue
  <1>2. FlagsOK'
    BY Zenon DEF RebuildFails, FlagsOK
  <1>3. RestOK'
    BY BoundsType DEF RebuildFails, RestOK, WorkOK, FlagsOK
  <1>4. ControlInv'
    BY DEF RebuildFails, ControlInv, DownInv, Scanning
  <1>5. DownInv'
    BY DEF RebuildFails, DownInv
  <1>6. LiveInv'
    BY DEF RebuildFails, LiveInv, Confirmed, Applied
  <1>7. DeletedFailsClosed'
    BY DEF RebuildFails, DeletedFailsClosed, FailsClosed
  <1> QED BY <1>1, <1>2, <1>3, <1>4, <1>5, <1>6, <1>7

-----------------------------------------------------------------------------
(* GroupsRebuild::persist.  What its steps do to the store, the marks and   *)
(* the snapshot comes down to three cases.                                 *)

\* The generation is read for a new save.
SaveBegins ==
    /\ \E t \in Tasks : Wants(t) /\ saving' = [by |-> t, step |-> "capture", seq |-> seq, ev |-> {}]
    /\ saving.by = NoTask /\ ~saveDue /\ ~unrestored /\ ~InFlight /\ worker.step # "recheck"
    /\ UNCHANGED <<snap, worker, saveDue, marking>>

\* The save goes on: the capture, or a re-check it passed.
SaveMoves ==
    /\ \/ saving.step = "capture" /\ saving' = [saving EXCEPT !.step = "check", !.ev = live]
       \/ saving.step = "check" /\ saving' = [saving EXCEPT !.step = "reread"]
       \/ saving.step = "reread" /\ saving' = [saving EXCEPT !.step = "save"]
    /\ UNCHANGED <<snap, worker, saveDue, marking>>

\* The caller goes on, to the head of the worker or the schedule of a mark.
Resumes ==
    \/ /\ worker.step = "persist" /\ worker' = [worker EXCEPT !.step = "head"]
       /\ UNCHANGED marking
    \/ /\ UNCHANGED worker
       /\ \/ UNCHANGED marking
          \/ \E e \in Event : /\ marking[e] = "persist"
                              /\ marking' = [marking EXCEPT ![e] = "schedule"]

\* The save ends, committed or not, or never began.
SaveEnds ==
    /\ saving' = NoSave
    /\ \/ snap' = snap \/ snap' = NoSnap
       \/ saving.step = "save" /\ snap' = [ev |-> saving.ev, seq |-> saving.seq]
    /\ saveDue => saveDue'
    /\ Resumes

LEMMA ResumeCases ==
  ASSUME NEW t \in Tasks, NEW outcome, Resume(t, outcome),
         t = Rebuilder => worker.step = "persist",
         t \in Event => marking[t] = "persist"
  PROVE  Resumes
  BY DEF Resume, Resumes

LEMMA ReturnCases ==
  ASSUME NEW t \in Tasks, NEW outcome, Return(t, outcome),
         t = Rebuilder => worker.step = "persist",
         t \in Event => marking[t] = "persist"
  PROVE  Resumes /\ (saveDue => saveDue')
  BY ResumeCases DEF Return

LEMMA FailCases ==
  ASSUME NEW t \in Tasks, ClearSnapshot(t) \/ Unreadable(t),
         t = Rebuilder => worker.step = "persist",
         t \in Event => marking[t] = "persist"
  PROVE  Resumes /\ (saveDue => saveDue') /\ (snap' = snap \/ snap' = NoSnap)
  <1>1. CASE ClearSnapshot(t)
    BY <1>1, ReturnCases DEF ClearSnapshot
  <1>2. CASE Unreadable(t)
    BY <1>2, ResumeCases DEF Unreadable
  <1> QED BY <1>1, <1>2

LEMMA PersistCases ==
  ASSUME DerivedInv, ~Preempted, Persisting
  PROVE  /\ Up
         /\ SaveBegins \/ SaveMoves \/ SaveEnds
         /\ UNCHANGED <<stored, marker, seq, store, dirty, running, buffer, overlapped, publish,
                        removal, process, history>>
  <1> USE DEF DerivedInv
  <1>0. saving.by # NoTask => /\ saving.by \in Tasks
                              /\ saving.by = Rebuilder => worker.step = "persist"
                              /\ saving.by \in Event => marking[saving.by] = "persist"
    BY DEF ControlInv, RestOK
  <1>1. ASSUME NEW t \in Tasks, PersistBegin(t)
        PROVE  /\ Up /\ (SaveBegins \/ SaveEnds)
               /\ UNCHANGED <<stored, marker, seq, store, dirty, running, buffer, overlapped,
                              publish, removal, process, history>>
    <2>1. /\ t = Rebuilder => worker.step = "persist"
          /\ t \in Event => marking[t] = "persist"
      BY <1>1, TasksDistinct DEF PersistBegin, Wants
    <2>2. saving = NoSave /\ worker.step # "recheck"
      BY <1>1 DEF PersistBegin, ControlInv
    <2>3. SaveBegins \/ SaveEnds
      <3>1. CASE (ClearSnapshot(t) \/ Unreadable(t)) /\ UNCHANGED saving
        BY <2>1, <2>2, <3>1, FailCases DEF SaveEnds
      <3>2. CASE \E o \in {"Committed", "Deferred"} : Return(t, o) /\ UNCHANGED <<snap, saving>>
        BY <2>1, <2>2, <3>2, ReturnCases DEF SaveEnds
      <3>3. CASE /\ ~saveDue /\ ~unrestored /\ ~InFlight
                 /\ saving' = [by |-> t, step |-> "capture", seq |-> seq, ev |-> {}]
                 /\ UNCHANGED <<snap, worker, saveDue, marking>>
        BY <1>1, <2>2, <3>3 DEF PersistBegin, SaveBegins
      <3> QED BY <1>1, <3>1, <3>2, <3>3 DEF PersistBegin
    <2> QED BY <1>1, <2>3 DEF PersistBegin, PersistFrame
  <1>2. CASE PersistCapture
    BY <1>2 DEF PersistCapture, SaveMoves
  <1>3. CASE PersistCheck
    <2>1. saving.by # NoTask
      BY <1>3 DEF PersistCheck, ControlInv
    <2>2. SaveMoves \/ SaveEnds
      <3>1. CASE ClearSnapshot(saving.by) /\ saving' = NoSave
        BY <1>0, <2>1, <3>1, FailCases DEF SaveEnds
      <3>2. CASE Return(saving.by, "Deferred") /\ saving' = NoSave /\ UNCHANGED snap
        BY <1>0, <2>1, <3>2, ReturnCases DEF SaveEnds
      <3>3. CASE /\ saving' = [saving EXCEPT !.step = "reread"]
                 /\ UNCHANGED <<snap, worker, saveDue, marking>>
        BY <1>3, <3>3 DEF PersistCheck, SaveMoves
      <3> QED BY <1>3, <3>1, <3>2, <3>3 DEF PersistCheck
    <2> QED BY <1>3, <2>2 DEF PersistCheck, PersistFrame
  <1>4. CASE PersistReread
    <2>1. saving.by # NoTask
      BY <1>4 DEF PersistReread, ControlInv
    <2>2. SaveMoves \/ SaveEnds
      <3>1. CASE Unreadable(saving.by) /\ saving' = NoSave
        BY <1>0, <2>1, <3>1, FailCases DEF SaveEnds
      <3>2. CASE Return(saving.by, "Failed") /\ saving' = NoSave /\ UNCHANGED snap
        BY <1>0, <2>1, <3>2, ReturnCases DEF SaveEnds
      <3>3. CASE /\ saving' = [saving EXCEPT !.step = "save"]
                 /\ UNCHANGED <<snap, worker, saveDue, marking>>
        BY <1>4, <3>3 DEF PersistReread, SaveMoves
      <3> QED BY <1>4, <3>1, <3>2, <3>3 DEF PersistReread
    <2> QED BY <1>4, <2>2 DEF PersistReread, PersistFrame
  <1>5. CASE PersistSave
    <2>1. saving.by # NoTask
      BY <1>5 DEF PersistSave, ControlInv
    <2>2. \E o \in {"Committed", "Failed"} : Return(saving.by, o)
      BY <1>5 DEF PersistSave
    <2>3. Resumes /\ (saveDue => saveDue')
      BY <1>0, <2>1, <2>2, ReturnCases
    <2> QED BY <1>5, <2>3 DEF PersistSave, PersistFrame, SaveEnds
  <1> QED BY <1>1, <1>2, <1>3, <1>4, <1>5 DEF Persisting

\* The variables the three cases leave out.
LEMMA PersistTypes ==
  ASSUME FlagsOK, RestOK, Persisting
  PROVE  /\ FlagsOK' /\ saver' \in {"none", "wait", "persist", "final", "closed"}
         /\ faults' \in 0..MaxFaults
  <1>1. ASSUME NEW t, NEW o, Resume(t, o)
        PROVE  unsaved' \in BOOLEAN /\ saver' \in {"none", "wait", "persist", "final", "closed"}
    <2>1. unsaved' \in BOOLEAN
      BY <1>1, Zenon DEF Resume, FlagsOK
    <2> QED BY <1>1, <2>1 DEF Resume, RestOK
  <1>2. ASSUME NEW t, NEW o, Return(t, o)
        PROVE  /\ unsaved' \in BOOLEAN /\ saver' \in {"none", "wait", "persist", "final", "closed"}
               /\ saveDue' \in BOOLEAN
    BY <1>1, <1>2 DEF Return
  <1>3. ASSUME NEW t, ClearSnapshot(t) \/ Unreadable(t)
        PROVE  /\ unsaved' \in BOOLEAN /\ saver' \in {"none", "wait", "persist", "final", "closed"}
               /\ saveDue' \in BOOLEAN /\ faults' \in 0..MaxFaults
    <2>1. faults' \in 0..MaxFaults
      BY <1>3, BoundsType DEF ClearSnapshot, Unreadable, RestOK
    <2>2. CASE ClearSnapshot(t)
      BY <1>2, <2>1, <2>2 DEF ClearSnapshot
    <2>3. CASE Unreadable(t)
      BY <1>1, <2>1, <2>3 DEF Unreadable
    <2> QED BY <1>3, <2>2, <2>3
  <1>4. /\ unsaved' \in BOOLEAN /\ saver' \in {"none", "wait", "persist", "final", "closed"}
        /\ saveDue' \in BOOLEAN /\ faults' \in 0..MaxFaults
    <2>1. CASE \E t \in Tasks : PersistBegin(t)
      BY <2>1, <1>2, <1>3 DEF PersistBegin, FlagsOK, RestOK
    <2>2. CASE PersistCapture
      BY <2>2 DEF PersistCapture, FlagsOK, RestOK
    <2>3. CASE PersistCheck
      BY <2>3, <1>2, <1>3 DEF PersistCheck, FlagsOK, RestOK
    <2>4. CASE PersistReread
      BY <2>4, <1>2, <1>3 DEF PersistReread, FlagsOK, RestOK
    <2>5. CASE PersistSave
      BY <2>5, <1>2, BoundsType DEF PersistSave, FlagsOK, RestOK
    <2> QED BY <2>1, <2>2, <2>3, <2>4, <2>5 DEF Persisting
  <1>5. UNCHANGED <<dirty, running, drain, unrestored>>
    BY DEF Persisting, PersistBegin, PersistCapture, PersistCheck, PersistReread, PersistSave,
           PersistFrame
  <1> QED BY <1>4, <1>5 DEF FlagsOK

LEMMA KeepsSaveBegins ==
  ASSUME DerivedInv, Persisting, Up, SaveBegins,
         UNCHANGED <<stored, marker, seq, store, dirty, running, buffer, overlapped, publish,
                     removal, process, history>>
  PROVE  DerivedInv'
  <1> USE DEF DerivedInv
  <1>1. FlagsOK'
    BY PersistTypes
  <1>2. WorkOK' /\ PathInv' /\ RemovalInv' /\ MarkInv' /\ LiveInv' /\ ScanInv' /\ DeletedFailsClosed'
    BY DEF SaveBegins, WorkOK, PathInv, RemovalInv, MarkInv, LiveInv, ScanInv, DeletedFailsClosed,
       Reading, Scanning, InScan, Confirmed, Applied, FailsClosed
  <1>3. RestOK'
    BY PersistTypes DEF SaveBegins, RestOK, Tasks
  <1>4. ControlInv'
    BY TasksDistinct DEF SaveBegins, Wants, InFlight, ControlInv, Scanning
  <1>5. DownInv'
    BY DEF SaveBegins, Wants, InFlight, DownInv
  <1>6. GenerationInv'
    BY DEF SaveBegins, Wants, InFlight, RestOK, GenerationInv, PathInv, RemovalInv, MarkInv,
       Superseded, Reading, Scanning, InScan
  <1>7. SnapInv'
    BY DEF SaveBegins, Wants, InFlight, SnapInv, SnapshotIsCurrent, SnapshotTrue
  <1> QED BY <1>1, <1>2, <1>3, <1>4, <1>5, <1>6, <1>7

LEMMA KeepsSaveMoves ==
  ASSUME DerivedInv, Persisting, Up, SaveMoves,
         UNCHANGED <<stored, marker, seq, store, dirty, running, buffer, overlapped, publish,
                     removal, process, history>>
  PROVE  DerivedInv'
  <1> USE DEF DerivedInv
  <1>1. FlagsOK'
    BY PersistTypes
  <1>2. WorkOK' /\ PathInv' /\ RemovalInv' /\ MarkInv' /\ LiveInv' /\ ScanInv' /\ DeletedFailsClosed'
    BY DEF SaveMoves, WorkOK, PathInv, RemovalInv, MarkInv, LiveInv, ScanInv, DeletedFailsClosed,
       Reading, Scanning, InScan, Confirmed, Applied, FailsClosed
  <1>3. RestOK'
    BY PersistTypes DEF SaveMoves, RestOK, Tasks
  <1>4. /\ saving'.by = saving.by /\ saving'.seq = saving.seq
        /\ saving'.step \in {"check", "reread", "save"} /\ saving.step # "none"
        /\ \/ saving.step = "capture" /\ saving'.ev = live
           \/ saving.step \in {"check", "reread"} /\ saving'.ev = saving.ev
    BY DEF SaveMoves, RestOK
  <1>5. saving.by # NoTask /\ ~unrestored
    BY <1>4 DEF ControlInv
  <1>6. ControlInv' /\ DownInv'
    BY <1>4, <1>5 DEF SaveMoves, ControlInv, DownInv, Scanning
  <1>7. GenerationInv'
    BY <1>4, <1>5 DEF SaveMoves, GenerationInv, Superseded, Reading, Scanning, InScan
  <1>8. SnapInv'
    <2>1. (saving.step = "capture" /\ saving.seq = seq) => live \cap (deleted \cup Applied) = {}
      BY <1>5 DEF GenerationInv, Superseded, Applied, RestOK
    <2>2. (saving.step = "capture" /\ saving.seq = seq) =>
            /\ live \subseteq acked \cup (refused \cap misread)
            /\ live \subseteq stored \cup misread \cup recovered
            /\ stored \ (marker \cup misread) \subseteq live
      BY <1>5, <2>1 DEF LiveInv, Confirmed
    <2>3. UNCHANGED <<snap, seq, stored, marker, acked, refused, misread, recovered, deleted>>
      BY DEF SaveMoves
    <2> QED BY <1>4, <2>2, <2>3 DEF SnapInv, SnapshotIsCurrent, SnapshotTrue
  <1> QED BY <1>1, <1>2, <1>3, <1>6, <1>7, <1>8

LEMMA KeepsSaveEnds ==
  ASSUME DerivedInv, Persisting, Up, SaveEnds,
         UNCHANGED <<stored, marker, seq, store, dirty, running, buffer, overlapped, publish,
                     removal, process, history>>
  PROVE  DerivedInv'
  <1> USE DEF DerivedInv, Resumes
  <1>1. FlagsOK'
    BY PersistTypes
  <1>2. LiveInv'
    BY DEF SaveEnds, LiveInv, Confirmed, Applied
  <1>3. WorkOK'
    BY DEF SaveEnds, WorkOK
  <1>4. RestOK'
    BY PersistTypes DEF SaveEnds, RestOK, Tasks
  <1>5. ControlInv'
    BY TasksDistinct DEF SaveEnds, WorkOK, ControlInv, Scanning
  <1>6. DownInv'
    BY DEF SaveEnds, DownInv
  <1>7. PathInv'
    BY DEF SaveEnds, RestOK, PathInv
  <1>8. RemovalInv'
    BY DEF SaveEnds, WorkOK, RestOK, RemovalInv, Reading, Scanning, InScan
  <1>9. MarkInv'
    BY DEF SaveEnds, WorkOK, RestOK, MarkInv, Reading, Scanning
  <1>10. GenerationInv'
    BY DEF SaveEnds, WorkOK, RestOK, GenerationInv, ControlInv, Superseded, Reading, Scanning,
       InScan
  <1>11. ScanInv'
    BY DEF SaveEnds, WorkOK, ScanInv, Scanning, InScan, Confirmed, Applied
  <1>12. SnapInv'
    BY DEF SaveEnds, RestOK, SnapInv, ControlInv, GenerationInv, SnapshotIsCurrent, SnapshotTrue,
       Scanning, Superseded, Reading, InScan
  <1>13. DeletedFailsClosed'
    BY DEF SaveEnds, RestOK, DeletedFailsClosed, FailsClosed
  <1> QED BY <1>1, <1>2, <1>3, <1>4, <1>5, <1>6, <1>7, <1>8, <1>9, <1>10, <1>11, <1>12, <1>13

LEMMA KeepsPersisting ==
  ASSUME DerivedInv, ~Preempted, Persisting
  PROVE  DerivedInv'
  BY PersistCases, KeepsSaveBegins, KeepsSaveMoves, KeepsSaveEnds

LEMMA InvInit == DerivedInit => DerivedInv
  <1> SUFFICES ASSUME DerivedInit PROVE DerivedInv
    OBVIOUS
  <1> USE DEF DerivedInit
  <1>1. FlagsOK
    BY Zenon DEF FlagsOK
  <1>2. WorkOK /\ RestOK
    BY BoundsType DEF WorkOK, RestOK
  <1>3. ControlInv /\ DownInv /\ PathInv
    BY TasksDistinct DEF ControlInv, DownInv, PathInv, Scanning
  <1>4. RemovalInv /\ MarkInv /\ GenerationInv
    BY TasksDistinct DEF RemovalInv, MarkInv, GenerationInv, Reading, Scanning, InScan
  <1>5. LiveInv /\ ScanInv /\ SnapInv /\ DeletedFailsClosed
    BY DEF LiveInv, ScanInv, SnapInv, DeletedFailsClosed, Confirmed, Scanning, SnapshotIsCurrent,
           SnapshotTrue
  <1> QED BY <1>1, <1>2, <1>3, <1>4, <1>5 DEF DerivedInv

LEMMA InvStutter == DerivedInv /\ UNCHANGED dvars => DerivedInv'
  <1> SUFFICES ASSUME DerivedInv, UNCHANGED dvars PROVE DerivedInv'
    OBVIOUS
  <1> USE DEF dvars, DerivedInv
  <1>1. FlagsOK' /\ WorkOK' /\ RestOK'
    BY DEF FlagsOK, WorkOK, RestOK
  <1>2. ControlInv' /\ DownInv' /\ PathInv' /\ RemovalInv' /\ MarkInv' /\ GenerationInv'
    BY DEF ControlInv, DownInv, PathInv, RemovalInv, MarkInv, GenerationInv, Superseded,
           Reading, Scanning, InScan
  <1>3. LiveInv' /\ ScanInv' /\ SnapInv' /\ DeletedFailsClosed'
    BY DEF LiveInv, ScanInv, SnapInv, DeletedFailsClosed, Confirmed, Applied, Scanning, InScan,
           SnapshotIsCurrent, SnapshotTrue, FailsClosed
  <1> QED BY <1>1, <1>2, <1>3

LEMMA InvNext ==
  ASSUME DerivedInv, ~Preempted, ~DeleteEarly, [DerivedNext]_dvars
  PROVE  DerivedInv'
  <1>1. ASSUME NEW e \in Event, MarkPending(e) \/ Publishing(e)
        PROVE  DerivedInv'
    BY <1>1, KeepsMarkPending, KeepsPut, KeepsPutRefused, KeepsApply, KeepsClearApplied,
       KeepsReject, KeepsRemoveRejected, KeepsRepairRejectedScan, KeepsClearRejected
       DEF Publishing
  <1>2. ASSUME NEW e \in Event, RemoveEvent(e) \/ RemoveDone(e) \/ Marking(e)
        PROVE  DerivedInv'
    BY <1>2, KeepsRemoveEvent, KeepsRemoveDone, KeepsMarkDirty, KeepsSetPending,
       KeepsMarkBuffer, KeepsMarkLive, KeepsMarkSchedule
       DEF Marking
  <1>3. CASE Worker
    BY <1>3, KeepsRebuildHead, KeepsRebuildOpen, KeepsScanRead, KeepsScanFilter,
       KeepsScanFails, KeepsScanAborted, KeepsSwap, KeepsCheckDirty, KeepsClearPending,
       KeepsRecheckDirty, KeepsRelease, KeepsUnmarkReleased
       DEF Worker
  <1>4. CASE Startup
    BY <1>4, KeepsRecoverPending, KeepsRestore, KeepsRebuild, KeepsRebuildFails
       DEF Startup
  <1>5. CASE SaverPass \/ SaverFinal \/ DrainProcess \/ CrashAndRestart
    BY <1>5, KeepsSaverPass, KeepsSaverFinal, KeepsDrainProcess, KeepsCrashAndRestart
  <1>6. CASE UNCHANGED dvars
    BY <1>6, InvStutter
  <1> QED BY <1>1, <1>2, <1>3, <1>4, <1>5, <1>6, KeepsPersisting DEF DerivedNext

-----------------------------------------------------------------------------
(* The theorems.                                                           *)

\* The invariant holds of the relay from its start on, through every interleaving of accept paths, removals, the
\* rebuild worker, the saver, failed requests, drains and crashes.
THEOREM DerivedCorrect ==
  ~Preempted /\ ~DeleteEarly /\ DerivedSpec => []DerivedInv
  <1> SUFFICES ASSUME ~Preempted, ~DeleteEarly PROVE DerivedSpec => []DerivedInv
    OBVIOUS
  <1>1. DerivedInv /\ [DerivedNext]_dvars => DerivedInv'
    BY InvNext
  <1> QED BY InvInit, <1>1, PTL DEF DerivedSpec

\* Every variable of the derived state stays in its type: no task of the rebuild worker, of persist or of a removal
\* stands in a step the code does not have.
THEOREM TypeCorrect ==
  ~Preempted /\ ~DeleteEarly /\ DerivedSpec => []DerivedTypeOK
  <1>1. DerivedInv => DerivedTypeOK
    BY TypeSplit DEF DerivedInv
  <1> QED BY <1>1, DerivedCorrect, PTL

\* From the moment mark_group_state_stale_scope has marked the live store, the group of a removed event fails closed
\* until a rebuild without the event is swapped in; and no event refused at apply time gets into the live store, but
\* for one the scan's marker filter misjudged.
THEOREM AuthorityCorrect ==
  ~Preempted /\ ~DeleteEarly /\ DerivedSpec => []NoStaleAuthority
  <1>1. DerivedInv => NoStaleAuthority
    BY DEF DerivedInv, NoStaleAuthority, RefusedStaysOut, LiveInv, PathInv, RestOK, Applied
  <1> QED BY <1>1, DerivedCorrect, PTL

\* A snapshot whose generation is the one on disk, the one a restart restores, holds no removed event and misses no
\* confirmed one: persist never leaves behind a state that an accept, a removal or a scan has overtaken.
THEOREM SnapshotCorrect ==
  ~Preempted /\ ~DeleteEarly /\ DerivedSpec => []SnapshotTrue
  <1>1. DerivedInv => SnapshotTrue
    BY DEF DerivedInv, SnapInv
  <1> QED BY <1>1, DerivedCorrect, PTL

\* An event whose OK was sent and which nobody deleted is in the live store, or its group fails closed: no swap of
\* a rebuilt state and no restart loses it, but for one the scan's marker filter misjudged.
THEOREM AckedCorrect ==
  ~Preempted /\ ~DeleteEarly /\ DerivedSpec => []AckedStaysLive
  <1>1. DerivedInv => AckedStaysLive
    BY DEF DerivedInv, AckedStaysLive, LiveInv, Confirmed, FailsClosed
  <1> QED BY <1>1, DerivedCorrect, PTL
=============================================================================
