------------------------- MODULE StateMachineStore -------------------------
(***************************************************************************)
(* The state machine half of the storage adapter                           *)
(* (storage/adapter/state_machine.rs): the application, what it has        *)
(* applied, and its snapshot.                                              *)
(*                                                                         *)
(* openraft's state machine worker runs apply and install_snapshot one at  *)
(* a time; a snapshot is built by a task of its own beside it.  Entries    *)
(* reach `apply` as a stream that reads the log while the application's    *)
(* mutex is held, so a batch takes sm, then meta, then storage.            *)
(***************************************************************************)
EXTENDS SharedStorage, Sequences

CONSTANTS
  NormalIds,               \* the log ids whose entry is a request of the application
  MembershipIds            \* the log ids whose entry is a membership config; the rest are blank

ASSUME KindsAssumption == NormalIds \subseteq LogId /\ MembershipIds \subseteq LogId

VARIABLES
  sm,                      \* StateMachineState: [last_applied, membership, app]
  snapshot,                \* the cached snapshot, the one last written or loaded
  worker,                  \* the worker's job: [op, pc, upto, snap]
  builder                  \* the snapshot being built: [pc, snap]

\* The application is the sequence of requests it has applied; a snapshot's
\* data is that sequence, serialized.
App == Seq(LogId)
StateMachineState == [last_applied : LogId, membership : LogId, app : App]
Snapshot == [last_log_id : LogId, last_membership : LogId, app : App]

FreshState == [last_applied |-> NoLogId, membership |-> NoLogId, app |-> <<>>]
NoSnapshot == [last_log_id |-> NoLogId, last_membership |-> NoLogId, app |-> <<>>]

WorkerType == [op : {"none", "apply", "install"},
               pc : {"idle", "sm", "next", "meta", "storage", "read", "snapshot", "persist", "state"},
               upto : -1 .. MaxIndex, snap : Snapshot]
IdleWorker == [op |-> "none", pc |-> "idle", upto |-> -1, snap |-> NoSnapshot]

BuilderType == [pc : {"idle", "sm", "snapshot", "storage", "persist"}, snap : Snapshot]
IdleBuilder == [pc |-> "idle", snap |-> NoSnapshot]

\* Mutant of RestoredState: the position is restored, the data is not.
RestoredStatePositionOnly(snap) ==
  [last_applied |-> snap.last_log_id, membership |-> snap.last_membership, app |-> <<>>]

\* `StateMachineStore::new`: the state of the loaded snapshot, data and
\* position; a fresh application when there is none.
RestoredState(snap) ==
  [last_applied |-> snap.last_log_id, membership |-> snap.last_membership, app |-> snap.app]

\* One entry of the batch: the position for every entry, then by its kind.
ApplyEntry(state, id) ==
  [last_applied |-> id,
   membership   |-> IF id \in MembershipIds THEN id ELSE state.membership,
   app          |-> IF id \in NormalIds THEN Append(state.app, id) ELSE state.app]

-----------------------------------------------------------------------------
(* apply.                                                                  *)

ApplyRequest(upto) ==
  /\ worker.pc = "idle"
  /\ worker' = [IdleWorker EXCEPT !.op = "apply", !.pc = "sm", !.upto = upto]
  /\ UNCHANGED <<sm, snapshot, builder>>

ApplyTakesState ==
  /\ worker.pc = "sm"
  /\ Acquire("sm", "worker")
  /\ worker' = [worker EXCEPT !.pc = "next"]
  /\ UNCHANGED <<disk, sm, snapshot, builder>>

NextApplied == sm.last_applied.index + 1

StreamTakesMeta ==
  /\ worker.pc = "next" /\ NextApplied <= worker.upto
  /\ Acquire("meta", "worker")
  /\ worker' = [worker EXCEPT !.pc = "meta"]
  /\ UNCHANGED <<disk, sm, snapshot, builder>>

StreamTakesStorage ==
  /\ worker.pc = "meta"
  /\ Acquire("storage", "worker")
  /\ worker' = [worker EXCEPT !.pc = "read"]
  /\ UNCHANGED <<disk, sm, snapshot, builder>>

ApplyNext ==
  /\ worker.pc = "read"
  /\ Whole(disk.logs[NextApplied])
  /\ sm' = ApplyEntry(sm, [term |-> disk.logs[NextApplied], index |-> NextApplied])
  /\ worker' = [worker EXCEPT !.pc = "next"]
  /\ Release({"meta", "storage"})
  /\ UNCHANGED <<disk, snapshot, builder>>

ApplyReturns ==
  /\ worker.pc = "next" /\ NextApplied > worker.upto
  /\ worker' = IdleWorker
  /\ Release({"sm"})
  /\ UNCHANGED <<disk, sm, snapshot, builder>>

-----------------------------------------------------------------------------
(* install_snapshot: the snapshot is stored and cached under one hold of   *)
(* its mutex; only then is the state replaced, under the other's.          *)

\* Bytes that do not parse are refused before anything keeps them; what openraft
\* then does is SnapshotFails of StorageAdapter, which comes of any error here.
Parses(snap) == snap \in Snapshot

InstallRequest(snap) ==
  /\ worker.pc = "idle"
  /\ Parses(snap)
  /\ worker' = [IdleWorker EXCEPT !.op = "install", !.pc = "snapshot", !.snap = snap]
  /\ UNCHANGED <<sm, snapshot, builder>>

InstallTakesSnapshot ==
  /\ worker.pc = "snapshot"
  /\ Acquire("snapshot", "worker")
  /\ worker' = [worker EXCEPT !.pc = "storage"]
  /\ UNCHANGED <<disk, sm, snapshot, builder>>

InstallTakesStorage ==
  /\ worker.pc = "storage"
  /\ Acquire("storage", "worker")
  /\ worker' = [worker EXCEPT !.pc = "persist"]
  /\ UNCHANGED <<disk, sm, snapshot, builder>>

\* Mutant of InstallPersists: the snapshot's mutex is taken again to fill the
\* cache.
InstallPersistsRelocks ==
  /\ worker.pc = "persist"
  /\ disk' = Apply(disk, SnapshotOp(worker.snap))
  /\ worker' = [worker EXCEPT !.pc = "snapshot"]
  /\ Release({"storage"})
  /\ UNCHANGED <<sm, snapshot, builder>>

InstallPersists ==
  /\ worker.pc = "persist"
  /\ disk' = Apply(disk, SnapshotOp(worker.snap))
  /\ snapshot' = worker.snap
  /\ worker' = [worker EXCEPT !.pc = "state"]
  /\ Release({"snapshot", "storage"})
  /\ UNCHANGED <<sm, builder>>

InstallReturns ==
  /\ worker.pc = "state"
  /\ lock["sm"] = "free"
  /\ sm' = RestoredState(worker.snap)
  /\ worker' = IdleWorker
  /\ UNCHANGED <<disk, lock, snapshot, builder>>

-----------------------------------------------------------------------------
(* build_snapshot: position and data are captured together, under the      *)
(* state's mutex; it is given up before the snapshot's is taken.           *)

BuildRequest ==
  /\ builder.pc = "idle"
  /\ builder' = [IdleBuilder EXCEPT !.pc = "sm"]
  /\ UNCHANGED <<sm, snapshot, worker>>

Captured == [last_log_id |-> sm.last_applied, last_membership |-> sm.membership, app |-> sm.app]

BuildCaptures ==
  /\ builder.pc = "sm"
  /\ lock["sm"] = "free"
  /\ builder' = [pc |-> "snapshot", snap |-> Captured]
  /\ UNCHANGED <<disk, lock, sm, snapshot, worker>>

BuildTakesSnapshot ==
  /\ builder.pc = "snapshot"
  /\ Acquire("snapshot", "builder")
  /\ builder' = [builder EXCEPT !.pc = "storage"]
  /\ UNCHANGED <<disk, sm, snapshot, worker>>

BuildTakesStorage ==
  /\ builder.pc = "storage"
  /\ Acquire("storage", "builder")
  /\ builder' = [builder EXCEPT !.pc = "persist"]
  /\ UNCHANGED <<disk, sm, snapshot, worker>>

\* Mutant of BuildReturns: the snapshot is cached, and not stored.
BuildReturnsUnstored ==
  /\ builder.pc = "persist"
  /\ snapshot' = builder.snap
  /\ builder' = IdleBuilder
  /\ Release({"snapshot", "storage"})
  /\ UNCHANGED <<disk, sm, worker>>

BuildReturns ==
  /\ builder.pc = "persist"
  /\ disk' = Apply(disk, SnapshotOp(builder.snap))
  /\ snapshot' = builder.snap
  /\ builder' = IdleBuilder
  /\ Release({"snapshot", "storage"})
  /\ UNCHANGED <<sm, worker>>
=============================================================================
