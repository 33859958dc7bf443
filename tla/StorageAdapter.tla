--------------------------- MODULE StorageAdapter ---------------------------
(***************************************************************************)
(* One node's storage adapter whole: LogStore and StateMachineStore over   *)
(* the one storage they share, driven by openraft the way a follower (or   *)
(* an old leader turned follower) drives it, and stopped and reopened at   *)
(* any point.                                                              *)
(*                                                                         *)
(* openraft and the rest of the cluster are external.  LeaderLog[t] is the *)
(* log of term t's leader at its longest; the node's log follows the       *)
(* leader of the term it last voted in.  A term no leader led repeats the  *)
(* log of the next.                                                        *)
(***************************************************************************)
EXTENDS LogStore, StateMachineStore

CONSTANTS
  LeaderLog,               \* term -> index -> the term of its entry, or Absent
  Overlap,                 \* may a snapshot be installed while one is being built?
  ReadFrom                 \* bound: the indexes a reader asks to read from

ASSUME LeaderLogAssumption ==
  /\ LeaderLog \in [Term -> [Index -> Term \cup {Absent}]]
  /\ Overlap \in BOOLEAN
  /\ ReadFrom \subseteq Index

\* Raft's log matching, which openraft and the other nodes answer for: a log
\* has no gaps, its terms never decrease, and two logs with the same entry at
\* an index are the same up to it.
ASSUME LeaderLogsMatch ==
  \A t, u \in Term : \A i \in Index : \A j \in 0 .. i :
    LeaderLog[t][i] # Absent =>
      /\ LeaderLog[t][j] # Absent /\ LeaderLog[t][j] <= LeaderLog[t][i]
      /\ LeaderLog[u][i] = LeaderLog[t][i] => LeaderLog[u][j] = LeaderLog[t][j]

VARIABLES
  promised,                \* ghost: the last vote openraft was told is saved
  acked,                   \* ghost: index -> the term acknowledged there, or Absent
  known,                   \* the log id of openraft's newest snapshot
  owed                     \* the purge openraft queued behind an installation, or none

logVars   == <<meta, core, reader>>
smVars    == <<sm, snapshot, worker, builder>>
raftVars  == <<promised, acked, known, owed>>
vars      == <<disk, lock, failed, logVars, smVars, raftVars>>

Init ==
  /\ disk = [meta |-> NoMeta, logs |-> NoEntries, snap |-> NoSnapshot]
  /\ lock = AllFree
  /\ failed = FALSE
  /\ meta = NoMeta /\ core = IdleCore /\ reader = IdleReader
  /\ sm = FreshState /\ snapshot = NoSnapshot
  /\ worker = IdleWorker /\ builder = IdleBuilder
  /\ promised = 0 /\ acked = NoEntries /\ known = NoLogId /\ owed = NoLogId

-----------------------------------------------------------------------------
(* The leader's log, and what of the node's log agrees with it.            *)

Entry(i) == LeaderLog[meta.vote][i]

\* The indexes a leader of this term or a later one never disagrees on.
Committable(t) ==
  {i \in Index : \A j \in 0 .. i : \A u \in Term :
     u >= t => LeaderLog[u][j] # Absent /\ LeaderLog[u][j] = LeaderLog[t][j]}

\* The last index the log holds or the snapshot stands for.
LogEnd == IF meta.last_purged.index > meta.last_log_id.index
        THEN meta.last_purged.index ELSE meta.last_log_id.index

Readable(m, i) == m.last_purged.index < i /\ i <= m.last_log_id.index

Conflicts == {i \in Index : Readable(meta, i) /\ disk.logs[i] # Entry(i)}

\* Past every index committed here: those the application has reached or was
\* told to reach, and those the log was purged of.
BeyondCommitted(i) ==
  \A c \in {sm.last_applied.index, worker.upto, worker.snap.last_log_id.index,
            meta.last_purged.index} : c < i

IdAt(i) == IF i = meta.last_purged.index THEN meta.last_purged
           ELSE [term |-> disk.logs[i], index |-> i]

\* The application after the log every later leader shares, up to index i.
Final == LeaderLog[MaxTerm]
Replay[i \in -1 .. MaxIndex] ==
  IF i = -1 THEN FreshState ELSE ApplyEntry(Replay[i - 1], [term |-> Final[i], index |-> i])

SentSnapshot(i) ==
  [last_log_id |-> [term |-> Final[i], index |-> i],
   last_membership |-> Replay[i].membership, app |-> Replay[i].app]

-----------------------------------------------------------------------------
(* What openraft asks of the log store.  Its commands run in order, so     *)
(* nothing else is asked while a purge waits for its snapshot.             *)

RequestVote ==
  /\ owed = NoLogId
  /\ \E t \in Term : /\ t > meta.vote
                     /\ Call("vote", [term |-> t, index |-> -1], NoEntries, 0)
  /\ UNCHANGED <<disk, lock, failed, meta, reader, smVars, raftVars>>

RequestAppend ==
  /\ owed = NoLogId /\ Conflicts = {}
  /\ \E last \in Index :
       /\ last > LogEnd
       /\ \A i \in LogEnd + 1 .. last : Entry(i) # Absent
       /\ Call("append", [term |-> Entry(last), index |-> last],
               [i \in Index |-> IF LogEnd < i /\ i <= last THEN Entry(i) ELSE Absent], LogEnd + 1)
  /\ UNCHANGED <<disk, lock, failed, meta, reader, smVars, raftVars>>

\* The leader's entry at `c` is not the node's: the log is cut before it.
RequestTruncate ==
  /\ owed = NoLogId
  /\ \E c \in Conflicts :
       /\ \A i \in Conflicts : c <= i
       /\ BeyondCommitted(c) /\ Entry(c) # Absent
       /\ Call("truncate", IF c = 0 THEN NoLogId ELSE IdAt(c - 1), NoEntries, 0)
       /\ acked' = [i \in Index |-> IF i < c THEN acked[i] ELSE Absent]
  /\ UNCHANGED <<disk, lock, failed, meta, reader, smVars, promised, known, owed>>

\* Up to a snapshot openraft knows of, or some way short of it.
RequestPurge ==
  /\ \/ /\ owed # NoLogId /\ known = owed
        /\ Call("purge", owed, NoEntries, 0)
     \/ /\ owed = NoLogId /\ Conflicts = {}
        /\ \E i \in Index :
             /\ Readable(meta, i) /\ i <= known.index
             /\ Call("purge", IdAt(i), NoEntries, 0)
  /\ owed' = NoLogId
  /\ UNCHANGED <<disk, lock, failed, meta, reader, smVars, promised, acked, known>>

RequestRead ==
  /\ \E start \in ReadFrom : ReadRequest(start, MaxIndex + 1)
  /\ UNCHANGED <<smVars, raftVars>>

-----------------------------------------------------------------------------
(* What openraft asks of the state machine store.                          *)

RequestApply ==
  /\ ~failed /\ owed = NoLogId /\ Conflicts = {}
  /\ \E upto \in Committable(meta.vote) :
       sm.last_applied.index < upto /\ upto <= meta.last_log_id.index /\ ApplyRequest(upto)
  /\ UNCHANGED <<disk, lock, failed, logVars, raftVars>>

\* A snapshot from the leader, past everything committed here.  openraft cuts
\* the log first when it holds another entry at the snapshot's index, and
\* queues the purge that follows.
RequestInstall ==
  /\ ~failed /\ owed = NoLogId /\ core.pc = "idle"
  /\ Overlap \/ builder.pc = "idle"
  /\ \E i \in Committable(meta.vote) :
       /\ BeyondCommitted(i) /\ i > known.index /\ i \notin Conflicts
       /\ InstallRequest(SentSnapshot(i))
       /\ owed' = SentSnapshot(i).last_log_id
  /\ UNCHANGED <<disk, lock, failed, logVars, promised, acked, known>>

\* The worker hands the build to a task of its own.
RequestBuild ==
  /\ ~failed /\ worker.pc = "idle" /\ owed = NoLogId
  /\ sm.last_applied.index > known.index
  /\ BuildRequest
  /\ UNCHANGED <<disk, lock, failed, logVars, raftVars>>

-----------------------------------------------------------------------------
(* The stores' own steps, with what openraft learns from those that return.*)

Later(a, b) == IF a.index < b.index THEN b ELSE a

SavePositionsReturns ==
  /\ SavePositions
  /\ promised' = IF core.op = "vote" THEN core.id.term ELSE promised
  /\ acked' = IF core.op = "append"
              THEN [i \in Index |-> IF core.entries[i] # Absent THEN core.entries[i] ELSE acked[i]]
              ELSE acked
  /\ UNCHANGED <<smVars, known, owed>>

CoreStep ==
  \/ /\ CoreTakesMeta \/ CoreTakesStorage \/ AppendEntry \/ DeleteLogs
     /\ UNCHANGED <<smVars, raftVars>>
  \/ SavePositionsReturns

CoreFailure == CoreFails /\ UNCHANGED <<smVars, raftVars>>

ReaderStep ==
  /\ ReaderTakesMeta \/ ReaderTakesStorage \/ ReaderReads
  /\ UNCHANGED <<smVars, raftVars>>

WorkerStep ==
  /\ \/ /\ \/ ApplyTakesState \/ StreamTakesMeta \/ StreamTakesStorage
           \/ ApplyNext \/ ApplyReturns
           \/ InstallTakesSnapshot \/ InstallTakesStorage \/ InstallPersists
        /\ UNCHANGED known
     \/ /\ InstallReturns
        /\ known' = Later(known, worker.snap.last_log_id)
  /\ UNCHANGED <<failed, logVars, promised, acked, owed>>

\* The stream's read of the next entry returned an error: the entry is not
\* there, or does not parse.  apply gives it back and openraft stops the node.
StreamFails ==
  /\ worker.pc = "read"
  /\ ~Whole(disk.logs[NextApplied])
  /\ worker' = IdleWorker
  /\ Release({"sm", "meta", "storage"})
  /\ failed' = TRUE
  /\ UNCHANGED <<disk, logVars, sm, snapshot, builder, raftVars>>

BuilderStep ==
  /\ \/ /\ BuildCaptures \/ BuildTakesSnapshot \/ BuildTakesStorage
        /\ UNCHANGED known
     \/ /\ BuildReturns
        /\ known' = Later(known, builder.snap.last_log_id)
  /\ UNCHANGED <<failed, logVars, promised, acked, owed>>

\* A snapshot's persist returned an error: nothing is cached, the state is
\* not replaced, openraft stops the node.
SnapshotFails ==
  /\ \/ /\ worker.pc = "persist"
        /\ disk' \in Interrupted(disk, SnapshotOp(worker.snap))
        /\ worker' = IdleWorker
        /\ UNCHANGED builder
     \/ /\ builder.pc = "persist"
        /\ disk' \in Interrupted(disk, SnapshotOp(builder.snap))
        /\ builder' = IdleBuilder
        /\ UNCHANGED worker
  /\ Release({"snapshot", "storage"})
  /\ failed' = TRUE
  /\ UNCHANGED <<logVars, sm, snapshot, raftVars>>

-----------------------------------------------------------------------------
(* The node stops, perhaps inside a persist, and is opened again.          *)

\* The persists storage is inside of: one at most, for they hold its mutex.
UnderWay ==
  (IF Persisting THEN {CorePersist} ELSE {})
    \cup {SnapshotOp(w.snap) : w \in {w \in {worker, builder} : w.pc = "persist"}}

\* What storage may load after stopping now.
Survivors == {disk} \cup UNION {Interrupted(disk, op) : op \in UnderWay}

\* `open`: one load fills both stores; openraft then purges a log that ends
\* before the state it found, unless it is purged that far.
Restart ==
  /\ disk' \in Survivors
  /\ meta' = disk'.meta
  /\ snapshot' = disk'.snap /\ sm' = RestoredState(disk'.snap)
  /\ known' = disk'.snap.last_log_id
  /\ owed' = IF \/ LogIdLeq(known', meta'.last_log_id)
                \/ known'.index <= meta'.last_purged.index
             THEN NoLogId ELSE known'
  /\ lock' = AllFree /\ failed' = FALSE
  /\ core' = IdleCore /\ reader' = IdleReader
  /\ worker' = IdleWorker /\ builder' = IdleBuilder
  /\ UNCHANGED <<promised, acked>>

Requests ==
  \/ RequestVote \/ RequestAppend \/ RequestTruncate \/ RequestPurge \/ RequestRead
  \/ RequestApply \/ RequestInstall \/ RequestBuild

Next == Requests \/ CoreStep \/ ReaderStep \/ WorkerStep \/ BuilderStep
        \/ CoreFailure \/ StreamFails \/ SnapshotFails \/ Restart

Spec == Init /\ [][Next]_vars

-----------------------------------------------------------------------------
(* Type correctness.                                                       *)

DiskType == [meta : EzMeta, logs : [Index -> Cell], snap : Snapshot]

\* Every variable holds a value of its type, and a mutex is free or a task's.
TypeOK ==
  /\ disk \in DiskType
  /\ lock \in [Mutex -> Task \cup {"free"}]
  /\ failed \in BOOLEAN
  /\ meta \in EzMeta /\ core \in CoreType /\ reader \in ReaderType
  /\ sm \in StateMachineState /\ snapshot \in Snapshot
  /\ worker \in WorkerType /\ builder \in BuilderType
  /\ promised \in Term /\ acked \in [Index -> Term \cup {Absent}]
  /\ known \in LogId /\ owed \in LogId

-----------------------------------------------------------------------------
(* Safety.                                                                 *)

\* The two positions never promise what storage does not have: every index
\* after the purge point up to the last log id holds a whole entry, on disk
\* whatever was cut short, and under the cached metadata a reader clamps to.
ReachableWhole ==
  \A i \in Index : Readable(disk.meta, i) \/ Readable(meta, i) => Whole(disk.logs[i])

\* An entry whose append was called back with Ok, and that no leader has
\* overwritten, is what a restart finds at its index - or the log is purged
\* past it.
AckedSurvive ==
  \A i \in Index : acked[i] # Absent =>
    \/ i <= disk.meta.last_purged.index
    \/ i <= disk.meta.last_log_id.index /\ disk.logs[i] = acked[i]

\* What the log no longer holds, the stored snapshot covers: a purge point
\* past the durable snapshot is the state no restart recovers from.
PurgeCovered == disk.meta.last_purged.index <= disk.snap.last_log_id.index

\* openraft rejects a store whose last log id is before its purge point.
PositionsOrdered == LogIdLeq(disk.meta.last_purged, disk.meta.last_log_id)

\* No vote openraft was told is saved is lost, whichever call wrote the
\* metadata last and wherever the node stopped.
VoteKept == promised <= disk.meta.vote

\* A reader or the applied stream that has taken its locks and clamped its
\* range finds every entry of it, until it gives the locks up.
ReadsFindWhole ==
  /\ reader.pc = "read" =>
       \A i \in Index : reader.start <= i /\ i < reader.end => Whole(disk.logs[i])
  /\ worker.pc = "read" => Whole(disk.logs[NextApplied]) /\ Readable(meta, NextApplied)

\* Position, membership and data belong together: in the running state, in
\* the snapshot served to followers and in the one a restart loads, the
\* application is what applying the log up to the position makes it.
At(i, position, membership, app) ==
  Replay[i] = [last_applied |-> position, membership |-> membership, app |-> app]
StateCoversPosition ==
  /\ At(sm.last_applied.index, sm.last_applied, sm.membership, sm.app)
  /\ \A s \in {snapshot, disk.snap, builder.snap} :
       At(s.last_log_id.index, s.last_log_id, s.last_membership, s.app)

\* The readable log is one leader's: an entry left behind by an append or a
\* truncation that was cut short never comes back among later ones.
LogIsOneLeaders ==
  \E t \in Term : \A i \in Index : Readable(disk.meta, i) => disk.logs[i] = LeaderLog[t][i]

-----------------------------------------------------------------------------
(* Liveness.  A task that can go on does: a persist returns, and tokio's   *)
(* mutex hands itself to waiters in the order they came, so a task waiting *)
(* for one that is given up again and again gets it.  openraft runs the    *)
(* purge it queued.  No request is ever owed, and the node may stop at any *)
(* time.                                                                   *)

Fairness ==
  /\ SF_vars(CoreStep) /\ SF_vars(ReaderStep)
  /\ SF_vars(WorkerStep \/ StreamFails) /\ SF_vars(BuilderStep)
  /\ WF_vars(RequestPurge /\ owed # NoLogId)

FairSpec == Spec /\ Fairness

\* Every call into the two stores returns, whatever runs beside it: the order
\* the mutexes are taken in lets no two tasks wait for each other.
CallsReturn ==
  /\ core.pc # "idle" ~> core.pc = "idle"
  /\ reader.pc # "idle" ~> reader.pc = "idle"
  /\ worker.pc # "idle" ~> worker.pc = "idle"
  /\ builder.pc # "idle" ~> builder.pc = "idle"

\* The purge an installation is followed by is not blocked for ever, and with
\* it every later call: the installation returns and the purge is taken up.
\* Only a node that is stopping leaves it.
PurgeFollowsInstall == owed # NoLogId ~> (owed = NoLogId \/ failed)
=============================================================================
