---------------------- MODULE StorageAdapterLog_proofs ----------------------
(***************************************************************************)
(* What the adapter keeps of the cluster's log, for every log length,      *)
(* every number of terms and every history of leaders: what was            *)
(* acknowledged, what was applied, and what a reader is promised.          *)
(***************************************************************************)
EXTENDS StorageAdapter_proofs, FiniteSetTheorems

-----------------------------------------------------------------------------
(* Who holds which mutex.                                                  *)

\* A task that is past taking a mutex, and has not given it up, is its holder.
LocksHeld ==
  /\ core.pc \in {"storage", "entries", "positions", "delete"} => lock["meta"] = "core"
  /\ Persisting => lock["storage"] = "core"
  /\ reader.pc \in {"storage", "read"} => lock["meta"] = "reader"
  /\ reader.pc = "read" => lock["storage"] = "reader"
  /\ worker.pc \in {"next", "meta", "read"} => lock["sm"] = "worker"
  /\ worker.pc \in {"meta", "read"} => lock["meta"] = "worker"
  /\ worker.pc \in {"read", "persist"} => lock["storage"] = "worker"
  /\ worker.pc \in {"storage", "persist"} => lock["snapshot"] = "worker"
  /\ builder.pc \in {"storage", "persist"} => lock["snapshot"] = "builder"
  /\ builder.pc = "persist" => lock["storage"] = "builder"

\* The range a reader has clamped is readable for as long as it reads.
RangeInv ==
  reader.pc = "read" => \A i \in Index : reader.start <= i /\ i < reader.end => Readable(meta, i)

\* A job's kind and its stage go together.
JobInv ==
  /\ worker.op = "none" => worker = IdleWorker
  /\ worker.op = "apply" => worker.pc \in {"sm", "next", "meta", "read"} /\ worker.snap = NoSnapshot
  /\ worker.op = "install" =>
       worker.pc \in {"snapshot", "storage", "persist", "state"} /\ worker.upto = -1

TaskInv == LocksHeld /\ RangeInv /\ JobInv

\* Taking a free mutex takes it from nobody; giving some up leaves the others.
LEMMA Locking ==
  ASSUME IInv
  PROVE  /\ \A m \in Mutex, t \in Task : Acquire(m, t) =>
              lock[m] = "free" /\ lock'[m] = t /\ \A n \in Mutex : n # m => lock'[n] = lock[n]
         /\ \A ms : Release(ms) => \A n \in Mutex : n \notin ms => lock'[n] = lock[n]
BY DEF IInv, TypeOK, Acquire, Release, Released

\* A call and a reader keep to their mutexes.
LEMMA LogTasks ==
  ASSUME IInv, TaskInv,
         RequestVote \/ RequestAppend \/ RequestTruncate \/ RequestPurge \/ RequestRead
           \/ CoreStep \/ CoreFailure \/ ReaderStep
  PROVE  LocksHeld' /\ JobInv'
<1> USE Locking DEF Mutex, Task, Persisting
<1>1. UNCHANGED <<worker, builder>>
  BY DEF RequestVote, RequestAppend, RequestTruncate, RequestPurge, RequestRead, CoreStep,
         SavePositionsReturns, CoreFailure, ReaderStep, smVars
<1>2. JobInv'
  BY <1>1 DEF TaskInv, JobInv
<1>3. CASE RequestVote \/ RequestAppend \/ RequestTruncate \/ RequestPurge
  <2>1. core'.pc = "meta" /\ UNCHANGED <<lock, reader>>
    BY <1>3 DEF RequestVote, RequestAppend, RequestTruncate, RequestPurge, Call
  <2>2. QED
    BY <1>1, <1>2, <2>1 DEF TaskInv, LocksHeld
<1>4. CASE RequestRead
  <2>1. reader'.pc = "meta" /\ UNCHANGED <<lock, core>>
    BY <1>4 DEF RequestRead, ReadRequest
  <2>2. QED
    BY <1>1, <1>2, <2>1 DEF TaskInv, LocksHeld
<1>5. CASE CoreTakesMeta \/ CoreTakesStorage
  <2>1. UNCHANGED reader
    BY <1>5 DEF CoreTakesMeta, CoreTakesStorage
  <2>2. \/ /\ core.pc = "meta" /\ core'.pc = "storage" /\ Acquire("meta", "core")
        \/ /\ core.pc = "storage" /\ core'.pc \in {"entries", "positions"}
           /\ Acquire("storage", "core")
    BY <1>5 DEF CoreTakesMeta, CoreTakesStorage, NextStage, IInv, TypeOK, CoreType
  <2>3. QED
    BY <1>1, <1>2, <2>1, <2>2 DEF TaskInv, LocksHeld
<1>6. CASE AppendEntry
  <2>1. UNCHANGED <<lock, reader>> /\ core.pc = "entries" /\ core'.pc \in {"entries", "positions"}
    BY <1>6, NextEntryFacts DEF AppendEntry, NextStage, IInv, TypeOK, CoreType
  <2>2. QED
    BY <1>1, <1>2, <2>1 DEF TaskInv, LocksHeld
<1>7. CASE SavePositionsReturns \/ DeleteLogs \/ CoreFailure
  <2>1. UNCHANGED reader /\ Persisting
    BY <1>7 DEF SavePositionsReturns, SavePositions, DeleteLogs, CoreFailure, CoreFails
  <2>2. \/ core'.pc = "idle" /\ Release({"meta", "storage"})
        \/ core'.pc = "delete" /\ UNCHANGED lock
    BY <1>7
       DEF SavePositionsReturns, SavePositions, DeleteLogs, CoreFailure, CoreFails, GoTo, NextStage,
           IdleCore, IInv, TypeOK, CoreType
  <2>3. QED
    BY <1>1, <1>2, <2>1, <2>2 DEF TaskInv, LocksHeld
<1>8. CASE ReaderStep
  <2>1. UNCHANGED core
    BY <1>8 DEF ReaderStep, ReaderTakesMeta, ReaderTakesStorage, ReaderReads
  <2>2. \/ reader.pc = "meta" /\ reader'.pc = "storage" /\ Acquire("meta", "reader")
        \/ reader.pc = "storage" /\ reader'.pc = "read" /\ Acquire("storage", "reader")
        \/ reader.pc = "read" /\ reader'.pc = "idle" /\ Release({"meta", "storage"})
    BY <1>8
       DEF ReaderStep, ReaderTakesMeta, ReaderTakesStorage, ReaderReads, IdleReader, IInv, TypeOK,
           ReaderType
  <2>3. QED
    BY <1>1, <1>2, <2>1, <2>2 DEF TaskInv, LocksHeld
<1>9. QED
  BY <1>3, <1>4, <1>5, <1>6, <1>7, <1>8 DEF CoreStep

\* The worker and the builder keep to theirs.
LEMMA SmTasks ==
  ASSUME IInv, TaskInv,
         RequestApply \/ RequestInstall \/ RequestBuild \/ WorkerStep \/ BuilderStep
           \/ StreamFails \/ SnapshotFails
  PROVE  LocksHeld' /\ JobInv'
<1> USE Locking DEF Mutex, Task, Persisting
<1>1. UNCHANGED <<core, reader>>
  BY DEF RequestApply, RequestInstall, RequestBuild, WorkerStep, BuilderStep, StreamFails,
         SnapshotFails, logVars
<1>2. worker \in WorkerType /\ builder \in BuilderType
  BY DEF IInv, TypeOK
<1>3. CASE RequestApply \/ RequestInstall \/ RequestBuild
  <2>1. /\ UNCHANGED lock
        /\ \/ /\ worker.pc = "idle" /\ worker'.op = "apply" /\ worker'.pc = "sm"
              /\ worker'.snap = NoSnapshot /\ UNCHANGED builder
           \/ /\ worker.pc = "idle" /\ worker'.op = "install" /\ worker'.pc = "snapshot"
              /\ worker'.upto = -1 /\ UNCHANGED builder
           \/ builder.pc = "idle" /\ builder'.pc = "sm" /\ UNCHANGED worker
    BY <1>3
       DEF RequestApply, RequestInstall, RequestBuild, ApplyRequest, InstallRequest, BuildRequest,
           IdleWorker, IdleBuilder
  <2>2. QED
    BY <1>1, <2>1 DEF TaskInv, LocksHeld, JobInv
<1>4. CASE WorkerStep
  <2>1. UNCHANGED builder
    BY <1>4
       DEF WorkerStep, ApplyTakesState, StreamTakesMeta, StreamTakesStorage, ApplyNext,
           ApplyReturns, InstallTakesSnapshot, InstallTakesStorage, InstallPersists, InstallReturns
  <2>2. CASE ApplyTakesState \/ StreamTakesMeta \/ StreamTakesStorage \/ ApplyNext \/ ApplyReturns
    <3>1. \/ worker' = IdleWorker
          \/ worker' = [worker EXCEPT !.pc = worker'.pc] /\ worker'.pc \in {"next", "meta", "read"}
      BY <1>2, <2>2
         DEF ApplyTakesState, StreamTakesMeta, StreamTakesStorage, ApplyNext, ApplyReturns, WorkerType
    <3>2. \/ worker.pc = "sm" /\ worker'.pc = "next" /\ Acquire("sm", "worker")
          \/ worker.pc = "next" /\ worker'.pc = "meta" /\ Acquire("meta", "worker")
          \/ worker.pc = "meta" /\ worker'.pc = "read" /\ Acquire("storage", "worker")
          \/ worker.pc = "read" /\ worker'.pc = "next" /\ Release({"meta", "storage"})
          \/ worker.pc = "next" /\ worker'.pc = "idle" /\ Release({"sm"})
      BY <1>2, <2>2
         DEF ApplyTakesState, StreamTakesMeta, StreamTakesStorage, ApplyNext, ApplyReturns,
             WorkerType, IdleWorker
    <3>3. LocksHeld'
      BY <1>1, <2>1, <3>2 DEF TaskInv, LocksHeld
    <3>4. JobInv'
      BY <1>2, <3>1, <3>2 DEF TaskInv, JobInv, WorkerType, IdleWorker
    <3>5. QED
      BY <3>3, <3>4
  <2>3. CASE InstallTakesSnapshot \/ InstallTakesStorage \/ InstallPersists \/ InstallReturns
    <3>1. \/ worker' = IdleWorker
          \/ /\ worker' = [worker EXCEPT !.pc = worker'.pc]
             /\ worker'.pc \in {"storage", "persist", "state"}
      BY <1>2, <2>3
         DEF InstallTakesSnapshot, InstallTakesStorage, InstallPersists, InstallReturns, WorkerType
    <3>2. \/ worker.pc = "snapshot" /\ worker'.pc = "storage" /\ Acquire("snapshot", "worker")
          \/ worker.pc = "storage" /\ worker'.pc = "persist" /\ Acquire("storage", "worker")
          \/ worker.pc = "persist" /\ worker'.pc = "state" /\ Release({"snapshot", "storage"})
          \/ worker.pc = "state" /\ worker'.pc = "idle" /\ UNCHANGED lock
      BY <1>2, <2>3
         DEF InstallTakesSnapshot, InstallTakesStorage, InstallPersists, InstallReturns,
             WorkerType, IdleWorker
    <3>3. LocksHeld'
      BY <1>1, <2>1, <3>2 DEF TaskInv, LocksHeld
    <3>4. JobInv'
      BY <1>2, <3>1, <3>2 DEF TaskInv, JobInv, WorkerType, IdleWorker
    <3>5. QED
      BY <3>3, <3>4
  <2>4. QED
    BY <1>4, <2>2, <2>3 DEF WorkerStep
<1>5. CASE BuilderStep
  <2>1. UNCHANGED worker
    BY <1>5 DEF BuilderStep, BuildCaptures, BuildTakesSnapshot, BuildTakesStorage, BuildReturns
  <2>2. \/ builder.pc = "sm" /\ builder'.pc = "snapshot" /\ UNCHANGED lock
        \/ builder.pc = "snapshot" /\ builder'.pc = "storage" /\ Acquire("snapshot", "builder")
        \/ builder.pc = "storage" /\ builder'.pc = "persist" /\ Acquire("storage", "builder")
        \/ builder.pc = "persist" /\ builder'.pc = "idle" /\ Release({"snapshot", "storage"})
    BY <1>2, <1>5
       DEF BuilderStep, BuildCaptures, BuildTakesSnapshot, BuildTakesStorage, BuildReturns,
           BuilderType, IdleBuilder
  <2>3. QED
    BY <1>1, <2>1, <2>2 DEF TaskInv, LocksHeld, JobInv
<1>6. CASE StreamFails \/ SnapshotFails
  <2>1. \/ /\ worker.pc = "read" /\ worker' = IdleWorker /\ UNCHANGED builder
           /\ Release({"sm", "meta", "storage"})
        \/ /\ worker.pc = "persist" /\ worker' = IdleWorker /\ UNCHANGED builder
           /\ Release({"snapshot", "storage"})
        \/ /\ builder.pc = "persist" /\ builder' = IdleBuilder /\ UNCHANGED worker
           /\ Release({"snapshot", "storage"})
    BY <1>6 DEF StreamFails, SnapshotFails
  <2>2. QED
    BY <1>1, <2>1 DEF TaskInv, LocksHeld, JobInv, IdleWorker, IdleBuilder
<1>7. QED
  BY <1>3, <1>4, <1>5, <1>6

\* What is readable changes only with the metadata, and that under its mutex.
LEMMA RangeKept ==
  ASSUME IInv, TaskInv, [Next]_vars
  PROVE  RangeInv'
<1>1. CASE UNCHANGED <<meta, reader>>
  BY <1>1 DEF TaskInv, RangeInv, Readable
<1>2. CASE Restart
  BY <1>2 DEF Restart, RangeInv, IdleReader
<1>3. CASE core.pc = "positions" /\ UNCHANGED reader
  BY <1>3 DEF TaskInv, LocksHeld, RangeInv, Persisting
<1>4. CASE RequestRead \/ ReaderTakesMeta \/ ReaderReads
  BY <1>4
     DEF RequestRead, ReadRequest, ReaderTakesMeta, ReaderReads, IdleReader, RangeInv, IInv, TypeOK,
         ReaderType
<1>5. CASE ReaderTakesStorage
  <2>1. /\ UNCHANGED meta
        /\ reader'.start = Clamp(reader.start, reader.end).start
        /\ reader'.end = Clamp(reader.start, reader.end).end
    BY <1>5 DEF ReaderTakesStorage
  <2>2. /\ meta.last_purged.index \in Int /\ meta.last_log_id.index \in Int
        /\ reader.start \in Int /\ reader.end \in Int
    BY MaxIndexAssumption DEF IInv, TypeOK, EzMeta, LogId, ReaderType
  <2>3. /\ meta.last_purged.index + 1 <= reader'.start
        /\ reader'.end <= meta.last_log_id.index + 1
        /\ reader'.start \in Int /\ reader'.end \in Int
    BY <2>1, <2>2 DEF Clamp
  <2>4. \A i \in Int : reader'.start <= i /\ i < reader'.end =>
          meta.last_purged.index < i /\ i <= meta.last_log_id.index
    BY <2>2, <2>3
  <2>5. QED
    BY <2>1, <2>4, IndexFacts DEF RangeInv, Readable
<1>6. CASE CoreStep \/ CoreFailure
  <2>1. UNCHANGED reader
    BY <1>6
       DEF CoreStep, SavePositionsReturns, SavePositions, CoreTakesMeta, CoreTakesStorage,
           AppendEntry, DeleteLogs, CoreFailure, CoreFails
  <2>2. UNCHANGED meta \/ core.pc = "positions"
    BY <1>6
       DEF CoreStep, SavePositionsReturns, SavePositions, CoreTakesMeta, CoreTakesStorage,
           AppendEntry, DeleteLogs, CoreFailure, CoreFails
  <2>3. QED
    BY <1>1, <1>3, <2>1, <2>2
<1>7. CASE WorkerStep \/ BuilderStep \/ StreamFails \/ SnapshotFails
  BY <1>1, <1>7 DEF WorkerStep, BuilderStep, StreamFails, SnapshotFails, logVars
<1>8. CASE Requests \/ UNCHANGED vars
  BY <1>1, <1>4, <1>8
     DEF Requests, RequestVote, RequestAppend, RequestTruncate, RequestPurge, RequestApply,
         RequestInstall, RequestBuild, vars, logVars
<1>9. QED
  BY <1>2, <1>4, <1>5, <1>6, <1>7, <1>8 DEF Next, ReaderStep

\* No step breaks who holds what, and so neither does any behaviour.
LEMMA TaskStep ==
  ASSUME IInv, TaskInv, [Next]_vars
  PROVE  TaskInv'
<1>1. CASE Restart
  <2>1. /\ core'.pc = "idle" /\ reader'.pc = "idle" /\ worker'.pc = "idle" /\ builder'.pc = "idle"
        /\ worker' = IdleWorker /\ worker'.op = "none"
    BY <1>1 DEF Restart, IdleCore, IdleReader, IdleWorker, IdleBuilder
  <2>2. QED
    BY <2>1, RangeKept DEF TaskInv, LocksHeld, Persisting, JobInv
<1>2. CASE UNCHANGED vars
  BY <1>2, RangeKept DEF vars, logVars, smVars, TaskInv, LocksHeld, Persisting, JobInv
<1>3. CASE Next /\ ~Restart
  <2>1. LocksHeld' /\ JobInv'
    BY <1>3, LogTasks, SmTasks DEF Next, Requests
  <2>2. QED
    BY <2>1, RangeKept DEF TaskInv
<1>4. QED
  BY <1>1, <1>2, <1>3

\* The mutexes, the reader's range and the jobs' stages, in every state.
LEMMA TaskInvariance == Spec => []TaskInv
<1>1. Init => TaskInv
  BY DEF Init, TaskInv, LocksHeld, RangeInv, JobInv, Persisting, IdleCore, IdleReader, IdleWorker,
         IdleBuilder
<1>2. IInv /\ TaskInv /\ [Next]_vars => TaskInv'
  BY TaskStep
<1>3. QED
  BY <1>1, <1>2, Invariance, PTL DEF Spec


-----------------------------------------------------------------------------
(* What a step does to the log and to the call in progress.                *)

\* No step changes an entry that is readable once it is taken: entries are
\* written past the end of the log, and deleted out of reach.
LEMMA ReadableKept ==
  ASSUME IInv, [Next]_vars
  PROVE  \A i \in Index : Readable(disk'.meta, i) \/ Readable(meta', i) =>
           disk'.logs[i] = disk.logs[i]
<1>1. CASE disk'.logs = disk.logs
  BY <1>1
<1>2. CASE AppendEntry
  <2>1. /\ core.pc = "entries" /\ UNCHANGED meta
        /\ disk' = WithLogs(disk, Put(disk.logs, core.next, core.entries[core.next]))
    BY <1>2, NextEntryFacts, EntryOps DEF AppendEntry
  <2>2. core.entries[core.next] \in Cell /\ meta = disk.meta
    BY <2>1, NextEntryFacts DEF Cell
  <2>3. QED
    BY <2>1, <2>2, CellWritten
<1>3. CASE DeleteLogs
  <2>1. core.pc = "delete" /\ disk' = Apply(disk, CorePersist) /\ UNCHANGED meta
    BY <1>3 DEF DeleteLogs
  <2>2. QED
    BY <2>1, DeletedUnread
<1>4. CASE CoreFailure
  <2>1. /\ Persisting /\ disk' \in Interrupted(disk, CorePersist)
        /\ meta' = IF core.pc = "positions" THEN NewMeta ELSE meta
    BY <1>4 DEF CoreFailure, CoreFails
  <2>2. QED
    BY <2>1, InterruptedCall
<1>5. CASE Restart
  BY <1>5, SurvivorFacts DEF Restart
<1>6. CASE Requests \/ UNCHANGED vars
  BY <1>1, <1>6
     DEF Requests, RequestVote, RequestAppend, RequestTruncate, RequestPurge, RequestRead,
         ReadRequest, RequestApply, RequestInstall, RequestBuild, vars
<1>7. CASE CoreTakesMeta \/ CoreTakesStorage \/ SavePositionsReturns \/ ReaderStep
  <2>1. CASE SavePositionsReturns
    BY <1>1, <2>1, ReplaceOps DEF SavePositionsReturns, SavePositions, CorePersist, WithMeta
  <2>2. QED
    BY <1>1, <1>7, <2>1
       DEF CoreTakesMeta, CoreTakesStorage, ReaderStep, ReaderTakesMeta, ReaderTakesStorage, ReaderReads
<1>8. CASE WorkerStep \/ BuilderStep \/ StreamFails \/ SnapshotFails
  <2>1. \/ disk' = disk
        \/ \E s \in Snapshot : disk' \in {Apply(disk, SnapshotOp(s))} \cup Interrupted(disk, SnapshotOp(s))
    BY <1>8
       DEF WorkerStep, BuilderStep, StreamFails, SnapshotFails, IInv, TypeOK, WorkerType,
           BuilderType, ApplyTakesState, StreamTakesMeta, StreamTakesStorage, ApplyNext,
           ApplyReturns, InstallTakesSnapshot, InstallTakesStorage, InstallPersists,
           InstallReturns, BuildCaptures, BuildTakesSnapshot, BuildTakesStorage, BuildReturns
  <2>2. QED
    BY <1>1, <2>1, SnapshotStored
<1>9. QED
  BY <1>2, <1>3, <1>4, <1>5, <1>6, <1>7, <1>8 DEF Next, CoreStep

\* A call that is in progress after a step was asked for by it, went on with
\* its metadata as they were, or has recorded its positions and deletes next.
CallGoesOn ==
  /\ core'.op = core.op /\ core'.id = core.id /\ core'.entries = core.entries
  /\ disk'.meta = disk.meta /\ meta' = meta
  /\ core'.pc = "delete" <=> core.pc = "delete"
  /\ \/ disk'.logs = disk.logs /\ core'.next = core.next
     \/ core.op = "append" /\ AppendEntry
  /\ core.op = "append" /\ core'.pc = "positions" => core.pc = "positions" \/ AppendEntry

CallRecorded ==
  /\ core.pc = "positions" /\ core.op \in {"truncate", "purge"}
  /\ core' = [core EXCEPT !.pc = "delete"]
  /\ disk'.meta = NewMeta /\ meta' = NewMeta /\ disk'.logs = disk.logs

\* There is no other way for a call to be in progress after a step.
LEMMA CallSteps ==
  ASSUME IInv, [Next]_vars, core'.op # "none"
  PROVE  \/ RequestVote \/ RequestAppend \/ RequestTruncate \/ RequestPurge
         \/ CallGoesOn \/ CallRecorded
<1>0. core \in CoreType
  BY DEF IInv, TypeOK
<1>1. CASE UNCHANGED <<core, meta>> /\ disk'.meta = disk.meta /\ disk'.logs = disk.logs
  BY <1>1 DEF CallGoesOn
<1>2. CASE AppendEntry
  <2>1. /\ core.op = "append" /\ core.pc = "entries" /\ UNCHANGED meta
        /\ core'.pc \in {"entries", "positions"}
        /\ core' = [core EXCEPT !.pc = core'.pc, !.next = core'.next]
    BY <1>0, <1>2, NextEntryFacts DEF AppendEntry, NextStage, CoreType
  <2>2. disk'.meta = disk.meta
    BY <1>2, NextEntryFacts, EntryOps DEF AppendEntry, WithLogs
  <2>3. QED
    BY <1>0, <1>2, <2>1, <2>2 DEF CallGoesOn, CoreType
<1>3. CASE CoreTakesMeta \/ CoreTakesStorage
  <2>1. /\ UNCHANGED <<meta, disk>> /\ core'.pc # "delete" /\ core.pc # "delete"
        /\ core' = [core EXCEPT !.pc = core'.pc]
        /\ core.op = "append" => core'.pc # "positions"
    BY <1>0, <1>3 DEF CoreTakesMeta, CoreTakesStorage, NextStage, CoreType
  <2>2. QED
    BY <1>0, <2>1 DEF CallGoesOn, CoreType
<1>4. CASE SavePositionsReturns
  <2>1. /\ core.pc = "positions" /\ meta' = NewMeta
        /\ disk'.meta = NewMeta /\ disk'.logs = disk.logs
    BY <1>4, ReplaceOps DEF SavePositionsReturns, SavePositions, CorePersist, WithMeta
  <2>2. core.op \in {"truncate", "purge"} /\ core' = [core EXCEPT !.pc = "delete"]
    BY <1>4, <2>1 DEF SavePositionsReturns, SavePositions, GoTo, NextStage, IdleCore
  <2>3. QED
    BY <2>1, <2>2 DEF CallRecorded
<1>5. CASE DeleteLogs \/ CoreFailure \/ Restart
  BY <1>5 DEF DeleteLogs, CoreFailure, CoreFails, Restart, GoTo, NextStage, IdleCore
<1>6. CASE RequestRead \/ RequestApply \/ RequestInstall \/ RequestBuild \/ UNCHANGED vars
  BY <1>1, <1>6
     DEF RequestRead, ReadRequest, RequestApply, RequestInstall, RequestBuild, vars, logVars
<1>7. CASE ReaderStep
  BY <1>1, <1>7 DEF ReaderStep, ReaderTakesMeta, ReaderTakesStorage, ReaderReads
<1>8. CASE WorkerStep \/ BuilderStep \/ StreamFails \/ SnapshotFails
  <2>1. UNCHANGED <<core, meta>>
    BY <1>8 DEF WorkerStep, BuilderStep, StreamFails, SnapshotFails, logVars
  <2>2. \/ disk' = disk
        \/ \E s \in Snapshot : disk' \in {Apply(disk, SnapshotOp(s))} \cup Interrupted(disk, SnapshotOp(s))
    BY <1>8
       DEF WorkerStep, BuilderStep, StreamFails, SnapshotFails, IInv, TypeOK, WorkerType,
           BuilderType, ApplyTakesState, StreamTakesMeta, StreamTakesStorage, ApplyNext,
           ApplyReturns, InstallTakesSnapshot, InstallTakesStorage, InstallPersists,
           InstallReturns, BuildCaptures, BuildTakesSnapshot, BuildTakesStorage, BuildReturns
  <2>3. QED
    BY <1>1, <2>1, <2>2, SnapshotStored
<1>9. QED
  BY <1>2, <1>3, <1>4, <1>5, <1>6, <1>7, <1>8 DEF Next, Requests, CoreStep

\* The metadata a call records, field by field.
LEMMA NewMetaFields ==
  ASSUME IInv, core.pc = "positions"
  PROVE  /\ meta = disk.meta /\ NewMeta \in EzMeta
         /\ core.op \in {"vote", "append", "truncate", "purge"}
         /\ NewMeta.vote = IF core.op = "vote" THEN core.id.term ELSE meta.vote
         /\ NewMeta.last_purged = IF core.op = "purge" THEN core.id ELSE meta.last_purged
         /\ NewMeta.last_log_id =
              MaxLogId(IF core.op \in {"append", "truncate"} THEN core.id ELSE meta.last_log_id,
                       NewMeta.last_purged)
<1>1. meta \in EzMeta /\ core \in CoreType /\ core.id \in LogId /\ meta = disk.meta
  BY DEF IInv, TypeOK, CoreType, CallInv
<1>2. core.op \in {"vote", "append", "truncate", "purge"}
  BY <1>1 DEF IInv, CallInv, CoreType, CoreOp
<1>3. core.id.term \in Term
  BY <1>1 DEF LogId
<1>4. QED
  BY <1>1, <1>2, <1>3 DEF NewMeta, PersistMeta, MaxLogId, EzMeta

\* The greater of two log ids is one of them; a log id that is not the
\* smaller of the two is kept.
LEMMA MaxLogIdFacts ==
  ASSUME NEW a \in LogId, NEW b \in LogId
  PROVE  /\ MaxLogId(a, b) \in {a, b}
         /\ b.index < a.index /\ b.term <= a.term => MaxLogId(a, b) = a
         /\ MaxLogId(a, b).index > b.index => MaxLogId(a, b) = a
BY MaxTermAssumption, MaxIndexAssumption DEF MaxLogId, LogIdLeq, LogId, Term

\* What becomes readable when positions are recorded was readable, or has
\* just been appended.
LEMMA NewReadable ==
  ASSUME IInv, core.pc = "positions", NEW i \in Index, Readable(NewMeta, i)
  PROVE  \/ Readable(meta, i)
         \/ core.op = "append" /\ LogEnd < i /\ i <= core.id.index
<1>1. /\ meta \in EzMeta /\ core.id \in LogId /\ NewMeta \in EzMeta
      /\ meta.last_log_id \in LogId /\ meta.last_purged \in LogId /\ NewMeta.last_purged \in LogId
  BY NewMetaFields DEF IInv, TypeOK, CoreType, EzMeta
<1>2. /\ i \in Int /\ core.id.index \in Int /\ LogEnd \in Int
      /\ meta.last_log_id.index \in Int /\ meta.last_purged.index \in Int
  BY <1>1, IndexFacts, LogEndFacts
<1>3. NewMeta.last_purged.index < i /\ i <= NewMeta.last_log_id.index
  BY DEF Readable
<1>4. NewMeta.last_log_id = IF core.op \in {"append", "truncate"} THEN core.id ELSE meta.last_log_id
  <2>1. NewMeta.last_log_id.index \in Int /\ NewMeta.last_purged.index \in Int
    BY <1>1, IndexFacts DEF EzMeta
  <2>2. NewMeta.last_log_id.index > NewMeta.last_purged.index
    BY <1>2, <1>3, <2>1
  <2>3. QED
    BY <1>1, <2>2, NewMetaFields, MaxLogIdFacts
<1>5. CASE core.op = "vote"
  BY <1>3, <1>4, <1>5, NewMetaFields DEF Readable
<1>6. CASE core.op = "purge"
  BY <1>2, <1>3, <1>4, <1>6, NewMetaFields DEF Readable, IInv, PurgeInv
<1>7. CASE core.op = "truncate"
  BY <1>2, <1>3, <1>4, <1>7, NewMetaFields DEF Readable, IInv, TruncateInv
<1>8. CASE core.op = "append"
  BY <1>2, <1>3, <1>4, <1>8, NewMetaFields DEF Readable, LogEnd
<1>9. QED
  BY <1>5, <1>6, <1>7, <1>8, NewMetaFields

-----------------------------------------------------------------------------
(* Whose entries the log holds.                                            *)

\* An append finds the whole readable log to be the leader's, and adds the
\* leader's entries to it.
AppendLog ==
  core.op = "append" =>
    /\ \A i \in Index : Readable(meta, i) => disk.logs[i] = Entry(i)
    /\ \A i \in Index : LogEnd < i /\ i < core.next => disk.logs[i] = Entry(i)
    /\ \A i \in Index :
         core.entries[i] = IF LogEnd < i /\ i <= core.id.index THEN Entry(i) ELSE Absent
    /\ core.id.term = Entry(core.id.index)
    /\ core.pc = "positions" => disk.logs[core.id.index] = Entry(core.id.index)

\* A truncation cuts before the first entry that is not the leader's.
CutInv ==
  core.op = "truncate" /\ core.pc # "delete" =>
    LET c == core.id.index + 1
    IN  /\ c \in Conflicts /\ \A i \in Conflicts : c <= i
        /\ core.id = IF c = 0 THEN NoLogId ELSE IdAt(c - 1)

\* The last log id is that of the last entry, unless the log is purged up to it.
LastIdOf(m) ==
  m.last_purged.index < m.last_log_id.index =>
    disk.logs[m.last_log_id.index] = m.last_log_id.term

LogInv ==
  /\ AppendLog /\ CutInv
  /\ LastIdOf(disk.meta) /\ LastIdOf(meta)
  /\ LogIsOneLeaders

\* An append starts from a log that is the leader's, and puts the leader's
\* entries behind it one by one.
LEMMA AppendLogStep ==
  ASSUME IInv, LogInv, [Next]_vars
  PROVE  AppendLog'
<1> USE IndexFacts
<1> SUFFICES ASSUME core'.op = "append" PROVE AppendLog'
  BY DEF AppendLog
<1>1. RequestAppend \/ CallGoesOn
  <2>1. ~RequestVote /\ ~RequestTruncate /\ ~RequestPurge
    BY DEF RequestVote, RequestTruncate, RequestPurge, Call
  <2>2. ~CallRecorded
    BY DEF CallRecorded, IInv, TypeOK, CoreType
  <2>3. QED
    BY <2>1, <2>2, CallSteps
<1>2. CASE RequestAppend
  <2> DEFINE entries(last) ==
               [i \in Index |-> IF LogEnd < i /\ i <= last THEN Entry(i) ELSE Absent]
  <2>1. PICK last \in Index :
          core' = [op |-> "append", pc |-> "meta", id |-> [term |-> Entry(last), index |-> last],
                   entries |-> entries(last), next |-> LogEnd + 1]
    BY <1>2 DEF RequestAppend, Call
  <2>2. UNCHANGED <<disk, meta>> /\ Conflicts = {}
    BY <1>2 DEF RequestAppend
  <2>3. \A i \in Index : Readable(meta, i) => disk.logs[i] = Entry(i)
    BY <2>2 DEF Conflicts
  <2>4. \A i \in Index : ~(LogEnd < i /\ i < LogEnd + 1)
    BY LogEndFacts DEF IInv, TypeOK
  <2>5. LogEnd' = LogEnd /\ \A i : Entry(i)' = Entry(i)
    BY <2>2 DEF LogEnd, Entry
  <2>6. /\ core'.id.term = Entry(last) /\ core'.id.index = last /\ core'.pc = "meta"
        /\ core'.next = LogEnd + 1 /\ core'.entries = entries(last)
    BY <2>1
  <2>7. QED
    BY <2>2, <2>3, <2>4, <2>5, <2>6 DEF AppendLog, Readable, Entry
<1>3. CASE CallGoesOn /\ disk'.logs = disk.logs /\ core'.next = core.next /\ ~AppendEntry
  <2>1. LogEnd' = LogEnd
    BY <1>3 DEF CallGoesOn, LogEnd
  <2>2. QED
    BY <1>3, <2>1 DEF CallGoesOn, LogInv, AppendLog, Readable, Entry
<1>4. CASE CallGoesOn /\ AppendEntry
  <2>1. /\ core.op = "append" /\ core.pc = "entries" /\ UNCHANGED meta
        /\ core'.id = core.id /\ core'.entries = core.entries
    BY <1>4, NextEntryFacts DEF CallGoesOn, AppendEntry
  <2>2. LogEnd' = LogEnd
    BY <2>1 DEF LogEnd
  <2>3. /\ core.next \in Index /\ core.entries[core.next] \in Term
        /\ core.id.index \in Index /\ core.next <= core.id.index /\ LogEnd < core.next
        /\ disk' = WithLogs(disk, Put(disk.logs, core.next, core.entries[core.next]))
    BY <1>4, <2>1, NextEntryFacts, EntryOps DEF AppendEntry
  <2>4. core.entries[core.next] \in Cell /\ core.entries[core.next] = Entry(core.next)
    BY <2>1, <2>3 DEF Cell, LogInv, AppendLog
  <2>5. /\ disk'.logs[core.next] = Entry(core.next)
        /\ \A i \in Index : i # core.next => disk'.logs[i] = disk.logs[i]
        /\ \A i \in Index : Readable(meta, i) => i # core.next
    BY <2>1, <2>3, <2>4, CellWritten
  <2>6. \/ core.next = core.id.index /\ core'.pc = "positions" /\ core'.next = core.next
        \/ core.next # core.id.index /\ core'.pc = "entries" /\ core'.next = core.next + 1
    BY <1>4, <2>1 DEF AppendEntry, NextStage, IInv, TypeOK, CoreType
  <2>7. \A i \in Index : i < core'.next => i < core.next \/ i = core.next
    <3>1. core.next \in Int /\ Index \subseteq Int
      BY <2>3
    <3>2. QED
      BY <2>6, <3>1
  <2>8. \A i \in Index : LogEnd < i /\ i < core'.next => disk'.logs[i] = Entry(i)
    BY <2>1, <2>3, <2>5, <2>7 DEF LogInv, AppendLog
  <2>9. \A i \in Index : Readable(meta, i) => disk'.logs[i] = Entry(i)
    BY <2>1, <2>5 DEF LogInv, AppendLog
  <2>10. QED
    BY <2>1, <2>2, <2>5, <2>6, <2>8, <2>9 DEF LogInv, AppendLog, Readable, Entry
<1>5. QED
  BY <1>1, <1>2, <1>3, <1>4 DEF CallGoesOn

\* A truncation openraft asks for cuts just before the first conflict.
LEMMA TruncateAsked ==
  ASSUME IInv, RequestTruncate
  PROVE  /\ UNCHANGED <<disk, meta, worker>>
         /\ \E c \in Conflicts :
              /\ \A i \in Conflicts : c <= i
              /\ core'.id = IF c = 0 THEN NoLogId ELSE IdAt(c - 1)
              /\ core'.id.index = c - 1 /\ c \in Int
              /\ BeyondCommitted(c)
              /\ acked' = [i \in Index |-> IF i < c THEN acked[i] ELSE Absent]
<1>1. PICK c \in Conflicts :
        /\ \A i \in Conflicts : c <= i
        /\ core'.id = IF c = 0 THEN NoLogId ELSE IdAt(c - 1)
        /\ BeyondCommitted(c)
        /\ acked' = [i \in Index |-> IF i < c THEN acked[i] ELSE Absent]
  BY DEF RequestTruncate, Call
<1>2. UNCHANGED <<disk, meta, worker>>
  BY DEF RequestTruncate, smVars
<1>3. c \in Index /\ Readable(meta, c) /\ c \in Int /\ 0 <= c
  BY <1>1, IndexFacts DEF Conflicts
<1>4. CASE c = 0
  BY <1>1, <1>2, <1>4 DEF NoLogId
<1>5. CASE c # 0
  <2>1. c - 1 \in Index
    BY <1>3, <1>5, IndexFacts, MaxIndexAssumption
  <2>2. c - 1 = meta.last_purged.index \/ Readable(meta, c - 1)
    BY <1>3, IndexFacts DEF Readable, IInv, TypeOK, EzMeta
  <2>3. IdAt(c - 1).index = c - 1
    BY <2>1, <2>2, IdAtFacts
  <2>4. QED
    BY <1>1, <1>2, <1>3, <1>5, <2>3
<1>6. QED
  BY <1>4, <1>5

\* A truncation in progress still cuts before the first conflict: no append
\* runs beside it.
LEMMA CutStep ==
  ASSUME IInv, LogInv, [Next]_vars
  PROVE  CutInv'
<1> SUFFICES ASSUME core'.op = "truncate", core'.pc # "delete" PROVE CutInv'
  BY DEF CutInv
<1>1. RequestTruncate \/ CallGoesOn
  <2>1. ~RequestVote /\ ~RequestAppend /\ ~RequestPurge
    BY DEF RequestVote, RequestAppend, RequestPurge, Call
  <2>2. ~CallRecorded
    BY DEF CallRecorded, IInv, TypeOK, CoreType
  <2>3. QED
    BY <2>1, <2>2, CallSteps
<1>2. CASE RequestTruncate
  <2>1. PICK c \in Conflicts :
          /\ \A i \in Conflicts : c <= i
          /\ core'.id = IF c = 0 THEN NoLogId ELSE IdAt(c - 1)
          /\ core'.id.index = c - 1 /\ c \in Int
    BY <1>2, TruncateAsked
  <2>2. core'.id.index + 1 = c
    BY <2>1
  <2>3. Conflicts' = Conflicts /\ IdAt(c - 1)' = IdAt(c - 1)
    BY <1>2, TruncateAsked DEF Conflicts, Readable, Entry, IdAt
  <2>4. QED
    BY <2>1, <2>2, <2>3 DEF CutInv
<1>3. CASE CallGoesOn
  <2>1. /\ core.op = "truncate" /\ core.pc # "delete" /\ core'.id = core.id
        /\ UNCHANGED meta /\ disk'.logs = disk.logs
    BY <1>3 DEF CallGoesOn
  <2>2. Conflicts' = Conflicts /\ \A i : IdAt(i)' = IdAt(i)
    BY <2>1 DEF Conflicts, Readable, Entry, IdAt
  <2>3. QED
    BY <2>1, <2>2 DEF LogInv, CutInv
<1>4. QED
  BY <1>1, <1>2, <1>3

\* A position being recorded names the last entry, unless all is purged.
LEMMA NewLastId ==
  ASSUME IInv, LogInv, core.pc = "positions"
  PROVE  LastIdOf(NewMeta)
<1> SUFFICES ASSUME NewMeta.last_purged.index < NewMeta.last_log_id.index
             PROVE  disk.logs[NewMeta.last_log_id.index] = NewMeta.last_log_id.term
  BY DEF LastIdOf
<1>1. /\ meta \in EzMeta /\ core.id \in LogId /\ NewMeta \in EzMeta
      /\ meta.last_log_id \in LogId /\ meta.last_purged \in LogId
      /\ NewMeta.last_purged \in LogId /\ NewMeta.last_log_id \in LogId
  BY NewMetaFields DEF IInv, TypeOK, CoreType, EzMeta
<1>2. /\ core.id.index \in Int /\ meta.last_log_id.index \in Int /\ meta.last_purged.index \in Int
      /\ -1 <= meta.last_purged.index
  BY <1>1, IndexFacts
<1>3. NewMeta.last_log_id = IF core.op \in {"append", "truncate"} THEN core.id ELSE meta.last_log_id
  <2>1. NewMeta.last_log_id.index \in Int /\ NewMeta.last_purged.index \in Int
    BY <1>1, IndexFacts
  <2>2. NewMeta.last_log_id.index > NewMeta.last_purged.index
    BY <2>1
  <2>3. QED
    BY <1>1, <2>2, NewMetaFields, MaxLogIdFacts
<1>4. CASE core.op = "vote"
  BY <1>3, <1>4, NewMetaFields DEF LogInv, LastIdOf
<1>5. CASE core.op = "purge"
  BY <1>2, <1>3, <1>5, NewMetaFields DEF LogInv, LastIdOf, IInv, PurgeInv
<1>6. CASE core.op = "truncate"
  <2>1. NewMeta.last_log_id = core.id /\ meta.last_purged.index < core.id.index
    BY <1>3, <1>6, NewMetaFields
  <2>2. core.id = IdAt(core.id.index + 1 - 1) /\ core.id.index + 1 - 1 = core.id.index
    BY <1>2, <1>6, <2>1 DEF LogInv, CutInv
  <2>3. core.id = [term |-> disk.logs[core.id.index], index |-> core.id.index]
    BY <1>2, <2>1, <2>2 DEF IdAt
  <2>4. core.id.term = disk.logs[core.id.index]
    BY <2>3
  <2>5. QED
    BY <2>1, <2>4
<1>7. CASE core.op = "append"
  BY <1>3, <1>7 DEF LogInv, AppendLog
<1>8. QED
  BY <1>4, <1>5, <1>6, <1>7, NewMetaFields

\* No step parts the last log id from the entry it names.
LEMMA LastIdStep ==
  ASSUME IInv, LogInv, [Next]_vars
  PROVE  LastIdOf(disk.meta)' /\ LastIdOf(meta)'
<1>1. IInv'
  BY StepInv
<1>2. ASSUME NEW m \in {disk'.meta, meta'}, m.last_purged.index < m.last_log_id.index
      PROVE  disk'.logs[m.last_log_id.index] = m.last_log_id.term
  <2>1. m \in EzMeta /\ m.last_log_id \in LogId /\ m.last_purged \in LogId
    BY <1>1 DEF IInv, TypeOK, DiskType, EzMeta
  <2>2. m.last_log_id.index \in Index
    BY <1>2, <2>1, IndexFacts
  <2>3. Readable(m, m.last_log_id.index)
    BY <1>2, <2>1, IndexFacts DEF Readable
  <2>4. disk'.logs[m.last_log_id.index] = disk.logs[m.last_log_id.index]
    BY <2>2, <2>3, ReadableKept
  <2>5. LastIdOf(m)
    BY MetadataWrites, NewLastId DEF LogInv
  <2>6. QED
    BY <1>2, <2>4, <2>5 DEF LastIdOf
<1>3. QED
  BY <1>2 DEF LastIdOf

\* What a step leaves readable was one leader's before, or is the one's the
\* append that just ended followed.
LEMMA OneLogStep ==
  ASSUME IInv, LogInv, [Next]_vars
  PROVE  LogIsOneLeaders'
<1>0. /\ \A i \in Index : Readable(disk'.meta, i) => disk'.logs[i] = disk.logs[i]
      /\ IInv'
  BY ReadableKept, StepInv
<1>1. CASE disk'.meta = disk.meta
  BY <1>0, <1>1 DEF LogInv, LogIsOneLeaders
<1>2. CASE core.pc = "positions" /\ disk'.meta = NewMeta
  <2>1. meta = disk.meta /\ meta.vote \in Term
    BY <1>2, NewMetaFields DEF EzMeta, IInv, TypeOK
  <2>2. CASE core.op # "append"
    <3>1. \A i \in Index : Readable(disk'.meta, i) => Readable(disk.meta, i)
      BY <1>2, <2>1, <2>2, NewReadable
    <3>2. QED
      BY <1>0, <3>1 DEF LogInv, LogIsOneLeaders
  <2>3. CASE core.op = "append"
    <3>1. ASSUME NEW i \in Index, Readable(disk'.meta, i)
          PROVE  disk'.logs[i] = Entry(i)
      <4>1. Readable(meta, i) \/ (LogEnd < i /\ i <= core.id.index)
        BY <1>2, <3>1, NewReadable
      <4>2. core.next = core.id.index /\ i \in Int /\ core.id.index \in Int
        BY <1>2, <2>3, IndexFacts DEF IInv, AppendInv, TypeOK, CoreType
      <4>3. disk.logs[i] = Entry(i)
        <5>1. CASE Readable(meta, i)
          BY <2>3, <5>1 DEF LogInv, AppendLog
        <5>2. CASE LogEnd < i /\ i <= core.id.index
          <6>1. i < core.next \/ i = core.id.index
            BY <4>2, <5>2
          <6>2. QED
            BY <1>2, <2>3, <5>2, <6>1 DEF LogInv, AppendLog
        <5>3. QED
          BY <4>1, <5>1, <5>2
      <4>4. QED
        BY <1>0, <3>1, <4>3
    <3>2. QED
      BY <2>1, <3>1 DEF LogIsOneLeaders, Entry
  <2>4. QED
    BY <2>2, <2>3
<1>3. QED
  BY <1>1, <1>2, MetadataWrites

\* The log is one leader's in every behaviour.
LEMMA LogInvariance == Spec => []LogInv
<1>1. Init => LogInv
  <2>1. SUFFICES ASSUME Init PROVE LogInv
    OBVIOUS
  <2>2. core.op = "none" /\ meta = NoMeta /\ disk.meta = NoMeta
    BY <2>1 DEF Init, IdleCore
  <2>3. NoMeta.last_purged.index = -1 /\ NoMeta.last_log_id.index = -1
    BY DEF NoMeta, NoLogId
  <2>4. 0 \in Term /\ \A i \in Index : ~Readable(NoMeta, i)
    BY <2>3, IndexFacts, IdleTypes DEF Readable, NoMeta, EzMeta
  <2>5. LogIsOneLeaders
    BY <2>2, <2>4 DEF LogIsOneLeaders
  <2>6. QED
    BY <2>2, <2>3, <2>5 DEF LogInv, AppendLog, CutInv, LastIdOf
<1>2. IInv /\ LogInv /\ [Next]_vars => LogInv'
  BY AppendLogStep, CutStep, LastIdStep, OneLogStep DEF LogInv
<1>3. QED
  BY <1>1, <1>2, Invariance, PTL DEF Spec

\* The readable log is always one leader's, whatever an append or a truncation
\* that was cut short has left behind, and whether or not a snapshot is
\* installed while another is built: entries are written only past the end of
\* the log, and only the position recorded after them makes them readable.
THEOREM LogStaysOneLeaders == Spec => []LogIsOneLeaders
<1>1. LogInv => LogIsOneLeaders
  BY DEF LogInv
<1>2. QED
  BY <1>1, LogInvariance, PTL

-----------------------------------------------------------------------------
(* How far the snapshots reach.  From here on openraft installs no snapshot *)
(* while it builds one: with the two beside each other an older snapshot    *)
(* may be stored over a newer one.                                          *)

\* The newest snapshot openraft knows of is stored and applied, or a newer one
\* is; nothing is purged past it; a snapshot under way is newer than it.
OrderInv ==
  /\ known.index <= disk.snap.last_log_id.index
  /\ known.index <= sm.last_applied.index
  /\ disk.meta.last_purged.index <= known.index
  /\ meta.last_purged.index <= known.index
  /\ core.op = "purge" => core.id.index <= known.index
  /\ builder.pc # "idle" => worker.op # "install" /\ known.index < sm.last_applied.index
  /\ builder.pc \in {"snapshot", "storage", "persist"} =>
       /\ known.index < builder.snap.last_log_id.index
       /\ builder.snap.last_log_id.index <= sm.last_applied.index
  /\ worker.op = "install" =>
       /\ known.index < worker.snap.last_log_id.index
       /\ sm.last_applied.index < worker.snap.last_log_id.index
  /\ worker.pc = "state" => disk.snap = worker.snap

\* The snapshot a restart finds: the stored one, or the one being stored.
LEMMA SurvivorSnap ==
  ASSUME IInv, NEW d \in Survivors
  PROVE  \/ d.snap = disk.snap
         \/ worker.pc = "persist" /\ d.snap = worker.snap /\ d.meta = disk.meta /\ d.logs = disk.logs
         \/ builder.pc = "persist" /\ d.snap = builder.snap /\ d.meta = disk.meta /\ d.logs = disk.logs
<1>1. CASE Persisting /\ d \in Interrupted(disk, CorePersist)
  BY <1>1, InterruptedCall
<1>2. CASE \E w \in {worker, builder} : w.pc = "persist" /\ d \in Interrupted(disk, SnapshotOp(w.snap))
  BY <1>2, ReplaceOps DEF WithSnap
<1>3. CASE d = disk
  BY <1>3
<1>4. QED
  BY <1>1, <1>2, <1>3 DEF Survivors, UnderWay

\* The indexes of the log ids the variables hold.
LEMMA PositionTypes ==
  ASSUME IInv
  PROVE  /\ known.index \in Int /\ owed.index \in Int /\ core.id.index \in Int
         /\ sm.last_applied.index \in Int /\ snapshot.last_log_id.index \in Int
         /\ disk.snap.last_log_id.index \in Int
         /\ worker.snap.last_log_id.index \in Int /\ builder.snap.last_log_id.index \in Int
         /\ disk.meta.last_purged.index \in Int /\ meta.last_purged.index \in Int
         /\ disk.meta.last_log_id.index \in Int /\ meta.last_log_id.index \in Int
         /\ worker.upto \in Int
BY IndexFacts, MaxIndexAssumption
   DEF IInv, TypeOK, DiskType, EzMeta, Snapshot, CoreType, WorkerType, BuilderType,
       StateMachineState

\* What a call changes of it: a purge moves the purge point as far as it was
\* asked to.
LEMMA OrderCore ==
  ASSUME IInv, TaskInv, OrderInv, CoreStep \/ CoreFailure
  PROVE  OrderInv'
<1> USE PositionTypes
<1>1. UNCHANGED <<smVars, known>>
  BY DEF CoreStep, CoreFailure, SavePositionsReturns, raftVars
<1>2. /\ disk'.meta = disk.meta \/ (core.pc = "positions" /\ disk'.meta = NewMeta)
      /\ meta' \in {meta, disk'.meta} \/ (core.pc = "positions" /\ meta' = NewMeta)
  BY MetadataWrites DEF Next
<1>3. disk'.snap = disk.snap
  <2>1. CASE CoreTakesMeta \/ CoreTakesStorage
    BY <2>1 DEF CoreTakesMeta, CoreTakesStorage
  <2>2. CASE AppendEntry
    BY <2>2, NextEntryFacts, EntryOps DEF AppendEntry, WithLogs
  <2>3. CASE SavePositionsReturns
    BY <2>3, ReplaceOps DEF SavePositionsReturns, SavePositions, CorePersist, WithMeta
  <2>4. CASE DeleteLogs
    BY <2>4, DeletedUnread DEF DeleteLogs
  <2>5. CASE CoreFailure
    BY <2>5, InterruptedCall DEF CoreFailure, CoreFails
  <2>6. QED
    BY <2>1, <2>2, <2>3, <2>4, <2>5 DEF CoreStep
<1>4. core.pc = "positions" => NewMeta.last_purged.index <= known.index
  BY NewMetaFields DEF OrderInv
<1>5. core'.op \in {core.op, "none"} /\ (core'.op = core.op => core'.id = core.id \/ core.op = "none")
  BY DEF CoreStep, CoreFailure, CoreTakesMeta, CoreTakesStorage, AppendEntry, SavePositionsReturns,
         SavePositions, DeleteLogs, CoreFails, GoTo, IdleCore, IInv, TypeOK, CoreType
<1>6. QED
  BY <1>1, <1>2, <1>3, <1>4, <1>5 DEF OrderInv, smVars

\* What openraft asks for starts within it.
LEMMA OrderRequests ==
  ASSUME ~Overlap, IInv, TaskInv, OrderInv, Requests
  PROVE  OrderInv'
<1> USE PositionTypes
<1>1. UNCHANGED <<disk, meta, sm, known>>
  BY DEF Requests, RequestVote, RequestAppend, RequestTruncate, RequestPurge, RequestRead,
         RequestApply, RequestInstall, RequestBuild, ReadRequest, ApplyRequest, InstallRequest,
         BuildRequest, raftVars, smVars, logVars
<1>2. CASE RequestVote \/ RequestAppend \/ RequestTruncate \/ RequestRead
  <2>1. UNCHANGED <<worker, builder>> /\ (core'.op # "purge" \/ UNCHANGED core)
    BY <1>2
       DEF RequestVote, RequestAppend, RequestTruncate, RequestRead, ReadRequest, Call, smVars
  <2>2. QED
    BY <1>1, <2>1 DEF OrderInv
<1>3. CASE RequestPurge
  <2>1. UNCHANGED <<worker, builder>> /\ core'.id.index <= known.index
    BY <1>3, IdAtFacts DEF RequestPurge, Call, smVars
  <2>2. QED
    BY <1>1, <2>1 DEF OrderInv
<1>4. CASE RequestApply
  <2>1. UNCHANGED <<core, builder>> /\ worker'.op = "apply" /\ worker'.pc = "sm"
    BY <1>4 DEF RequestApply, ApplyRequest, logVars, IdleWorker
  <2>2. QED
    BY <1>1, <2>1 DEF OrderInv
<1>5. CASE RequestInstall
  <2>1. /\ UNCHANGED <<core, builder>> /\ builder.pc = "idle" /\ worker'.pc = "snapshot"
        /\ \E i \in Index : /\ sm.last_applied.index < i /\ known.index < i
                            /\ worker'.snap = SentSnapshot(i)
    BY <1>5
       DEF RequestInstall, InstallRequest, logVars, BeyondCommitted, Committable, IdleWorker
  <2>2. \A i : SentSnapshot(i).last_log_id.index = i
    BY DEF SentSnapshot
  <2>3. QED
    BY <1>1, <2>1, <2>2 DEF OrderInv
<1>6. CASE RequestBuild
  <2>1. UNCHANGED <<core, worker>> /\ builder'.pc = "sm" /\ worker.op # "install"
    BY <1>6 DEF RequestBuild, BuildRequest, logVars, IdleBuilder, TaskInv, JobInv
  <2>2. QED
    BY <1>1, <1>6, <2>1 DEF OrderInv, RequestBuild
<1>7. QED
  BY <1>2, <1>3, <1>4, <1>5, <1>6 DEF Requests

\* What the worker and the builder change of it.
LEMMA OrderTasks ==
  ASSUME IInv, TaskInv, OrderInv, WorkerStep \/ BuilderStep \/ StreamFails \/ SnapshotFails
  PROVE  OrderInv'
<1> USE PositionTypes
<1>1. UNCHANGED <<core, meta>>
  BY DEF WorkerStep, BuilderStep, StreamFails, SnapshotFails, logVars
<1>2. worker \in WorkerType /\ builder \in BuilderType /\ disk \in DiskType
  BY DEF IInv, TypeOK
<1>3. CASE /\ WorkerStep
           /\ ApplyTakesState \/ StreamTakesMeta \/ StreamTakesStorage \/ ApplyReturns
                \/ InstallTakesSnapshot \/ InstallTakesStorage
  <2>1. /\ UNCHANGED <<disk, sm, builder, known>> /\ worker'.pc # "state"
        /\ \/ worker' = IdleWorker
           \/ worker' = [worker EXCEPT !.pc = worker'.pc]
    BY <1>2, <1>3
       DEF WorkerStep, ApplyTakesState, StreamTakesMeta, StreamTakesStorage, ApplyReturns,
           InstallTakesSnapshot, InstallTakesStorage, InstallReturns, WorkerType, IdleWorker
  <2>2. worker'.op = "install" => worker.op = "install" /\ worker'.snap = worker.snap
    BY <1>2, <2>1 DEF WorkerType, IdleWorker
  <2>3. QED
    BY <1>1, <2>1, <2>2 DEF OrderInv
<1>4. CASE WorkerStep /\ ApplyNext
  <2>1. /\ UNCHANGED <<disk, builder, known>> /\ worker'.pc = "next" /\ worker.op = "apply"
        /\ worker'.op = worker.op /\ sm'.last_applied.index = sm.last_applied.index + 1
    BY <1>2, <1>4
       DEF WorkerStep, ApplyNext, ApplyEntry, NextApplied, InstallReturns, WorkerType, TaskInv,
           JobInv, IdleWorker
  <2>2. QED
    BY <1>1, <2>1 DEF OrderInv
<1>5. CASE WorkerStep /\ InstallPersists
  <2>1. /\ UNCHANGED <<sm, builder, known>> /\ worker'.op = worker.op /\ worker'.snap = worker.snap
        /\ disk' = WithSnap(disk, worker.snap) /\ worker.op = "install"
    BY <1>2, <1>5, ReplaceOps
       DEF WorkerStep, InstallPersists, InstallReturns, WorkerType, TaskInv, JobInv, IdleWorker
  <2>2. QED
    BY <1>1, <2>1 DEF OrderInv, WithSnap
<1>6. CASE WorkerStep /\ InstallReturns
  <2>1. /\ UNCHANGED <<disk, builder>> /\ worker'.op = "none" /\ worker'.pc = "idle"
        /\ worker.pc = "state" /\ worker.op = "install"
        /\ sm'.last_applied = worker.snap.last_log_id
    BY <1>2, <1>6
       DEF InstallReturns, WorkerType, TaskInv, JobInv, IdleWorker, RestoredState
  <2>2. known' = worker.snap.last_log_id
    BY <1>6, <2>1 DEF WorkerStep, ApplyTakesState, StreamTakesMeta, StreamTakesStorage, ApplyNext,
      ApplyReturns, InstallReturns, InstallTakesSnapshot, InstallTakesStorage, InstallPersists,
      Later, OrderInv
  <2>3. QED
    BY <1>1, <2>1, <2>2 DEF OrderInv
<1>7. CASE BuilderStep /\ (BuildCaptures \/ BuildTakesSnapshot \/ BuildTakesStorage)
  <2>1. /\ UNCHANGED <<disk, sm, worker, known>> /\ builder.pc # "idle"
        /\ \/ builder'.pc \in {"storage", "persist"} /\ builder'.snap = builder.snap
              /\ builder.pc \in {"snapshot", "storage"}
           \/ builder'.pc = "snapshot" /\ builder'.snap.last_log_id = sm.last_applied
    BY <1>2, <1>7
       DEF BuilderStep, BuildCaptures, BuildTakesSnapshot, BuildTakesStorage, BuildReturns,
           BuilderType, Captured
  <2>2. QED
    BY <1>1, <2>1 DEF OrderInv
<1>8. CASE BuilderStep /\ BuildReturns
  <2>1. /\ UNCHANGED <<sm, worker>> /\ builder'.pc = "idle" /\ builder.pc = "persist"
        /\ disk' = WithSnap(disk, builder.snap) /\ worker.pc # "state"
    BY <1>2, <1>8, ReplaceOps DEF BuildReturns, IdleBuilder, TaskInv, JobInv, OrderInv, WorkerType,
      IdleWorker
  <2>2. known' = builder.snap.last_log_id
    BY <1>8, <2>1 DEF BuilderStep, BuildReturns, BuildCaptures, BuildTakesSnapshot, BuildTakesStorage,
      Later, OrderInv
  <2>3. QED
    BY <1>1, <2>1, <2>2 DEF OrderInv, WithSnap
<1>9. CASE StreamFails
  <2>1. UNCHANGED <<disk, sm, builder, known>> /\ worker'.op = "none" /\ worker'.pc = "idle"
    BY <1>9 DEF StreamFails, IdleWorker, raftVars
  <2>2. QED
    BY <1>1, <2>1 DEF OrderInv
<1>10. CASE SnapshotFails
  <2>1. UNCHANGED <<sm, known>>
    BY <1>10 DEF SnapshotFails, raftVars
  <2>2. \/ /\ worker.pc = "persist" /\ worker.op = "install" /\ UNCHANGED builder
           /\ disk' \in {disk, WithSnap(disk, worker.snap)}
           /\ worker'.op = "none" /\ worker'.pc = "idle"
        \/ /\ builder.pc = "persist" /\ UNCHANGED worker /\ worker.pc # "state"
           /\ disk' \in {disk, WithSnap(disk, builder.snap)}
           /\ builder'.pc = "idle"
    BY <1>2, <1>10, ReplaceOps
       DEF SnapshotFails, TaskInv, JobInv, OrderInv, WorkerType, IdleWorker, IdleBuilder
  <2>3. QED
    BY <1>1, <2>1, <2>2 DEF OrderInv, WithSnap
<1>11. QED
  BY <1>3, <1>4, <1>5, <1>6, <1>7, <1>8, <1>9, <1>10 DEF WorkerStep, BuilderStep

\* No step takes the snapshots out of order: a restart goes on from the stored
\* one, which is the newest openraft was told of or a newer one.
LEMMA OrderStep ==
  ASSUME ~Overlap, IInv, TaskInv, OrderInv, [Next]_vars
  PROVE  OrderInv'
<1>1. CASE Restart
  <2>1. /\ disk' \in Survivors /\ meta' = disk'.meta /\ known' = disk'.snap.last_log_id
        /\ sm'.last_applied = disk'.snap.last_log_id
        /\ core'.op = "none" /\ worker'.op = "none" /\ worker'.pc = "idle" /\ builder'.pc = "idle"
    BY <1>1 DEF Restart, RestoredState, IdleCore, IdleWorker, IdleBuilder
  <2>2. disk'.meta.last_purged.index <= known.index
    BY <2>1, SurvivorFacts, NewMetaFields DEF OrderInv
  <2>3. known.index <= disk'.snap.last_log_id.index
    BY <2>1, SurvivorSnap, PositionTypes DEF OrderInv, TaskInv, JobInv, IInv, TypeOK, WorkerType,
      IdleWorker
  <2>4. disk'.meta.last_purged.index \in Int /\ disk'.snap.last_log_id.index \in Int
    BY StepInv, <2>1, SurvivorFacts, IndexFacts DEF DiskType, EzMeta, Snapshot
  <2>5. QED
    BY <2>1, <2>2, <2>3, <2>4, PositionTypes DEF OrderInv
<1>2. CASE ReaderStep \/ UNCHANGED vars
  BY <1>2
     DEF ReaderStep, ReaderTakesMeta, ReaderTakesStorage, ReaderReads, vars, logVars, smVars,
         raftVars, OrderInv
<1>3. QED
  BY <1>1, <1>2, OrderCore, OrderRequests, OrderTasks DEF Next

\* The snapshots are in order in every behaviour.
LEMMA OrderInvariance == ASSUME ~Overlap PROVE Spec => []OrderInv
<1>1. Init => OrderInv
  BY DEF Init, OrderInv, NoMeta, NoSnapshot, FreshState, NoLogId, IdleCore, IdleWorker, IdleBuilder
<1>2. IInv /\ TaskInv /\ OrderInv /\ [Next]_vars => OrderInv'
  BY OrderStep
<1>3. QED
  BY <1>1, <1>2, Invariance, TaskInvariance, PTL DEF Spec

\* A log is never purged past the stored snapshot, wherever the node stops:
\* openraft purges up to a snapshot it was told is stored, and every snapshot
\* stored after that one is a newer one.
THEOREM PurgeAlwaysCovered == ASSUME ~Overlap PROVE Spec => []PurgeCovered
<1>1. IInv /\ OrderInv => PurgeCovered
  BY PositionTypes DEF OrderInv, PurgeCovered
<1>2. QED
  BY <1>1, Invariance, OrderInvariance, PTL

-----------------------------------------------------------------------------
(* Committed positions.                                                    *)

\* The log id of index k in the log every later leader shares.
FinalId(k) == IF k = -1 THEN NoLogId ELSE [term |-> Final[k], index |-> k]

\* Nothing at k is ever overwritten: every leader from the disk's vote on has
\* the same entry there, and if the log holds an entry at k it is that one.
SoundAt(d, k) ==
  k # -1 =>
    /\ k \in Committable(d.meta.vote)
    /\ Readable(d.meta, k) => d.logs[k] = Final[k]

Sound(d, id) == SoundAt(d, id.index) /\ id = FinalId(id.index)

\* Everything the node has applied, stored in a snapshot, purged, or been told
\* to, is committed.
Positions ==
  {known, owed, disk.meta.last_purged, meta.last_purged, sm.last_applied,
   disk.snap.last_log_id, worker.snap.last_log_id, builder.snap.last_log_id}

PosInv ==
  /\ \A id \in Positions : Sound(disk, id)
  /\ core.op = "purge" => Sound(disk, core.id)
  /\ SoundAt(disk, worker.upto)

\* The log reaches as far as the worker was told to apply, and a truncation
\* stops short of it.
UptoInv ==
  /\ worker.op = "apply" =>
       worker.upto <= disk.meta.last_log_id.index /\ worker.upto <= meta.last_log_id.index
  /\ core.op = "truncate" /\ core.pc # "delete" => worker.upto <= core.id.index

\* What was acknowledged is there, and a truncation cuts none of it.
AckedInv ==
  /\ AckedSurvive
  /\ core.op = "truncate" /\ core.pc # "delete" =>
       \A i \in Index : core.id.index < i => acked[i] = Absent

\* An index committable in a term is so in every later one, with every index
\* below it, and all the leaders from that term on have the final log there.
LEMMA CommittableFacts ==
  ASSUME NEW t \in Term, NEW i \in Committable(t)
  PROVE  /\ i \in Index /\ Final[i] \in Term
         /\ \A u \in Term : t <= u => i \in Committable(u) /\ LeaderLog[u][i] = Final[i]
         /\ \A j \in Index : j <= i => j \in Committable(t)
<1>1. i \in Index /\ i \in Int /\ 0 <= i /\ t \in Int /\ t <= MaxTerm /\ MaxTerm \in Term
  BY IndexFacts, MaxTermAssumption DEF Committable, Term
<1>2. \A j \in 0 .. i : \A u \in Term :
        u >= t => LeaderLog[u][j] # Absent /\ LeaderLog[u][j] = LeaderLog[t][j]
  BY DEF Committable
<1>3. i \in 0 .. i /\ MaxTerm >= t
  BY <1>1
<1>4. \A u \in Term : t <= u => LeaderLog[u][i] = Final[i]
  BY <1>1, <1>2, <1>3 DEF Final, Term
<1>5. Final[i] \in Term
  BY <1>1, <1>2, <1>3, LeaderLogAssumption DEF Final
<1>6. ASSUME NEW u \in Term, t <= u PROVE i \in Committable(u)
  <2>1. ASSUME NEW j \in 0 .. i, NEW v \in Term, v >= u
        PROVE  LeaderLog[v][j] # Absent /\ LeaderLog[v][j] = LeaderLog[u][j]
    <3>1. v >= t /\ u >= t
      BY <1>1, <1>6, <2>1 DEF Term
    <3>2. QED
      BY <1>2, <3>1
  <2>2. QED
    BY <1>1, <2>1 DEF Committable
<1>7. ASSUME NEW j \in Index, j <= i PROVE j \in Committable(t)
  <2>1. \A n \in 0 .. j : n \in 0 .. i
    BY <1>1, <1>7, IndexFacts
  <2>2. QED
    BY <1>2, <2>1 DEF Committable
<1>8. QED
  BY <1>1, <1>4, <1>5, <1>6, <1>7

\* The metadata a call records keeps or advances the vote.
LEMMA VoteGrows ==
  ASSUME IInv, VoteInv, [Next]_vars
  PROVE  disk.meta.vote \in Term /\ disk'.meta.vote \in Term /\ disk.meta.vote <= disk'.meta.vote
<1>1. disk.meta \in EzMeta /\ disk'.meta \in EzMeta
  BY StepInv DEF IInv, TypeOK, DiskType
<1>2. disk.meta.vote \in Term /\ disk'.meta.vote \in Term
  BY <1>1 DEF EzMeta
<1>3. core.pc = "positions" => disk.meta.vote <= NewMeta.vote
  BY <1>2, NewMetaFields DEF VoteInv, Term, IInv, TypeOK, CoreType, LogId
<1>4. QED
  BY <1>2, <1>3, MetadataWrites DEF Term

\* A committed position stays one, whatever the node does.
LEMMA SoundKept ==
  ASSUME IInv, LogInv, VoteInv, [Next]_vars, NEW k \in Int, SoundAt(disk, k)
  PROVE  SoundAt(disk', k)
<1> SUFFICES ASSUME k # -1 PROVE SoundAt(disk', k)
  BY DEF SoundAt
<1>1. /\ k \in Committable(disk.meta.vote) /\ k \in Index
      /\ Readable(disk.meta, k) => disk.logs[k] = Final[k]
      /\ LeaderLog[disk.meta.vote][k] = Final[k]
  BY VoteGrows, CommittableFacts DEF SoundAt, Committable, Term
<1>2. k \in Committable(disk'.meta.vote)
  BY <1>1, VoteGrows, CommittableFacts
<1>3. ASSUME Readable(disk'.meta, k) PROVE disk'.logs[k] = Final[k]
  <2>1. disk'.logs[k] = disk.logs[k]
    BY <1>1, <1>3, ReadableKept
  <2>2. CASE disk'.meta = disk.meta
    BY <1>1, <1>3, <2>1, <2>2
  <2>3. CASE core.pc = "positions" /\ disk'.meta = NewMeta
    <3>1. meta = disk.meta
      BY <2>3, NewMetaFields
    <3>2. CASE Readable(meta, k)
      BY <1>1, <2>1, <3>1, <3>2
    <3>3. CASE core.op = "append" /\ LogEnd < k /\ k <= core.id.index
      <4>1. core.next = core.id.index /\ core.id.index \in Int
        BY <2>3, <3>3, PositionTypes DEF IInv, AppendInv
      <4>2. k < core.next \/ k = core.id.index
        BY <3>3, <4>1
      <4>3. disk.logs[k] = Entry(k)
        BY <1>1, <2>3, <3>3, <4>2 DEF LogInv, AppendLog
      <4>4. QED
        BY <1>1, <2>1, <3>1, <4>3 DEF Entry
    <3>4. QED
      BY <1>1, <1>3, <2>3, <3>2, <3>3, NewReadable
  <2>4. QED
    BY <2>2, <2>3, MetadataWrites
<1>4. QED
  BY <1>2, <1>3 DEF SoundAt

-----------------------------------------------------------------------------
(* Where the log ends.                                                     *)

\* The terms of a leader's log never decrease.
LEMMA TermsOrdered ==
  ASSUME NEW t \in Term, NEW i \in Index, NEW j \in Index, j <= i, LeaderLog[t][i] \in Term
  PROVE  LeaderLog[t][j] \in Term /\ LeaderLog[t][j] <= LeaderLog[t][i]
<1>1. j \in 0 .. i
  BY IndexFacts
<1>2. LeaderLog[t][i] # Absent
  BY DEF Term, Absent
<1>3. LeaderLog[t][j] # Absent /\ LeaderLog[t][j] <= LeaderLog[t][i]
  BY <1>1, <1>2, LeaderLogsMatch
<1>4. QED
  BY <1>3, LeaderLogAssumption

\* A committed log id is no later than the leader's entry at a higher index.
LEMMA SoundBefore ==
  ASSUME IInv, NEW id \in LogId, Sound(disk, id), meta = disk.meta,
         NEW i \in Index, Entry(i) \in Term, id.index < i
  PROVE  id.term <= Entry(i)
<1>0. meta.vote \in Term
  BY DEF IInv, TypeOK, EzMeta
<1>1. CASE id.index = -1
  BY <1>1 DEF Sound, FinalId, NoLogId, Term
<1>2. CASE id.index # -1
  <2>1. /\ id.index \in Committable(meta.vote) /\ id.index \in Index
        /\ id.term = Final[id.index]
    BY <1>2, IndexFacts DEF Sound, SoundAt, FinalId
  <2>2. LeaderLog[meta.vote][id.index] = Final[id.index]
    BY <1>0, <2>1, CommittableFacts DEF Term
  <2>3. QED
    BY <1>0, <2>1, <2>2, TermsOrdered, IndexFacts DEF Entry
<1>3. QED
  BY <1>1, <1>2

\* A purge of less than the whole log records no later log id than its last.
LEMMA PurgeBeforeEnd ==
  ASSUME IInv, LogInv, PosInv, PositionsOrdered, core.pc = "positions", core.op = "purge",
         core.id.index < meta.last_log_id.index
  PROVE  core.id.term <= meta.last_log_id.term
<1>1. /\ meta = disk.meta /\ core.id \in LogId /\ meta.last_log_id \in LogId /\ meta.last_purged \in LogId
  BY NewMetaFields DEF IInv, TypeOK, CoreType, EzMeta
<1>2. /\ core.id.term \in Int /\ meta.last_log_id.term \in Int /\ 0 <= meta.last_log_id.term
      /\ meta.last_log_id.term \in Term
  BY <1>1 DEF LogId, Term
<1>3. Sound(disk, core.id) /\ Sound(disk, meta.last_purged)
  BY DEF PosInv, Positions
<1>4. meta.last_purged.index <= core.id.index
  BY DEF IInv, PurgeInv
<1>5. CASE core.id.index = -1
  BY <1>2, <1>3, <1>5 DEF Sound, FinalId, NoLogId
<1>6. CASE core.id.index = meta.last_purged.index
  <2>1. core.id = meta.last_purged
    BY <1>3, <1>6 DEF Sound
  <2>2. QED
    BY <1>1, <1>2, <2>1 DEF PositionsOrdered, LogIdLeq
<1>7. CASE core.id.index # -1 /\ core.id.index # meta.last_purged.index
  <2>1. /\ core.id.index \in Index /\ meta.last_log_id.index \in Index
        /\ Readable(meta, core.id.index) /\ Readable(meta, meta.last_log_id.index)
        /\ meta.last_purged.index < meta.last_log_id.index
    BY <1>1, <1>4, <1>7, IndexFacts DEF Readable
  <2>2. PICK t \in Term : \A i \in Index : Readable(meta, i) => disk.logs[i] = LeaderLog[t][i]
    BY <1>1 DEF LogInv, LogIsOneLeaders
  <2>3. LeaderLog[t][meta.last_log_id.index] = meta.last_log_id.term
    BY <2>1, <2>2 DEF LogInv, LastIdOf
  <2>4. LeaderLog[t][core.id.index] = core.id.term
    BY <1>1, <1>3, <1>7, <2>1, <2>2 DEF Sound, SoundAt, FinalId
  <2>5. QED
    BY <1>1, <1>2, <2>1, <2>3, <2>4, TermsOrdered, IndexFacts
<1>8. QED
  BY <1>5, <1>6, <1>7

\* Making the positions consistent never moves the end of the log back, except
\* to where a truncation asked: what an append or a truncation records is not
\* before the purge point, which is committed.
LEMMA NewEnd ==
  ASSUME IInv, LogInv, PosInv, PositionsOrdered, core.pc = "positions"
  PROVE  /\ core.op # "truncate" => meta.last_log_id.index <= NewMeta.last_log_id.index
         /\ core.op = "append" => NewMeta.last_log_id = core.id
         /\ core.op = "truncate" => NewMeta.last_log_id.index = core.id.index
<1>1. /\ meta = disk.meta /\ core.id \in LogId /\ meta.last_log_id \in LogId /\ meta.last_purged \in LogId
      /\ meta.vote \in Term
  BY NewMetaFields DEF IInv, TypeOK, CoreType, EzMeta
<1>2. /\ core.id.index \in Int /\ meta.last_log_id.index \in Int /\ meta.last_purged.index \in Int
      /\ core.id.term \in Term /\ meta.last_log_id.term \in Int /\ meta.last_purged.term \in Int
      /\ -1 <= core.id.index /\ core.id.index <= MaxIndex /\ -1 <= meta.last_purged.index
      /\ core.id.term \in Int
  BY <1>1, IndexFacts DEF LogId, Term
<1>3. Sound(disk, meta.last_purged)
  BY DEF PosInv, Positions
<1>4. CASE core.op = "vote"
  <2>1. NewMeta.last_log_id = MaxLogId(meta.last_log_id, meta.last_purged)
    BY <1>4, NewMetaFields
  <2>2. QED
    BY <1>1, <1>2, <1>4, <2>1 DEF PositionsOrdered, LogIdLeq, MaxLogId
<1>5. CASE core.op = "append"
  <2>1. /\ meta.last_purged.index < core.id.index /\ meta.last_log_id.index < core.id.index
        /\ Entry(core.id.index) = core.id.term
    BY <1>1, <1>2, <1>5, LogEndFacts DEF IInv, AppendInv, TypeOK, CoreType, LogInv, AppendLog
  <2>2. core.id.index \in Index
    BY <1>2, <2>1, IndexFacts
  <2>3. meta.last_purged.term <= core.id.term
    BY <1>1, <1>2, <1>3, <2>1, <2>2, SoundBefore
  <2>4. NewMeta.last_log_id = core.id
    BY <1>1, <1>2, <1>5, <2>1, <2>3, NewMetaFields, MaxLogIdFacts
  <2>5. QED
    BY <1>2, <1>5, <2>1, <2>4
<1>6. CASE core.op = "truncate"
  <2> DEFINE c == core.id.index + 1
  <2>1. /\ c \in Conflicts /\ \A i \in Conflicts : c <= i
        /\ core.id = IF c = 0 THEN NoLogId ELSE IdAt(c - 1)
    BY <1>6 DEF LogInv, CutInv
  <2>2. meta.last_purged.index < c /\ c <= meta.last_log_id.index
    BY <2>1 DEF Conflicts, Readable
  <2>3. NewMeta.last_log_id \in {core.id, meta.last_purged}
    BY <1>1, <1>6, NewMetaFields, MaxLogIdFacts
  <2>4. CASE meta.last_purged.index = core.id.index
    BY <1>6, <2>3, <2>4
  <2>5. CASE meta.last_purged.index # core.id.index
    <3>1. core.id.index \in Index /\ meta.last_purged.index < core.id.index /\ c - 1 = core.id.index
      BY <1>2, <2>2, <2>5, IndexFacts
    <3>2. Readable(meta, core.id.index) /\ core.id.index \notin Conflicts
      BY <1>2, <2>1, <2>2, <3>1 DEF Readable
    <3>3. core.id.term = Entry(core.id.index)
      <4>1. core.id = [term |-> disk.logs[core.id.index], index |-> core.id.index]
        BY <1>2, <2>1, <2>5, <3>1 DEF IdAt
      <4>2. core.id.term = disk.logs[core.id.index]
        BY <4>1
      <4>3. QED
        BY <3>1, <3>2, <4>2 DEF Conflicts
    <3>4. meta.last_purged.term <= core.id.term
      BY <1>1, <1>2, <1>3, <3>1, <3>3, SoundBefore
    <3>5. QED
      BY <1>1, <1>2, <1>6, <3>1, <3>4, NewMetaFields, MaxLogIdFacts
  <2>6. QED
    BY <2>4, <2>5
<1>7. CASE core.op = "purge"
  <2>1. NewMeta.last_log_id = MaxLogId(meta.last_log_id, core.id)
    BY <1>7, NewMetaFields
  <2>2. core.id.index < meta.last_log_id.index => core.id.term <= meta.last_log_id.term
    BY <1>7, PurgeBeforeEnd
  <2>3. CASE core.id.index < meta.last_log_id.index
    BY <1>1, <1>2, <1>7, <2>1, <2>2, <2>3, MaxLogIdFacts
  <2>4. CASE meta.last_log_id.index <= core.id.index
    BY <1>1, <1>2, <1>7, <2>1, <2>4, MaxLogIdFacts
  <2>5. QED
    BY <1>2, <2>3, <2>4
<1>8. QED
  BY <1>4, <1>5, <1>6, <1>7, NewMetaFields

-----------------------------------------------------------------------------
(* What a step writes to the state machine's side.                         *)

\* Snapshots and states are passed on whole: from the state to a snapshot
\* being built, to the disk and the cache, and back into the state.
LEMMA StateWrites ==
  ASSUME IInv, [Next]_vars
  PROVE  /\ disk'.snap \in {disk.snap, worker.snap, builder.snap}
         /\ sm' \in {sm, RestoredState(worker.snap), RestoredState(disk'.snap)} \/ ApplyNext
         /\ snapshot' \in {snapshot, worker.snap, builder.snap, disk'.snap}
         /\ builder'.snap \in {builder.snap, NoSnapshot, Captured}
         /\ worker'.snap \in {worker.snap, NoSnapshot} \/ RequestInstall
         /\ worker'.upto \in {worker.upto, -1} \/ RequestApply
         /\ worker'.op = "apply" => worker.op = "apply" \/ RequestApply
         /\ known' \in {known, worker.snap.last_log_id, builder.snap.last_log_id,
                        disk'.snap.last_log_id}
         /\ owed' \in {owed, NoLogId, known'} \/ RequestInstall
<1>0. worker \in WorkerType /\ builder \in BuilderType /\ disk \in DiskType
  BY DEF IInv, TypeOK
<1>1. CASE UNCHANGED vars
  BY <1>1 DEF vars, smVars, raftVars
<1>2. CASE CoreStep \/ CoreFailure
  <2>1. UNCHANGED <<smVars, known, owed>>
    BY <1>2 DEF CoreStep, CoreFailure, SavePositionsReturns, raftVars
  <2>2. disk'.snap = disk.snap
    <3>1. CASE CoreTakesMeta \/ CoreTakesStorage
      BY <3>1 DEF CoreTakesMeta, CoreTakesStorage
    <3>2. CASE AppendEntry
      BY <3>2, NextEntryFacts, EntryOps DEF AppendEntry, WithLogs
    <3>3. CASE SavePositionsReturns
      BY <3>3, ReplaceOps DEF SavePositionsReturns, SavePositions, CorePersist, WithMeta
    <3>4. CASE DeleteLogs
      BY <3>4, DeletedUnread DEF DeleteLogs
    <3>5. CASE CoreFailure
      BY <3>5, InterruptedCall DEF CoreFailure, CoreFails
    <3>6. QED
      BY <1>2, <3>1, <3>2, <3>3, <3>4, <3>5 DEF CoreStep
  <2>3. QED
    BY <2>1, <2>2 DEF smVars
<1>3. CASE ReaderStep \/ RequestRead
  BY <1>3
     DEF ReaderStep, ReaderTakesMeta, ReaderTakesStorage, ReaderReads, RequestRead, ReadRequest,
         smVars, raftVars
<1>4. CASE RequestVote \/ RequestAppend \/ RequestTruncate \/ RequestPurge
  BY <1>4 DEF RequestVote, RequestAppend, RequestTruncate, RequestPurge, smVars, raftVars
<1>5. CASE RequestApply
  BY <1>5 DEF RequestApply, ApplyRequest, IdleWorker, raftVars
<1>6. CASE RequestInstall
  BY <1>6 DEF RequestInstall, InstallRequest, IdleWorker
<1>7. CASE RequestBuild
  BY <1>7 DEF RequestBuild, BuildRequest, IdleBuilder, raftVars
<1>8. CASE WorkerStep
  <2>1. UNCHANGED <<owed, builder>> /\ known' \in {known, worker.snap.last_log_id}
    BY <1>8
       DEF WorkerStep, ApplyTakesState, StreamTakesMeta, StreamTakesStorage, ApplyNext,
           ApplyReturns, InstallTakesSnapshot, InstallTakesStorage, InstallPersists,
           InstallReturns, Later
  <2>2. worker' = IdleWorker \/ worker' = [worker EXCEPT !.pc = worker'.pc]
    BY <1>0, <1>8
       DEF WorkerStep, ApplyTakesState, StreamTakesMeta, StreamTakesStorage, ApplyNext,
           ApplyReturns, InstallTakesSnapshot, InstallTakesStorage, InstallPersists,
           InstallReturns, WorkerType
  <2>3. /\ worker'.snap \in {worker.snap, NoSnapshot} /\ worker'.upto \in {worker.upto, -1}
        /\ worker'.op \in {worker.op, "none"}
    BY <1>0, <2>2 DEF WorkerType, IdleWorker
  <2>4. disk' = disk \/ disk' = WithSnap(disk, worker.snap)
    BY <1>8, ReplaceOps
       DEF WorkerStep, ApplyTakesState, StreamTakesMeta, StreamTakesStorage, ApplyNext,
           ApplyReturns, InstallTakesSnapshot, InstallTakesStorage, InstallPersists,
           InstallReturns
  <2>5. /\ sm' \in {sm, RestoredState(worker.snap)} \/ ApplyNext
        /\ snapshot' \in {snapshot, worker.snap}
    BY <1>8
       DEF WorkerStep, ApplyTakesState, StreamTakesMeta, StreamTakesStorage, ApplyNext,
           ApplyReturns, InstallTakesSnapshot, InstallTakesStorage, InstallPersists,
           InstallReturns
  <2>6. QED
    BY <2>1, <2>3, <2>4, <2>5 DEF WithSnap
<1>9. CASE BuilderStep
  <2>1. UNCHANGED <<owed, worker, sm>> /\ known' \in {known, builder.snap.last_log_id}
    BY <1>9
       DEF BuilderStep, BuildCaptures, BuildTakesSnapshot, BuildTakesStorage, BuildReturns, Later
  <2>2. /\ builder'.snap \in {builder.snap, NoSnapshot, Captured}
        /\ snapshot' \in {snapshot, builder.snap}
        /\ disk' = disk \/ disk' = WithSnap(disk, builder.snap)
    BY <1>0, <1>9, ReplaceOps
       DEF BuilderStep, BuildCaptures, BuildTakesSnapshot, BuildTakesStorage, BuildReturns,
           BuilderType, IdleBuilder
  <2>3. QED
    BY <2>1, <2>2 DEF WithSnap
<1>10. CASE StreamFails \/ SnapshotFails
  <2>1. UNCHANGED <<sm, snapshot, known, owed>>
    BY <1>10 DEF StreamFails, SnapshotFails, raftVars
  <2>2. /\ worker' = IdleWorker \/ UNCHANGED worker
        /\ builder' = IdleBuilder \/ UNCHANGED builder
        /\ disk' \in {disk, WithSnap(disk, worker.snap), WithSnap(disk, builder.snap)}
    BY <1>10, ReplaceOps DEF StreamFails, SnapshotFails
  <2>3. QED
    BY <2>1, <2>2 DEF IdleWorker, IdleBuilder, WithSnap
<1>11. CASE Restart
  <2>1. /\ disk' \in Survivors /\ snapshot' = disk'.snap /\ sm' = RestoredState(disk'.snap)
        /\ known' = disk'.snap.last_log_id /\ owed' \in {NoLogId, known'}
        /\ worker' = IdleWorker /\ builder' = IdleBuilder
    BY <1>11 DEF Restart
  <2>2. QED
    BY <2>1, SurvivorSnap DEF IdleWorker, IdleBuilder
<1>12. QED
  BY <1>1, <1>2, <1>3, <1>4, <1>5, <1>6, <1>7, <1>8, <1>9, <1>10, <1>11 DEF Next, Requests

\* A snapshot openraft hands over is the leader's, of a committed index.
LEMMA InstallAsked ==
  ASSUME IInv, RequestInstall
  PROVE  \E i \in Index :
           /\ worker'.snap = SentSnapshot(i) /\ worker'.upto = -1
           /\ owed' = SentSnapshot(i).last_log_id
           /\ SoundAt(disk, i)
<1>1. meta = disk.meta /\ meta.vote \in Term /\ core.op = "none"
  BY DEF RequestInstall, IInv, CallInv, TypeOK, EzMeta
<1>2. PICK i \in Committable(meta.vote) :
        /\ i \notin Conflicts
        /\ worker'.snap = SentSnapshot(i) /\ worker'.upto = -1
        /\ owed' = SentSnapshot(i).last_log_id
  BY DEF RequestInstall, InstallRequest, IdleWorker
<1>3. i \in Index /\ LeaderLog[meta.vote][i] = Final[i]
  BY <1>1, <1>2, CommittableFacts DEF Term
<1>4. SoundAt(disk, i)
  BY <1>1, <1>2, <1>3 DEF SoundAt, Conflicts, Entry
<1>5. QED
  BY <1>2, <1>3, <1>4

\* What openraft has applied, it has found to be the leader's.
LEMMA ApplyAsked ==
  ASSUME IInv, RequestApply
  PROVE  /\ worker'.upto \in Index /\ SoundAt(disk, worker'.upto) /\ meta = disk.meta
         /\ worker'.upto <= meta.last_log_id.index /\ Conflicts = {}
         /\ UNCHANGED <<disk, meta, core>>
<1>1. meta = disk.meta /\ meta.vote \in Term
  BY DEF RequestApply, IInv, CallInv, TypeOK, EzMeta
<1>2. /\ worker'.upto \in Committable(meta.vote) /\ Conflicts = {}
      /\ worker'.upto <= meta.last_log_id.index /\ UNCHANGED <<disk, meta, core>>
  BY DEF RequestApply, ApplyRequest, IdleWorker, logVars
<1>3. worker'.upto \in Index /\ LeaderLog[meta.vote][worker'.upto] = Final[worker'.upto]
  BY <1>1, <1>2, CommittableFacts DEF Term
<1>4. SoundAt(disk, worker'.upto)
  BY <1>1, <1>2, <1>3 DEF SoundAt, Conflicts, Entry
<1>5. QED
  BY <1>1, <1>2, <1>3, <1>4

\* A purge openraft asks for ends at a committed index.
LEMMA PurgeAsked ==
  ASSUME IInv, PosInv, RequestPurge
  PROVE  Sound(disk, core'.id)
<1>1. meta = disk.meta /\ meta.vote \in Term
  BY DEF RequestPurge, Call, IInv, CallInv, TypeOK, EzMeta
<1>2. Sound(disk, known) /\ Sound(disk, owed)
  BY DEF PosInv, Positions
<1>3. \/ core'.id = owed
      \/ /\ Conflicts = {}
         /\ \E i \in Index : Readable(meta, i) /\ i <= known.index /\ core'.id = IdAt(i)
  BY DEF RequestPurge, Call
<1>4. ASSUME Conflicts = {}, NEW i \in Index, Readable(meta, i), i <= known.index
      PROVE  Sound(disk, IdAt(i))
  <2>1. i \in Int /\ 0 <= i /\ known.index \in Int /\ meta.last_purged.index \in Int
    BY PositionTypes, IndexFacts
  <2>2. known.index \in Committable(disk.meta.vote)
    BY <1>2, <1>4, <2>1 DEF Sound, SoundAt
  <2>3. i \in Committable(disk.meta.vote) /\ LeaderLog[disk.meta.vote][i] = Final[i]
    BY <1>1, <1>4, <2>2, CommittableFacts DEF Term
  <2>4. disk.logs[i] = Final[i]
    BY <1>1, <1>4, <2>3 DEF Conflicts, Entry
  <2>5. IdAt(i) = [term |-> Final[i], index |-> i]
    BY <1>4, <2>1, <2>4 DEF IdAt, Readable
  <2>6. IdAt(i) = FinalId(i) /\ IdAt(i).index = i
    BY <2>1, <2>5 DEF FinalId
  <2>7. QED
    BY <2>3, <2>4, <2>6 DEF Sound, SoundAt
<1>5. QED
  BY <1>2, <1>3, <1>4

\* The stream finds the entry it asks for readable, and it is the final one.
LEMMA NextIsFinal ==
  ASSUME IInv, TaskInv, LogInv, OrderInv, PosInv, UptoInv, worker.pc = "read"
  PROVE  /\ NextApplied \in Index /\ Readable(meta, NextApplied)
         /\ NextApplied \in Committable(disk.meta.vote)
         /\ disk.logs[NextApplied] = Final[NextApplied]
<1> USE PositionTypes
<1>1. /\ NextApplied <= worker.upto /\ worker.op = "apply"
      /\ NextApplied \in Int /\ 0 <= NextApplied
  BY IndexFacts
     DEF IInv, StreamInv, TaskInv, JobInv, TypeOK, WorkerType, IdleWorker, NextApplied,
         StateMachineState
<1>2. /\ worker.upto <= disk.meta.last_log_id.index /\ worker.upto <= meta.last_log_id.index
      /\ disk.meta.last_purged.index < NextApplied /\ meta.last_purged.index < NextApplied
  BY <1>1 DEF UptoInv, OrderInv, NextApplied
<1>3. worker.upto \in Committable(disk.meta.vote) /\ disk.meta.vote \in Term
  BY <1>1 DEF PosInv, SoundAt, IInv, TypeOK, DiskType, EzMeta
<1>4. worker.upto \in Index /\ NextApplied \in Index
  <2>1. worker.upto \in Index
    BY <1>3 DEF Committable
  <2>2. QED
    BY <1>1, <2>1, IndexFacts, MaxIndexAssumption
<1>5. /\ Readable(meta, NextApplied) /\ Readable(disk.meta, NextApplied)
      /\ Readable(disk.meta, worker.upto)
  BY <1>1, <1>2 DEF Readable
<1>6. NextApplied \in Committable(disk.meta.vote)
  BY <1>1, <1>3, <1>4, CommittableFacts
<1>7. disk.logs[NextApplied] = Final[NextApplied]
  <2>1. PICK t \in Term : \A i \in Index : Readable(disk.meta, i) => disk.logs[i] = LeaderLog[t][i]
    BY DEF LogInv, LogIsOneLeaders
  <2>2. LeaderLog[t][worker.upto] = LeaderLog[MaxTerm][worker.upto]
    BY <1>1, <1>4, <1>5, <2>1 DEF PosInv, SoundAt, Final
  <2>3. LeaderLog[t][worker.upto] # Absent /\ MaxTerm \in Term
    BY <1>3, <2>2, CommittableFacts, MaxTermAssumption DEF Final, Absent, Term
  <2>4. NextApplied \in 0 .. worker.upto
    BY <1>1
  <2>5. LeaderLog[t][NextApplied] = LeaderLog[MaxTerm][NextApplied]
    BY <1>4, <2>2, <2>3, <2>4, LeaderLogsMatch
  <2>6. QED
    BY <1>4, <1>5, <2>1, <2>5 DEF Final
<1>8. QED
  BY <1>4, <1>5, <1>6, <1>7

\* No step applies, stores, purges or accepts what is not committed.
LEMMA PosStep ==
  ASSUME IInv, TaskInv, LogInv, VoteInv, OrderInv, UptoInv, PosInv, [Next]_vars
  PROVE  PosInv'
<1>1. /\ \A id \in Positions : Sound(disk, id)
      /\ Sound(disk, NoLogId) /\ SoundAt(disk, -1)
  BY DEF PosInv, Sound, SoundAt, FinalId, NoLogId
<1>2. \A i \in Index : SoundAt(disk, i) => Sound(disk, [term |-> Final[i], index |-> i])
  BY IndexFacts DEF Sound, FinalId
<1>3. Sound(disk, disk'.meta.last_purged) /\ Sound(disk, meta'.last_purged)
  <2>1. Sound(disk, disk.meta.last_purged) /\ Sound(disk, meta.last_purged)
    BY <1>1 DEF Positions
  <2>2. core.pc = "positions" => Sound(disk, NewMeta.last_purged)
    BY <2>1, NewMetaFields DEF PosInv
  <2>3. QED
    BY <2>1, <2>2, MetadataWrites
<1>4. Sound(disk, disk'.snap.last_log_id)
  BY <1>1, StateWrites DEF Positions
<1>5. Sound(disk, worker'.snap.last_log_id) /\ Sound(disk, owed') /\ Sound(disk, known')
      /\ SoundAt(disk, worker'.upto)
  <2>1. Sound(disk, known')
    BY <1>1, <1>4, StateWrites DEF Positions
  <2>2. CASE RequestInstall
    BY <1>1, <1>2, <2>1, <2>2, InstallAsked DEF SentSnapshot
  <2>3. CASE ~RequestInstall
    <3>1. Sound(disk, worker'.snap.last_log_id) /\ Sound(disk, owed')
      BY <1>1, <2>1, <2>3, StateWrites DEF Positions, NoSnapshot
    <3>2. SoundAt(disk, worker'.upto)
      BY <1>1, StateWrites, ApplyAsked DEF PosInv
    <3>3. QED
      BY <2>1, <3>1, <3>2
  <2>4. QED
    BY <2>2, <2>3
<1>6. Sound(disk, builder'.snap.last_log_id)
  BY <1>1, StateWrites DEF Positions, NoSnapshot, Captured
<1>7. Sound(disk, sm'.last_applied)
  <2>1. CASE ApplyNext
    <3>1. worker.pc = "read" /\ sm'.last_applied = [term |-> disk.logs[NextApplied], index |-> NextApplied]
      BY <2>1 DEF ApplyNext, ApplyEntry
    <3>2. SoundAt(disk, NextApplied) /\ NextApplied \in Index
      BY <3>1, NextIsFinal DEF SoundAt
    <3>3. QED
      BY <1>2, <3>1, <3>2, NextIsFinal
  <2>2. CASE ~ApplyNext
    BY <1>1, <1>4, <2>2, StateWrites DEF Positions, RestoredState
  <2>3. QED
    BY <2>1, <2>2
<1>8. core'.op = "purge" => Sound(disk, core'.id)
  <2>1. SUFFICES ASSUME core'.op = "purge" PROVE Sound(disk, core'.id)
    OBVIOUS
  <2>2. RequestPurge \/ CallGoesOn \/ CallRecorded
    BY <2>1, CallSteps DEF RequestVote, RequestAppend, RequestTruncate, Call
  <2>3. CallGoesOn \/ CallRecorded => core.op = "purge" /\ core'.id = core.id
    BY <2>1 DEF CallGoesOn, CallRecorded, IInv, TypeOK, CoreType
  <2>4. QED
    BY <2>2, <2>3, PurgeAsked DEF PosInv
<1>9. ASSUME NEW k, SoundAt(disk, k) PROVE SoundAt(disk', k)
  <2>1. CASE k = -1
    BY <2>1 DEF SoundAt
  <2>2. CASE k # -1
    <3>1. k \in Int
      BY <1>9, <2>2, IndexFacts DEF SoundAt, Committable
    <3>2. QED
      BY <1>9, <3>1, SoundKept
  <2>3. QED
    BY <2>1, <2>2
<1>10. \A id : Sound(disk, id) => Sound(disk', id)
  BY <1>9 DEF Sound
<1>11. \A id \in Positions' : Sound(disk, id)
  BY <1>3, <1>4, <1>5, <1>6, <1>7 DEF Positions
<1>12. QED
  BY <1>5, <1>8, <1>9, <1>10, <1>11 DEF PosInv

\* No step takes the end of the log below what the worker was told to apply.
LEMMA UptoStep ==
  ASSUME IInv, LogInv, PosInv, UptoInv, PositionsOrdered, [Next]_vars
  PROVE  UptoInv'
<1> USE PositionTypes
<1>0. /\ disk'.meta.last_log_id.index \in Int /\ -1 <= disk'.meta.last_log_id.index
      /\ meta'.last_log_id.index \in Int /\ -1 <= meta'.last_log_id.index
      /\ core'.id.index \in Int /\ -1 <= core'.id.index
  BY StepInv, IndexFacts DEF IInv, TypeOK, DiskType, EzMeta, CoreType
<1>1. ASSUME worker'.op = "apply", NEW m \in {disk'.meta, meta'}
      PROVE  worker'.upto <= m.last_log_id.index
  <2>1. CASE RequestApply
    BY <1>1, <2>1, ApplyAsked
  <2>2. CASE worker'.upto = -1
    BY <1>0, <1>1, <2>2
  <2>3. CASE worker.op = "apply" /\ worker'.upto = worker.upto
    <3>1. core.pc = "positions" => worker.upto <= NewMeta.last_log_id.index
      <4>1. SUFFICES ASSUME core.pc = "positions" PROVE worker.upto <= NewMeta.last_log_id.index
        OBVIOUS
      <4>2. NewMeta.last_log_id.index \in Int
        BY <4>1, NewMetaFields, IndexFacts DEF EzMeta
      <4>3. QED
        BY <2>3, <4>1, <4>2, NewEnd DEF UptoInv
    <3>2. QED
      BY <1>1, <2>3, <3>1, MetadataWrites DEF UptoInv
  <2>4. QED
    BY <1>1, <2>1, <2>2, <2>3, StateWrites
<1>2. ASSUME core'.op = "truncate", core'.pc # "delete"
      PROVE  worker'.upto <= core'.id.index
  <2>1. RequestTruncate \/ CallGoesOn
    <3>1. ~RequestVote /\ ~RequestAppend /\ ~RequestPurge
      BY <1>2 DEF RequestVote, RequestAppend, RequestPurge, Call
    <3>2. ~CallRecorded
      BY <1>2 DEF CallRecorded, IInv, TypeOK, CoreType
    <3>3. QED
      BY <1>2, <3>1, <3>2, CallSteps
  <2>2. CASE RequestTruncate
    BY <2>2, TruncateAsked DEF BeyondCommitted
  <2>3. CASE CallGoesOn
    <3>1. core.op = "truncate" /\ core.pc # "delete" /\ core'.id = core.id
      BY <1>2, <2>3 DEF CallGoesOn
    <3>2. ~RequestApply
      BY <3>1, ApplyAsked DEF LogInv, CutInv
    <3>3. QED
      BY <1>0, <3>1, <3>2, StateWrites DEF UptoInv
  <2>4. QED
    BY <2>1, <2>2, <2>3
<1>3. QED
  BY <1>1, <1>2 DEF UptoInv

-----------------------------------------------------------------------------
(* What was acknowledged.                                                  *)

\* An entry is acknowledged when the append of it returns; it stops being so
\* when openraft asks for a truncation before it.
LEMMA AckedWrites ==
  ASSUME [Next]_vars
  PROVE  acked' = acked \/ RequestTruncate \/ (SavePositionsReturns /\ core.op = "append")
BY DEF Next, Requests, RequestVote, RequestAppend, RequestPurge, RequestRead, RequestApply,
       RequestInstall, RequestBuild, CoreStep, SavePositionsReturns, CoreFailure, ReaderStep,
       WorkerStep, BuilderStep, StreamFails, SnapshotFails, Restart, vars, raftVars

\* What was there for an index stays there: only a truncation shortens the
\* log, and a purge answers for what it takes.
LEMMA AckedKept ==
  ASSUME IInv, LogInv, PosInv, AckedInv, PositionsOrdered, [Next]_vars,
         NEW i \in Index, acked[i] # Absent
  PROVE  \/ i <= disk'.meta.last_purged.index
         \/ i <= disk'.meta.last_log_id.index /\ disk'.logs[i] = acked[i]
<1> USE PositionTypes, IndexFacts
<1>1. \/ i <= disk.meta.last_purged.index
      \/ i <= disk.meta.last_log_id.index /\ disk.logs[i] = acked[i]
  BY DEF AckedInv, AckedSurvive
<1>2. disk'.meta.last_purged.index \in Int /\ disk'.meta.last_log_id.index \in Int
  BY StepInv DEF IInv, TypeOK, DiskType, EzMeta
<1>3. /\ disk.meta.last_purged.index <= disk'.meta.last_purged.index
      /\ i <= disk.meta.last_log_id.index => i <= disk'.meta.last_log_id.index
  <2>1. CASE disk'.meta = disk.meta
    BY <2>1
  <2>2. CASE core.pc = "positions" /\ disk'.meta = NewMeta
    <3>1. meta = disk.meta
      BY <2>2, NewMetaFields
    <3>2. disk.meta.last_purged.index <= NewMeta.last_purged.index
      BY <2>2, <3>1, NewMetaFields DEF IInv, PurgeInv
    <3>3. i <= disk.meta.last_log_id.index => i <= NewMeta.last_log_id.index
      <4>1. CASE core.op = "truncate"
        BY <2>2, <4>1, NewEnd DEF AckedInv
      <4>2. CASE core.op # "truncate"
        BY <1>2, <2>2, <3>1, <4>2, NewEnd
      <4>3. QED
        BY <4>1, <4>2
    <3>4. QED
      BY <2>2, <3>2, <3>3
  <2>3. QED
    BY <2>1, <2>2, MetadataWrites
<1>4. CASE i <= disk'.meta.last_purged.index
  BY <1>4
<1>5. CASE disk'.meta.last_purged.index < i
  <2>1. i <= disk.meta.last_log_id.index /\ disk.logs[i] = acked[i]
    BY <1>1, <1>2, <1>3, <1>5
  <2>2. Readable(disk'.meta, i)
    BY <1>3, <1>5, <2>1 DEF Readable
  <2>3. QED
    BY <1>3, <2>1, <2>2, ReadableKept
<1>6. QED
  BY <1>2, <1>4, <1>5

\* No step loses what was acknowledged.
LEMMA AckedStep ==
  ASSUME IInv, LogInv, PosInv, AckedInv, PositionsOrdered, [Next]_vars
  PROVE  AckedInv'
<1> USE PositionTypes, IndexFacts
<1>1. ASSUME NEW i \in Index, acked'[i] # Absent
      PROVE  \/ i <= disk'.meta.last_purged.index
             \/ i <= disk'.meta.last_log_id.index /\ disk'.logs[i] = acked'[i]
  <2>1. CASE acked'[i] = acked[i]
    BY <1>1, <2>1, AckedKept
  <2>2. CASE RequestTruncate
    <3>1. acked'[i] = acked[i]
      BY <1>1, <2>2, TruncateAsked
    <3>2. QED
      BY <2>1, <3>1
  <2>3. CASE SavePositionsReturns /\ core.op = "append" /\ core.entries[i] # Absent
    <3>1. /\ acked'[i] = core.entries[i] /\ core.pc = "positions"
          /\ disk'.meta = NewMeta /\ disk'.logs = disk.logs
      BY <2>3, ReplaceOps DEF SavePositionsReturns, SavePositions, CorePersist, WithMeta
    <3>2. LogEnd < i /\ i <= core.id.index /\ core.entries[i] = Entry(i)
      BY <2>3 DEF LogInv, AppendLog
    <3>3. core.next = core.id.index
      BY <2>3, <3>1 DEF IInv, AppendInv
    <3>4. i < core.next \/ i = core.id.index
      BY <3>2, <3>3
    <3>5. disk.logs[i] = Entry(i)
      BY <2>3, <3>1, <3>2, <3>4 DEF LogInv, AppendLog
    <3>6. NewMeta.last_log_id = core.id
      BY <2>3, <3>1, NewEnd
    <3>7. QED
      BY <3>1, <3>2, <3>5, <3>6
  <2>4. CASE SavePositionsReturns /\ core.op = "append" /\ core.entries[i] = Absent
    <3>1. acked'[i] = acked[i]
      BY <2>4 DEF SavePositionsReturns
    <3>2. QED
      BY <2>1, <3>1
  <2>5. QED
    BY <2>1, <2>2, <2>3, <2>4, AckedWrites
<1>2. ASSUME core'.op = "truncate", core'.pc # "delete", NEW i \in Index, core'.id.index < i
      PROVE  acked'[i] = Absent
  <2>1. RequestTruncate \/ CallGoesOn
    <3>1. ~RequestVote /\ ~RequestAppend /\ ~RequestPurge
      BY <1>2 DEF RequestVote, RequestAppend, RequestPurge, Call
    <3>2. ~CallRecorded
      BY <1>2 DEF CallRecorded, IInv, TypeOK, CoreType
    <3>3. QED
      BY <1>2, <3>1, <3>2, CallSteps
  <2>2. CASE RequestTruncate
    <3>1. PICK c \in Int :
            /\ core'.id.index = c - 1
            /\ acked' = [j \in Index |-> IF j < c THEN acked[j] ELSE Absent]
      BY <2>2, TruncateAsked
    <3>2. i \in Int
      OBVIOUS
    <3>3. c - 1 < i
      BY <1>2, <3>1
    <3>4. ~(i < c)
      BY <3>1, <3>2, <3>3
    <3>5. QED
      BY <3>1, <3>4
  <2>3. CASE CallGoesOn /\ ~RequestTruncate
    <3>1. core.op = "truncate" /\ core.pc # "delete" /\ core'.id = core.id
      BY <1>2, <2>3 DEF CallGoesOn
    <3>2. acked' = acked
      BY <2>3, <3>1, AckedWrites
    <3>3. QED
      BY <1>2, <3>1, <3>2 DEF AckedInv
  <2>4. QED
    BY <2>1, <2>2, <2>3
<1>3. QED
  BY <1>1, <1>2 DEF AckedInv, AckedSurvive

\* The positions are committed ones in every behaviour.
LEMMA CommittedInvariance == ASSUME ~Overlap PROVE Spec => [](PosInv /\ UptoInv)
<1>1. Init => PosInv /\ UptoInv
  <2>1. SUFFICES ASSUME Init PROVE PosInv /\ UptoInv
    OBVIOUS
  <2>2. Sound(disk, NoLogId) /\ SoundAt(disk, -1)
    BY DEF Sound, SoundAt, FinalId, NoLogId
  <2>3. \A id \in Positions : id = NoLogId
    BY <2>1 DEF Init, Positions, NoMeta, NoSnapshot, FreshState, IdleWorker, IdleBuilder
  <2>4. core.op = "none" /\ worker.op = "none" /\ worker.upto = -1
    BY <2>1 DEF Init, IdleCore, IdleWorker
  <2>5. QED
    BY <2>2, <2>3, <2>4 DEF PosInv, UptoInv
<1>2. IInv /\ TaskInv /\ LogInv /\ VoteInv /\ OrderInv /\ PositionsOrdered /\ PosInv /\ UptoInv
        /\ [Next]_vars => PosInv' /\ UptoInv'
  BY PosStep, UptoStep
<1>3. QED
  BY <1>1, <1>2, Invariance, TaskInvariance, LogInvariance, VoteInvariance, OrderInvariance,
     PositionsStayOrdered, PTL DEF Spec

\* An entry acknowledged by an append is what a restart finds, or the log is
\* purged past it: a truncation openraft has not asked for below it, a purge, a
\* vote saved beside it and a persist that fails or is cut short all leave it.
THEOREM AckedAlwaysSurvive == ASSUME ~Overlap PROVE Spec => []AckedSurvive
<1>1. Init => AckedInv
  BY DEF Init, AckedInv, AckedSurvive, NoEntries, IdleCore
<1>2. IInv /\ LogInv /\ PosInv /\ PositionsOrdered /\ AckedInv /\ [Next]_vars => AckedInv'
  BY AckedStep
<1>3. AckedInv => AckedSurvive
  BY DEF AckedInv
<1>4. QED
  BY <1>1, <1>2, <1>3, Invariance, LogInvariance, CommittedInvariance, PositionsStayOrdered, PTL
     DEF Spec

\* A reader and the applied stream find every entry of the range they clamped
\* whole for as long as they hold the log's mutexes: what is readable changes
\* only under them, and the state is never behind the purge point.
THEOREM ReadsAlwaysFindWhole == ASSUME ~Overlap PROVE Spec => []ReadsFindWhole
<1>1. IInv /\ TaskInv /\ LogInv /\ OrderInv /\ PosInv /\ UptoInv => ReadsFindWhole
  <2>1. SUFFICES ASSUME IInv, TaskInv, LogInv, OrderInv, PosInv, UptoInv
                 PROVE  ReadsFindWhole
    OBVIOUS
  <2>2. \A i \in Index : Readable(meta, i) => Whole(disk.logs[i])
    BY <2>1 DEF IInv, ReachableWhole
  <2>3. reader.pc = "read" =>
          \A i \in Index : reader.start <= i /\ i < reader.end => Whole(disk.logs[i])
    BY <2>1, <2>2 DEF TaskInv, RangeInv
  <2>4. worker.pc = "read" => Whole(disk.logs[NextApplied]) /\ Readable(meta, NextApplied)
    BY <2>1, <2>2, NextIsFinal
  <2>5. QED
    BY <2>3, <2>4 DEF ReadsFindWhole
<1>2. QED
  BY <1>1, Invariance, TaskInvariance, LogInvariance, OrderInvariance, CommittedInvariance, PTL

-----------------------------------------------------------------------------
(* The application after the log.                                          *)

\* Induction up to a bound, for a set of numbers: were m not in T, taking one
\* from each number up to m outside T would map those numbers one to one into
\* themselves without m, one fewer.
LEMMA UpTo ==
  ASSUME NEW m \in Nat, NEW T, 0 \in T, \A n \in 0 .. m : n < m /\ n \in T => n + 1 \in T
  PROVE  m \in T
<1> SUFFICES ASSUME m \notin T PROVE FALSE
  OBVIOUS
<1> DEFINE U == (0 .. m) \ T
           f == [n \in U |-> n - 1]
<1>1. \A n \in U : n \in Int /\ 0 < n /\ n <= m /\ n - 1 \in U /\ n - 1 # m
  <2> TAKE n \in U
  <2>1. n \in Int /\ 0 < n /\ n <= m
    OBVIOUS
  <2>2. n - 1 \in 0 .. m /\ n - 1 < m /\ (n - 1) + 1 = n
    BY <2>1
  <2>3. QED
    BY <2>1, <2>2
<1>2. f \in [U -> U \ {m}]
  BY <1>1
<1>3. IsFiniteSet(U) /\ IsFiniteSet(U \ {m}) /\ Cardinality(U) \in Nat
      /\ Cardinality(U \ {m}) = Cardinality(U) - 1
  <2>1. IsFiniteSet(0 .. m)
    BY FS_Interval
  <2>2. IsFiniteSet(U)
    BY <2>1, FS_Subset
  <2>3. m \in U
    OBVIOUS
  <2> HIDE DEF U
  <2>4. QED
    BY <2>2, <2>3, FS_RemoveElement, FS_CardinalityType
<1>4. PICK x \in U, y \in U : x # y /\ f[x] = f[y]
  <2> HIDE DEF U, f
  <2>1. Cardinality(U \ {m}) < Cardinality(U)
    BY <1>3
  <2>2. QED
    BY <1>2, <1>3, <2>1, FS_PigeonHole
<1>5. x - 1 = y - 1 /\ x \in Int /\ y \in Int
  BY <1>1, <1>4
<1>6. QED
  BY <1>4, <1>5

\* f is the replay of the log up to n.
Unfolds(f, n) ==
  f = [i \in -1 .. n |-> IF i = -1 THEN FreshState
                         ELSE ApplyEntry(f[i - 1], [term |-> Final[i], index |-> i])]

\* The replay's equation has a solution: the replay up to n extends to n + 1.
LEMMA ReplayExists == \E f : Unfolds(f, MaxIndex)
<1> DEFINE T == {n \in Nat : \E f : Unfolds(f, n - 1)}
<1>1. 0 \in T
  <2> DEFINE f == [i \in -1 .. -1 |-> FreshState]
  <2>1. Unfolds(f, -1)
    BY DEF Unfolds
  <2>2. QED
    BY <2>1
<1>2. ASSUME NEW n \in Nat, n \in T
      PROVE  n + 1 \in T
  <2>1. PICK f : Unfolds(f, n - 1)
    BY <1>2
  <2> DEFINE next == ApplyEntry(f[n - 1], [term |-> Final[n], index |-> n])
             g == [i \in -1 .. n |-> IF i = n THEN next ELSE f[i]]
             h == [i \in -1 .. n |-> IF i = -1 THEN FreshState
                         ELSE ApplyEntry(g[i - 1], [term |-> Final[i], index |-> i])]
  <2>2. \A i \in -1 .. n : g[i] = h[i]
    <3> TAKE i \in -1 .. n
    <3>1. CASE i = n
      <4>1. g[i - 1] = f[n - 1]
        BY <3>1
      <4>2. QED
        BY <3>1, <4>1
    <3>2. CASE i # n /\ i = -1
      BY <3>2, <2>1 DEF Unfolds
    <3>3. CASE i # n /\ i # -1
      <4>1. i \in -1 .. n - 1 /\ i - 1 \in -1 .. n /\ i - 1 # n
        BY <3>3
      <4>2. g[i - 1] = f[i - 1]
        BY <4>1
      <4> DEFINE step(s) == ApplyEntry(s, [term |-> Final[i], index |-> i])
      <4>3. f[i] = step(f[i - 1])
        <5> HIDE DEF step
        <5>1. f = [j \in -1 .. n - 1 |-> IF j = -1 THEN FreshState
                         ELSE ApplyEntry(f[j - 1], [term |-> Final[j], index |-> j])]
          BY <2>1 DEF Unfolds
        <5>2. QED
          BY <5>1, <4>1, <3>3 DEF step
      <4>4. g[i] = f[i] /\ h[i] = step(g[i - 1])
        BY <3>3
      <4>5. QED
        BY <4>2, <4>3, <4>4
    <3>4. QED
      BY <3>1, <3>2, <3>3
  <2>3. g = h
    <3> HIDE DEF next
    <3>1. g = [i \in -1 .. n |-> g[i]] /\ h = [i \in -1 .. n |-> h[i]]
      OBVIOUS
    <3> HIDE DEF g, h
    <3>2. QED
      BY <2>2, <3>1
  <2>4. Unfolds(g, n)
    BY <2>3 DEF Unfolds
  <2>5. (n + 1) - 1 = n /\ n + 1 \in Nat
    OBVIOUS
  <2>6. QED
    BY <2>4, <2>5
<1>3. MaxIndex + 1 \in T
  <2> HIDE DEF T
  <2>1. MaxIndex + 1 \in Nat
    BY MaxIndexAssumption
  <2>2. QED
    BY <1>1, <1>2, <2>1, UpTo
<1>4. ASSUME NEW n \in T, n - 1 = MaxIndex
      PROVE  \E f : Unfolds(f, MaxIndex)
  <2>1. PICK f : Unfolds(f, n - 1)
    OBVIOUS
  <2>2. Unfolds(f, MaxIndex)
    BY <1>4, <2>1
  <2>3. QED
    BY <2>2
<1>5. QED
  <2> HIDE DEF T
  <2>1. PICK n \in T : n = MaxIndex + 1
    BY <1>3, Zenon
  <2>2. n - 1 = MaxIndex
    BY <2>1, MaxIndexAssumption
  <2>3. QED
    BY <1>4, <2>2, Zenon

\* Replay is defined by its equation: it starts fresh, and adds an entry at a time.
LEMMA ReplayUnfolds ==
  /\ Replay[-1] = FreshState
  /\ \A i \in Index :
       Replay[i] = ApplyEntry(Replay[i - 1], [term |-> Final[i], index |-> i])
<1>1. Unfolds(Replay, MaxIndex)
  BY ReplayExists, Zenon DEF Unfolds, Replay
<1>2. Replay = [i \in -1 .. MaxIndex |->
                  IF i = -1 THEN FreshState
                  ELSE ApplyEntry(Replay[i - 1], [term |-> Final[i], index |-> i])]
  BY <1>1 DEF Unfolds
<1>3. -1 \in -1 .. MaxIndex /\ \A i \in Index : i \in -1 .. MaxIndex /\ i # -1
  BY MaxIndexAssumption DEF Index
<1>4. QED
  BY <1>2, <1>3

\* A snapshot's data, membership and position are those of the replay.
Covers(s) == At(s.last_log_id.index, s.last_log_id, s.last_membership, s.app)

\* The snapshot being installed is one of them too.
CoverInv == StateCoversPosition /\ Covers(worker.snap)

\* The leader's snapshots cover their positions, and so does none at all.
LEMMA SentCovers == Covers(NoSnapshot) /\ \A i \in Index : Covers(SentSnapshot(i))
<1>1. Covers(NoSnapshot)
  BY ReplayUnfolds DEF Covers, At, NoSnapshot, NoLogId, FreshState
<1>2. ASSUME NEW i \in Index PROVE Covers(SentSnapshot(i))
  <2>1. Replay[i] = ApplyEntry(Replay[i - 1], [term |-> Final[i], index |-> i])
    BY ReplayUnfolds
  <2>2. Replay[i] = [last_applied |-> [term |-> Final[i], index |-> i],
                     membership |-> Replay[i].membership, app |-> Replay[i].app]
    BY <2>1 DEF ApplyEntry
  <2>3. SentSnapshot(i).last_log_id.index = i
    BY DEF SentSnapshot
  <2>4. QED
    BY <2>2, <2>3 DEF Covers, At, SentSnapshot
<1>3. QED
  BY <1>1, <1>2

\* Applying the next entry of the log is the next step of the replay.
LEMMA NextCovers ==
  ASSUME IInv, TaskInv, LogInv, OrderInv, PosInv, UptoInv, CoverInv, ApplyNext
  PROVE  At(sm'.last_applied.index, sm'.last_applied, sm'.membership, sm'.app)
<1> DEFINE id == [term |-> disk.logs[NextApplied], index |-> NextApplied]
<1>1. worker.pc = "read" /\ sm' = ApplyEntry(sm, id)
  BY DEF ApplyNext
<1>2. NextApplied \in Index /\ id = [term |-> Final[NextApplied], index |-> NextApplied]
  BY <1>1, NextIsFinal
<1>3. NextApplied - 1 = sm.last_applied.index
  BY PositionTypes DEF NextApplied
<1>4. sm = [last_applied |-> sm.last_applied, membership |-> sm.membership, app |-> sm.app]
  BY DEF IInv, TypeOK, StateMachineState
<1>5. Replay[NextApplied - 1] = sm
  BY <1>3, <1>4 DEF CoverInv, StateCoversPosition, At
<1>6. Replay[NextApplied] = sm'
  BY <1>1, <1>2, <1>5, ReplayUnfolds
<1>7. sm'.last_applied.index = NextApplied
  BY <1>1 DEF ApplyEntry
<1>8. sm' = [last_applied |-> sm'.last_applied, membership |-> sm'.membership, app |-> sm'.app]
  BY <1>1 DEF ApplyEntry
<1>9. QED
  BY <1>6, <1>7, <1>8 DEF At

\* No step takes the data and the position apart.
LEMMA CoverStep ==
  ASSUME IInv, TaskInv, LogInv, OrderInv, PosInv, UptoInv, CoverInv, [Next]_vars
  PROVE  CoverInv'
<1>1. /\ Covers(snapshot) /\ Covers(disk.snap) /\ Covers(builder.snap) /\ Covers(worker.snap)
      /\ Covers(Captured) /\ Covers(NoSnapshot)
  BY SentCovers DEF CoverInv, StateCoversPosition, Covers, Captured
<1>2. Covers(disk'.snap) /\ Covers(snapshot') /\ Covers(builder'.snap)
  BY <1>1, StateWrites
<1>3. Covers(worker'.snap)
  BY <1>1, StateWrites, InstallAsked, SentCovers
<1>4. At(sm'.last_applied.index, sm'.last_applied, sm'.membership, sm'.app)
  <2>1. CASE ApplyNext
    BY <2>1, NextCovers
  <2>2. CASE sm' = sm
    BY <2>2 DEF CoverInv, StateCoversPosition
  <2>3. CASE sm' \in {RestoredState(worker.snap), RestoredState(disk'.snap)}
    BY <1>1, <1>2, <2>3 DEF RestoredState, Covers
  <2>4. QED
    BY <2>1, <2>2, <2>3, StateWrites
<1>5. QED
  BY <1>2, <1>3, <1>4 DEF CoverInv, StateCoversPosition, Covers, At

\* The running state, the snapshot served to followers, the one being built
\* and the stored one are each what applying the committed log up to their
\* position makes of the application: every entry once, in order, none of a
\* leader that was overruled, and the position never apart from the data.
THEOREM StateAlwaysCoversPosition == ASSUME ~Overlap PROVE Spec => []StateCoversPosition
<1>1. Init => CoverInv
  <2>1. SUFFICES ASSUME Init PROVE CoverInv
    OBVIOUS
  <2>2. /\ snapshot = NoSnapshot /\ disk.snap = NoSnapshot /\ builder.snap = NoSnapshot
        /\ worker.snap = NoSnapshot /\ sm = FreshState
    BY <2>1 DEF Init, IdleWorker, IdleBuilder
  <2>3. At(sm.last_applied.index, sm.last_applied, sm.membership, sm.app)
    BY <2>2, SentCovers DEF Covers, NoSnapshot, FreshState
  <2>4. QED
    BY <2>2, <2>3, SentCovers DEF CoverInv, StateCoversPosition, Covers
<1>2. IInv /\ TaskInv /\ LogInv /\ OrderInv /\ PosInv /\ UptoInv /\ CoverInv /\ [Next]_vars
        => CoverInv'
  BY CoverStep
<1>3. CoverInv => StateCoversPosition
  BY DEF CoverInv
<1>4. QED
  BY <1>1, <1>2, <1>3, Invariance, TaskInvariance, LogInvariance, OrderInvariance,
     CommittedInvariance, PTL DEF Spec
=============================================================================
