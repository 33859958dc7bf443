----------------------- MODULE StorageAdapter_proofs -----------------------
(***************************************************************************)
(* What holds of the adapter for every log length, every number of terms   *)
(* and every history of leaders: its types, and that the positions never   *)
(* promise what storage does not have.  The two are proved together: the   *)
(* log id a truncation or a purge records is read from an entry, which has *)
(* a term only because the entry is whole.                                 *)
(***************************************************************************)
EXTENDS StorageAdapter, TLAPS

-----------------------------------------------------------------------------
(* The inductive invariant.                                                *)

\* A call in progress is of a known kind at a stage of its kind, and the
\* cached metadata is the stored one until a persist has failed.
CallInv ==
  /\ core.pc = "idle" <=> core.op = "none"
  /\ core.pc = "entries" => core.op = "append"
  /\ core.pc = "delete" => core.op \in {"truncate", "purge"}
  /\ ~failed \/ core.pc # "idle" => meta = disk.meta

\* An append writes past the end of the log, whole entries one after the
\* other, and records the last of them.
AppendInv ==
  core.op = "append" =>
    /\ LogEnd < core.next /\ core.next <= core.id.index
    /\ \A i \in Index : core.next <= i /\ i <= core.id.index => core.entries[i] \in Term
    /\ \A i \in Index : LogEnd < i /\ i < core.next => Whole(disk.logs[i])
    /\ core.pc = "positions" => core.next = core.id.index /\ Whole(disk.logs[core.id.index])

\* A truncation only shortens the log, and deletes only past its end.
TruncateInv ==
  core.op = "truncate" =>
    /\ core.pc # "delete" => core.id.index <= meta.last_log_id.index
    /\ core.pc = "delete" => \A i \in Index : Readable(meta, i) => i <= core.id.index

\* A purge only moves the purge point forward, and deletes only up to it.
PurgeInv ==
  core.op = "purge" =>
    /\ core.pc # "delete" => meta.last_purged.index <= core.id.index
    /\ core.pc = "delete" => \A i \in Index : Readable(meta, i) => core.id.index < i

\* The purge queued behind an installation moves the purge point forward too,
\* and no call is made before it.
OwedInv == owed # NoLogId => core.pc = "idle" /\ meta.last_purged.index <= owed.index

\* The applied stream asks for no entry past its batch.
StreamInv == worker.pc \in {"meta", "read"} => NextApplied <= worker.upto

IInv ==
  /\ TypeOK /\ ReachableWhole
  /\ CallInv /\ AppendInv /\ TruncateInv /\ PurgeInv /\ OwedInv /\ StreamInv

-----------------------------------------------------------------------------
(* What the operations of storage do to the stored state.                  *)

\* Storing metadata or a snapshot leaves the rest of the stored state alone,
\* and interrupted it either did or did not take place.
LEMMA ReplaceOps ==
  ASSUME NEW d, NEW x
  PROVE  /\ Apply(d, MetaOp(x)) = WithMeta(d, x)
         /\ Interrupted(d, MetaOp(x)) = {d, WithMeta(d, x)}
         /\ Apply(d, SnapshotOp(x)) = WithSnap(d, x)
         /\ Interrupted(d, SnapshotOp(x)) = {d, WithSnap(d, x)}
BY DEF Apply, Interrupted, MetaOp, SnapshotOp

\* Storing an entry changes one cell; interrupted it may leave it torn.
LEMMA EntryOps ==
  ASSUME NEW d, NEW i, NEW e
  PROVE  /\ Apply(d, LogEntryOp(i, e)) = WithLogs(d, Put(d.logs, i, e))
         /\ Interrupted(d, LogEntryOp(i, e)) =
              {d, WithLogs(d, Put(d.logs, i, e)), WithLogs(d, Put(d.logs, i, Torn))}
BY DEF Apply, Interrupted, LogEntryOp

\* Deleting a range, whole or in part, leaves metadata, snapshot and every
\* entry outside the range as they were, and each cell of it as it was or empty.
LEMMA DeleteOps ==
  ASSUME NEW d \in DiskType, NEW from \in Int, NEW to \in Int,
         NEW e \in {Apply(d, DeleteLogsOp(from, to))} \cup Interrupted(d, DeleteLogsOp(from, to))
  PROVE  /\ e \in DiskType
         /\ e.meta = d.meta /\ e.snap = d.snap
         /\ \A i \in Index : ~(from <= i /\ i < to) => e.logs[i] = d.logs[i]
<1> DEFINE op == DeleteLogsOp(from, to)
           gone(g) == WithLogs(d, Without(d.logs, g))
<1>0. op.kind = "DeleteLogs" /\ op.from = from /\ op.to = to
  BY DEF DeleteLogsOp
<1>1. \E g \in SUBSET Deleted(op) : e = gone(g)
  <2>1. Apply(d, op) = gone(Deleted(op))
    BY <1>0 DEF Apply
  <2>2. Interrupted(d, op) = {gone(g) : g \in SUBSET {i \in Deleted(op) : d.logs[i] # Absent}}
    BY <1>0 DEF Interrupted
  <2>3. QED
    BY <2>1, <2>2
<1>2. PICK g \in SUBSET Deleted(op) : e = gone(g)
  BY <1>1
<1>3. e.meta = d.meta /\ e.snap = d.snap /\ e.logs = Without(d.logs, g)
  BY <1>2 DEF WithLogs
<1>4. e.logs \in [Index -> Cell]
  BY <1>3 DEF Without, DiskType, Cell
<1>5. e \in DiskType
  BY <1>2, <1>3, <1>4 DEF WithLogs, DiskType
<1>6. ASSUME NEW i \in Index, ~(from <= i /\ i < to)
      PROVE  e.logs[i] = d.logs[i]
  BY <1>0, <1>3, <1>6 DEF Deleted, Without
<1>7. QED
  BY <1>3, <1>5, <1>6

-----------------------------------------------------------------------------
(* Values of their types.                                                  *)

\* What a store, a task and openraft start from.
LEMMA IdleTypes ==
  /\ NoLogId \in LogId /\ NoMeta \in EzMeta /\ NoSnapshot \in Snapshot
  /\ NoEntries \in [Index -> Term \cup {Absent}]
  /\ IdleCore \in CoreType /\ IdleReader \in ReaderType
  /\ IdleWorker \in WorkerType /\ IdleBuilder \in BuilderType
  /\ FreshState \in StateMachineState /\ AllFree \in [Mutex -> Task \cup {"free"}]
<1>1. NoLogId \in LogId
  BY MaxIndexAssumption, MaxTermAssumption DEF NoLogId, LogId, Term
<1>2. 0 \in Term /\ 0 \in 0 .. MaxIndex + 1 /\ -1 \in -1 .. MaxIndex /\ <<>> \in App
  BY MaxIndexAssumption, MaxTermAssumption DEF Term, App
<1>3. NoMeta \in EzMeta /\ NoSnapshot \in Snapshot /\ FreshState \in StateMachineState
  BY <1>1, <1>2 DEF NoMeta, EzMeta, NoSnapshot, Snapshot, FreshState, StateMachineState
<1>4. NoEntries \in [Index -> Term \cup {Absent}]
  BY DEF NoEntries
<1>5. IdleCore \in CoreType /\ IdleReader \in ReaderType
  BY <1>1, <1>2, <1>4 DEF IdleCore, CoreType, CoreOp, CorePc, IdleReader, ReaderType
<1>6. IdleWorker \in WorkerType /\ IdleBuilder \in BuilderType
  BY <1>2, <1>3 DEF IdleWorker, WorkerType, IdleBuilder, BuilderType
<1>7. AllFree \in [Mutex -> Task \cup {"free"}]
  BY DEF AllFree
<1>8. QED
  BY <1>1, <1>3, <1>4, <1>5, <1>6, <1>7

\* The mutexes stay mutexes, whoever takes or gives them up.
LEMMA LockTypes ==
  ASSUME lock \in [Mutex -> Task \cup {"free"}]
  PROVE  /\ \A m \in Mutex, t \in Task : Acquire(m, t) => lock' \in [Mutex -> Task \cup {"free"}]
         /\ \A ms : Release(ms) => lock' \in [Mutex -> Task \cup {"free"}]
BY DEF Acquire, Release, Released

\* The integers a log id's index ranges over.
LEMMA IndexFacts ==
  /\ Index \subseteq Int /\ Index \subseteq -1 .. MaxIndex
  /\ \A i \in Int : i \in Index <=> 0 <= i /\ i <= MaxIndex
  /\ \A id \in LogId : id.index \in Int /\ -1 <= id.index /\ id.index <= MaxIndex
  /\ \A e \in Cell : Whole(e) <=> e \in Term
BY MaxIndexAssumption, MaxTermAssumption
   DEF Index, LogId, Cell, Whole, Term, Absent, Torn

\* The last index is one of the two positions', and neither is past it.
LEMMA LogEndFacts ==
  ASSUME meta \in EzMeta
  PROVE  /\ LogEnd \in -1 .. MaxIndex
         /\ meta.last_log_id.index <= LogEnd /\ meta.last_purged.index <= LogEnd
BY IndexFacts DEF LogEnd, EzMeta

-----------------------------------------------------------------------------
(* The metadata a call records.                                            *)

\* Recording a position keeps every type, and what it leaves readable was
\* readable before or was just appended; a truncation and a purge leave
\* nothing readable of the range they go on to delete.
LEMMA NewMetaFacts ==
  ASSUME IInv, core.pc = "positions"
  PROVE  /\ NewMeta \in EzMeta
         /\ \A i \in Index : Readable(NewMeta, i) => Whole(disk.logs[i])
         /\ core.op = "truncate" => \A i \in Index : Readable(NewMeta, i) => i <= core.id.index
         /\ core.op = "purge" => \A i \in Index : Readable(NewMeta, i) => core.id.index < i
<1> USE IndexFacts
<1>1. meta \in EzMeta /\ core \in CoreType /\ core.id \in LogId
  BY DEF IInv, TypeOK, CoreType
<1>2. core.op \in {"vote", "append", "truncate", "purge"}
  BY <1>1 DEF IInv, CallInv, CoreType, CoreOp
<1> DEFINE recorded == CASE core.op = "vote"  -> [meta EXCEPT !.vote = core.id.term]
                         [] core.op = "purge" -> [meta EXCEPT !.last_purged = core.id]
                         [] OTHER             -> [meta EXCEPT !.last_log_id = core.id]
<1>3. /\ recorded \in EzMeta
      /\ core.op = "vote" => /\ recorded.last_log_id = meta.last_log_id
                             /\ recorded.last_purged = meta.last_purged
      /\ core.op = "purge" => /\ recorded.last_log_id = meta.last_log_id
                              /\ recorded.last_purged = core.id
      /\ core.op \in {"append", "truncate"} => /\ recorded.last_log_id = core.id
                                               /\ recorded.last_purged = meta.last_purged
  BY <1>1, <1>2 DEF EzMeta, LogId
<1>4. /\ NewMeta \in EzMeta
      /\ NewMeta.last_purged = recorded.last_purged
      /\ NewMeta.last_log_id \in {recorded.last_log_id, recorded.last_purged}
  BY <1>3 DEF NewMeta, PersistMeta, MaxLogId, EzMeta
<1>5. ASSUME NEW i \in Index, Readable(NewMeta, i)
      PROVE  /\ Whole(disk.logs[i])
             /\ core.op = "truncate" => i <= core.id.index
             /\ core.op = "purge" => core.id.index < i
  <2>1. /\ recorded.last_purged.index < i /\ i <= recorded.last_log_id.index
    BY <1>3, <1>4, <1>5 DEF Readable, EzMeta
  <2>2. CASE core.op = "vote"
    BY <2>1, <2>2, <1>3 DEF IInv, ReachableWhole, Readable
  <2>3. CASE core.op = "purge"
    <3>1. Readable(meta, i)
      BY <2>1, <2>3, <1>1, <1>3 DEF IInv, PurgeInv, Readable, EzMeta
    <3>2. QED
      BY <3>1, <2>1, <2>3, <1>3 DEF IInv, ReachableWhole
  <2>4. CASE core.op = "truncate"
    <3>1. Readable(meta, i)
      BY <2>1, <2>4, <1>1, <1>3 DEF IInv, TruncateInv, Readable, EzMeta
    <3>2. QED
      BY <3>1, <2>1, <2>4, <1>3 DEF IInv, ReachableWhole
  <2>5. CASE core.op = "append"
    <3>1. meta.last_purged.index < i /\ i <= core.id.index
      BY <2>1, <2>5, <1>3
    <3>2. CASE i <= LogEnd
      <4>1. Readable(meta, i)
        BY <3>1, <3>2, <1>1 DEF LogEnd, Readable, EzMeta
      <4>2. QED
        BY <4>1, <2>5 DEF IInv, ReachableWhole
    <3>3. CASE LogEnd < i
      BY <3>1, <3>3, <2>5, <1>1 DEF IInv, AppendInv, CoreType
    <3>4. QED
      BY <3>2, <3>3, <1>1, LogEndFacts
  <2>6. QED
    BY <2>2, <2>3, <2>4, <2>5, <1>2
<1>6. QED
  BY <1>4, <1>5

-----------------------------------------------------------------------------
(* The steps of a call.                                                    *)

\* Waiting for a mutex and taking it changes the call's stage alone.
LEMMA CoreTakesInv ==
  ASSUME IInv, CoreTakesMeta \/ CoreTakesStorage, UNCHANGED <<smVars, raftVars>>
  PROVE  IInv'
<1> USE IndexFacts
<1>1. /\ core.pc \in {"meta", "storage"}
      /\ core'.pc \in {"storage", "entries", "positions"}
      /\ core'.pc = "entries" => core.op = "append"
      /\ core'.pc = "positions" => core.op # "append"
      /\ core' = [core EXCEPT !.pc = core'.pc]
  BY DEF CoreTakesMeta, CoreTakesStorage, NextStage, IInv, TypeOK, CoreType
<1>2. /\ core' \in CoreType
      /\ core'.op = core.op /\ core'.id = core.id
      /\ core'.entries = core.entries /\ core'.next = core.next
  BY <1>1 DEF IInv, TypeOK, CoreType, CorePc
<1>3. UNCHANGED <<disk, meta, reader, failed, smVars, raftVars>>
  BY DEF CoreTakesMeta, CoreTakesStorage
<1>4. lock' \in [Mutex -> Task \cup {"free"}]
  BY LockTypes DEF CoreTakesMeta, CoreTakesStorage, IInv, TypeOK, Mutex, Task
<1>5. TypeOK'
  BY <1>2, <1>3, <1>4 DEF IInv, TypeOK, smVars, raftVars
<1>6. ReachableWhole'
  BY <1>3 DEF IInv, ReachableWhole, Readable
<1>7. CallInv' /\ OwedInv'
  BY <1>1, <1>2, <1>3 DEF IInv, CallInv, OwedInv, raftVars, TypeOK, CoreType, CoreOp
<1>8. AppendInv'
  BY <1>1, <1>2, <1>3 DEF IInv, AppendInv, LogEnd
<1>9. TruncateInv' /\ PurgeInv'
  BY <1>1, <1>2, <1>3 DEF IInv, TruncateInv, PurgeInv, Readable
<1>10. StreamInv'
  BY <1>3 DEF IInv, StreamInv, NextApplied, smVars
<1>11. QED
  BY <1>5, <1>6, <1>7, <1>8, <1>9, <1>10 DEF IInv

\* The entry an append is about to write: past the end of the log, of its type.
LEMMA NextEntryFacts ==
  ASSUME IInv, core.pc = "entries"
  PROVE  /\ core.op = "append" /\ meta = disk.meta
         /\ core.next \in Index /\ core.entries[core.next] \in Term
         /\ core.id.index \in Index /\ core.next <= core.id.index
         /\ LogEnd < core.next
         /\ CorePersist = LogEntryOp(core.next, core.entries[core.next])
<1>1. core.op = "append" /\ meta = disk.meta
  BY DEF IInv, CallInv
<1>2. /\ core.next \in 0 .. MaxIndex + 1 /\ core.id \in LogId
      /\ LogEnd < core.next /\ core.next <= core.id.index
  BY <1>1 DEF IInv, TypeOK, CoreType, AppendInv
<1>3. core.next \in Index /\ core.id.index \in Index
  BY <1>2, IndexFacts, MaxIndexAssumption
<1>4. core.entries[core.next] \in Term
  BY <1>1, <1>2, <1>3, IndexFacts DEF IInv, AppendInv
<1>5. CorePersist = LogEntryOp(core.next, core.entries[core.next])
  BY DEF CorePersist
<1>6. QED
  BY <1>1, <1>2, <1>3, <1>4, <1>5

\* Writing a cell past the end of the log: every other cell, and so every
\* readable one, is what it was.
LEMMA CellWritten ==
  ASSUME IInv, core.pc = "entries", NEW cell \in Cell, NEW d,
         d = WithLogs(disk, Put(disk.logs, core.next, cell))
  PROVE  /\ d \in DiskType /\ d.meta = disk.meta /\ d.snap = disk.snap
         /\ d.logs[core.next] = cell
         /\ \A i \in Index : i # core.next => d.logs[i] = disk.logs[i]
         /\ \A i \in Index : Readable(meta, i) => i # core.next
<1>1. disk \in DiskType /\ meta \in EzMeta
  BY DEF IInv, TypeOK
<1>2. d.meta = disk.meta /\ d.snap = disk.snap /\ d.logs = [disk.logs EXCEPT ![core.next] = cell]
  BY DEF WithLogs, Put
<1>3. d.logs \in [Index -> Cell]
  BY <1>1, <1>2 DEF DiskType
<1>4. d \in DiskType
  BY <1>1, <1>3 DEF WithLogs, Put, DiskType
<1>5. d.logs[core.next] = cell /\ \A i \in Index : i # core.next => d.logs[i] = disk.logs[i]
  BY <1>1, <1>2, NextEntryFacts DEF DiskType
<1>6. \A i \in Index : Readable(meta, i) => i # core.next
  BY <1>1, NextEntryFacts, LogEndFacts, IndexFacts DEF Readable, EzMeta
<1>7. QED
  BY <1>2, <1>4, <1>5, <1>6

\* Writing an entry touches nothing a read reaches.
LEMMA AppendEntryInv ==
  ASSUME IInv, AppendEntry, UNCHANGED <<smVars, raftVars>>
  PROVE  IInv'
<1> USE IndexFacts
<1>1. core.pc = "entries" /\ UNCHANGED <<lock, meta, reader, failed, smVars, raftVars>>
  BY DEF AppendEntry
<1>2. /\ core.op = "append" /\ meta = disk.meta
      /\ core.next \in Index /\ core.entries[core.next] \in Term
      /\ core.id.index \in Index /\ core.next <= core.id.index
      /\ LogEnd < core.next
  BY <1>1, NextEntryFacts
<1>i. /\ core.next \in Int /\ core.id.index \in Int
      /\ 0 <= core.next /\ core.id.index <= MaxIndex /\ MaxIndex \in Int
  BY <1>2, MaxIndexAssumption DEF Index
<1> DEFINE cell == core.entries[core.next]
<1>3. disk' = WithLogs(disk, Put(disk.logs, core.next, cell)) /\ cell \in Cell
  BY <1>1, <1>2, NextEntryFacts, EntryOps DEF AppendEntry, Cell
<1>4. /\ disk' \in DiskType /\ disk'.meta = disk.meta
      /\ Whole(disk'.logs[core.next])
      /\ \A i \in Index : i # core.next => disk'.logs[i] = disk.logs[i]
      /\ \A i \in Index : Readable(meta, i) => i # core.next
  BY <1>1, <1>2, <1>3, CellWritten
<1>5. /\ core' \in CoreType
      /\ core'.op = "append" /\ core'.id = core.id /\ core'.entries = core.entries
      /\ \/ core.next = core.id.index /\ core'.pc = "positions" /\ core'.next = core.next
         \/ core.next < core.id.index /\ core'.pc = "entries" /\ core'.next = core.next + 1
  <2>1. core \in CoreType
    BY DEF IInv, TypeOK
  <2>2. CASE core.next = core.id.index
    <3>1. core' = [core EXCEPT !.pc = "positions"]
      BY <2>2, <1>1, <1>2 DEF AppendEntry, NextStage
    <3>2. QED
      BY <3>1, <2>1, <2>2, <1>2 DEF CoreType, CorePc
  <2>3. CASE core.next # core.id.index
    <3>1. core' = [core EXCEPT !.next = core.next + 1]
      BY <2>3 DEF AppendEntry
    <3>2. core.next < core.id.index /\ core.next + 1 \in 0 .. MaxIndex + 1
      BY <2>3, <1>2, <1>i
    <3>3. QED
      BY <3>1, <3>2, <2>1, <1>1, <1>2 DEF CoreType
  <2>4. QED
    BY <2>2, <2>3
<1>6. TypeOK'
  BY <1>1, <1>4, <1>5 DEF IInv, TypeOK, smVars, raftVars
<1>7. ReachableWhole'
  BY <1>1, <1>2, <1>4 DEF IInv, ReachableWhole, Readable
<1>8. CallInv' /\ OwedInv'
  BY <1>1, <1>2, <1>4, <1>5 DEF IInv, CallInv, OwedInv, raftVars
<1>9. AppendInv'
  <2>1. LogEnd' = LogEnd /\ LogEnd \in Int
    BY <1>1, LogEndFacts DEF LogEnd, IInv, TypeOK
  <2>2. LogEnd < core'.next /\ core'.next <= core.id.index
    BY <2>1, <1>2, <1>i, <1>5
  <2>3. \A i \in Index : core'.next <= i /\ i <= core.id.index => core.entries[i] \in Term
    BY <1>2, <1>i, <1>5 DEF IInv, AppendInv
  <2>4. ASSUME NEW i \in Index, LogEnd < i, i < core'.next
        PROVE  Whole(disk'.logs[i])
    <3>1. i = core.next \/ (i # core.next /\ i < core.next)
      BY <2>4, <1>2, <1>i, <1>5
    <3>2. QED
      BY <3>1, <2>4, <1>2, <1>4 DEF IInv, AppendInv
  <2>5. core'.pc = "positions" => core'.next = core.id.index /\ Whole(disk'.logs[core.id.index])
    BY <1>4, <1>5
  <2>6. QED
    BY <1>5, <2>1, <2>2, <2>3, <2>4, <2>5 DEF AppendInv
<1>10. TruncateInv' /\ PurgeInv'
  BY <1>5 DEF TruncateInv, PurgeInv
<1>11. StreamInv'
  BY <1>1 DEF IInv, StreamInv, NextApplied, smVars
<1>12. QED
  BY <1>6, <1>7, <1>8, <1>9, <1>10, <1>11 DEF IInv

\* Recording the positions leaves nothing readable that is not whole, and the
\* range deleted next out of reach.
LEMMA SavePositionsInv ==
  ASSUME IInv, SavePositionsReturns
  PROVE  IInv'
<1>1. /\ core.pc = "positions" /\ meta' = NewMeta
      /\ UNCHANGED <<reader, failed, smVars, known, owed>>
  BY DEF SavePositionsReturns, SavePositions
<1>2. CorePersist = MetaOp(NewMeta)
  BY <1>1 DEF CorePersist
<1>3. disk' = WithMeta(disk, NewMeta)
  BY <1>2, ReplaceOps DEF SavePositionsReturns, SavePositions
<1>4. /\ NewMeta \in EzMeta
      /\ \A i \in Index : Readable(NewMeta, i) => Whole(disk.logs[i])
      /\ core.op = "truncate" => \A i \in Index : Readable(NewMeta, i) => i <= core.id.index
      /\ core.op = "purge" => \A i \in Index : Readable(NewMeta, i) => core.id.index < i
  BY <1>1, NewMetaFacts
<1>5. disk' \in DiskType /\ disk'.meta = NewMeta /\ disk'.logs = disk.logs
  BY <1>3, <1>4 DEF WithMeta, DiskType, IInv, TypeOK
<1>6. \/ /\ core.op \in {"truncate", "purge"} /\ core' = [core EXCEPT !.pc = "delete"]
         /\ lock' = lock
      \/ core.op \notin {"truncate", "purge"} /\ core' = IdleCore /\ Release({"meta", "storage"})
  BY <1>1 DEF SavePositionsReturns, SavePositions, GoTo, NextStage
<1>7. /\ core' \in CoreType
      /\ \/ /\ core.op \in {"truncate", "purge"} /\ core'.pc = "delete"
            /\ core'.op = core.op /\ core'.id = core.id
         \/ core'.op = "none" /\ core'.pc = "idle"
  BY <1>6, IdleTypes DEF IInv, TypeOK, CoreType, CorePc, IdleCore
<1>8. lock' \in [Mutex -> Task \cup {"free"}]
  BY <1>6, LockTypes DEF IInv, TypeOK
<1>9. promised' \in Term /\ acked' \in [Index -> Term \cup {Absent}]
  BY DEF SavePositionsReturns, IInv, TypeOK, CoreType, LogId
<1>10. TypeOK'
  BY <1>1, <1>4, <1>5, <1>7, <1>8, <1>9 DEF IInv, TypeOK, smVars
<1>11. ReachableWhole'
  BY <1>1, <1>4, <1>5 DEF ReachableWhole, Readable
<1>12. CallInv' /\ OwedInv'
  BY <1>1, <1>5, <1>7 DEF IInv, CallInv, OwedInv
<1>13. AppendInv' /\ TruncateInv' /\ PurgeInv'
  BY <1>1, <1>4, <1>7 DEF AppendInv, TruncateInv, PurgeInv, Readable
<1>14. StreamInv'
  BY <1>1 DEF IInv, StreamInv, NextApplied, smVars
<1>15. QED
  BY <1>10, <1>11, <1>12, <1>13, <1>14 DEF IInv

\* Deleting a range, whole or in part, leaves every readable entry as it was.
LEMMA DeletedUnread ==
  ASSUME IInv, core.pc = "delete",
         NEW d \in {Apply(disk, CorePersist)} \cup Interrupted(disk, CorePersist)
  PROVE  /\ d \in DiskType /\ d.meta = disk.meta /\ d.snap = disk.snap
         /\ \A i \in Index : Readable(meta, i) \/ Readable(disk.meta, i) =>
              d.logs[i] = disk.logs[i] /\ Whole(d.logs[i])
<1>1. /\ meta = disk.meta /\ disk \in DiskType /\ core.id \in LogId
      /\ core.op \in {"truncate", "purge"}
  BY DEF IInv, CallInv, TypeOK, CoreType
<1>2. core.id.index \in Int /\ -1 <= core.id.index /\ core.id.index <= MaxIndex
  BY <1>1, IndexFacts
<1>3. PICK from \in Int, to \in Int :
        /\ CorePersist = DeleteLogsOp(from, to)
        /\ core.op = "truncate" => from = core.id.index + 1
        /\ core.op = "purge" => to = core.id.index + 1
  <2>1. CorePersist = DeleteLogsOp(DeleteRange.from, DeleteRange.to)
    BY DEF CorePersist
  <2>2. CASE core.op = "truncate"
    <3>1. DeleteRange.from = core.id.index + 1 /\ DeleteRange.to = MaxIndex + 1
      BY <2>2 DEF DeleteRange, DeleteLogsOp
    <3>2. core.id.index + 1 \in Int /\ MaxIndex + 1 \in Int
      BY <1>2, MaxIndexAssumption
    <3>3. QED
      BY <2>1, <2>2, <3>1, <3>2
  <2>3. CASE core.op = "purge"
    <3>1. DeleteRange.from = 0 /\ DeleteRange.to = core.id.index + 1
      BY <2>3 DEF DeleteRange, DeleteLogsOp
    <3>2. core.id.index + 1 \in Int /\ 0 \in Int
      BY <1>2
    <3>3. QED
      BY <2>1, <2>3, <3>1, <3>2
  <2>4. QED
    BY <2>2, <2>3, <1>1
<1>4. /\ d \in DiskType /\ d.meta = disk.meta /\ d.snap = disk.snap
      /\ \A i \in Index : ~(from <= i /\ i < to) => d.logs[i] = disk.logs[i]
  <2>1. d \in {Apply(disk, DeleteLogsOp(from, to))} \cup Interrupted(disk, DeleteLogsOp(from, to))
    BY <1>3, Zenon
  <2>2. QED
    BY <1>1, <2>1, DeleteOps
<1>5. ASSUME NEW i \in Index, Readable(meta, i)
      PROVE  ~(from <= i /\ i < to)
  <2>1. i \in Int
    BY IndexFacts
  <2>2. core.op = "truncate" => i <= core.id.index
    BY <1>5 DEF IInv, TruncateInv
  <2>3. core.op = "purge" => core.id.index < i
    BY <1>5 DEF IInv, PurgeInv
  <2>4. QED
    BY <1>1, <1>2, <1>3, <2>1, <2>2, <2>3
<1>6. QED
  BY <1>1, <1>4, <1>5 DEF IInv, ReachableWhole

\* Deleting the range of a truncation or a purge ends the call.
LEMMA DeleteLogsInv ==
  ASSUME IInv, DeleteLogs, UNCHANGED <<smVars, raftVars>>
  PROVE  IInv'
<1>1. core.pc = "delete" /\ UNCHANGED <<meta, reader, failed, smVars, raftVars>>
  BY DEF DeleteLogs
<1>2. /\ disk' \in DiskType /\ disk'.meta = disk.meta
      /\ \A i \in Index : Readable(meta, i) \/ Readable(disk.meta, i) => Whole(disk'.logs[i])
  BY <1>1, DeletedUnread DEF DeleteLogs
<1>3. core' = IdleCore /\ Release({"meta", "storage"})
  BY <1>1 DEF DeleteLogs, GoTo, NextStage
<1>4. core' \in CoreType /\ core'.op = "none" /\ core'.pc = "idle"
  BY <1>3, IdleTypes DEF IdleCore
<1>5. TypeOK'
  BY <1>1, <1>2, <1>3, <1>4, LockTypes DEF IInv, TypeOK, smVars, raftVars
<1>6. ReachableWhole'
  BY <1>1, <1>2 DEF ReachableWhole, Readable
<1>7. CallInv' /\ OwedInv' /\ AppendInv' /\ TruncateInv' /\ PurgeInv' /\ StreamInv'
  BY <1>1, <1>2, <1>4
     DEF IInv, CallInv, OwedInv, AppendInv, TruncateInv, PurgeInv, StreamInv, NextApplied,
         smVars, raftVars
<1>8. QED
  BY <1>5, <1>6, <1>7 DEF IInv

\* Whatever a cut-short persist of the log's side leaves, both the metadata
\* it leaves and the cache's promise only whole entries that were there before.
LEMMA InterruptedCall ==
  ASSUME IInv, Persisting, NEW d \in Interrupted(disk, CorePersist)
  PROVE  /\ d \in DiskType /\ d.snap = disk.snap
         /\ d.meta \in {disk.meta, NewMeta}
         /\ \A i \in Index :
              Readable(d.meta, i) => d.logs[i] = disk.logs[i] /\ Whole(d.logs[i])
         /\ \A i \in Index :
              Readable(IF core.pc = "positions" THEN NewMeta ELSE meta, i) =>
                d.logs[i] = disk.logs[i] /\ Whole(d.logs[i])
<1>0. disk \in DiskType /\ meta = disk.meta
  BY DEF IInv, TypeOK, CallInv, Persisting
<1>1. CASE core.pc = "entries"
  <2>1. /\ core.entries[core.next] \in Cell /\ Torn \in Cell
        /\ core.next \in Index
        /\ CorePersist = LogEntryOp(core.next, core.entries[core.next])
    BY <1>1, NextEntryFacts DEF Cell
  <2>2. \/ d = disk
        \/ \E cell \in Cell : d = WithLogs(disk, Put(disk.logs, core.next, cell))
    BY <2>1, EntryOps
  <2> DEFINE Unread == /\ d \in DiskType /\ d.meta = disk.meta /\ d.snap = disk.snap
                       /\ \A i \in Index : Readable(meta, i) => d.logs[i] = disk.logs[i]
  <2>3. Unread
    <3>1. CASE d = disk
      BY <3>1, <1>0
    <3>2. ASSUME NEW cell \in Cell, d = WithLogs(disk, Put(disk.logs, core.next, cell))
          PROVE  Unread
      BY <3>2, <1>1, CellWritten
    <3>3. QED
      BY <2>2, <3>1, <3>2
  <2>4. QED
    BY <1>0, <1>1, <2>3 DEF IInv, ReachableWhole
<1>2. CASE core.pc = "positions"
  <2>1. CorePersist = MetaOp(NewMeta)
    BY <1>2 DEF CorePersist
  <2>2. d = disk \/ d = WithMeta(disk, NewMeta)
    BY <2>1, ReplaceOps
  <2>3. /\ NewMeta \in EzMeta
        /\ \A i \in Index : Readable(NewMeta, i) => Whole(disk.logs[i])
    BY <1>2, NewMetaFacts
  <2>4. d \in DiskType /\ d.meta \in {disk.meta, NewMeta} /\ d.snap = disk.snap /\ d.logs = disk.logs
    BY <2>2, <2>3, <1>0 DEF WithMeta, DiskType
  <2>5. QED
    BY <1>2, <2>3, <2>4 DEF IInv, ReachableWhole
<1>3. CASE core.pc = "delete"
  BY <1>0, <1>3, DeletedUnread
<1>4. QED
  BY <1>1, <1>2, <1>3 DEF Persisting

\* A call that returns an error leaves only whole entries within reach.
LEMMA CoreFailureInv ==
  ASSUME IInv, CoreFailure
  PROVE  IInv'
<1>1. /\ Persisting /\ disk' \in Interrupted(disk, CorePersist)
      /\ meta' = IF core.pc = "positions" THEN NewMeta ELSE meta
      /\ core' = IdleCore /\ Release({"meta", "storage"}) /\ failed' = TRUE
      /\ UNCHANGED <<reader, smVars, raftVars>>
  BY DEF CoreFailure, CoreFails, GoTo
<1>2. /\ disk' \in DiskType
      /\ \A i \in Index : Readable(disk'.meta, i) \/ Readable(meta', i) => Whole(disk'.logs[i])
  BY <1>1, InterruptedCall
<1>3. meta' \in EzMeta
  BY <1>1, NewMetaFacts DEF IInv, TypeOK
<1>4. core' \in CoreType /\ core'.op = "none" /\ core'.pc = "idle"
  BY <1>1, IdleTypes DEF IdleCore
<1>5. TypeOK'
  BY <1>1, <1>2, <1>3, <1>4, LockTypes DEF IInv, TypeOK, smVars, raftVars
<1>6. ReachableWhole'
  BY <1>2 DEF ReachableWhole, Readable
<1>7. CallInv' /\ AppendInv' /\ TruncateInv' /\ PurgeInv' /\ StreamInv'
  BY <1>1, <1>4
     DEF IInv, CallInv, AppendInv, TruncateInv, PurgeInv, StreamInv, NextApplied, smVars
<1>8. OwedInv'
  BY <1>1 DEF IInv, OwedInv, Persisting, raftVars
<1>9. QED
  BY <1>5, <1>6, <1>7, <1>8 DEF IInv

-----------------------------------------------------------------------------
(* What openraft asks of the log store.                                    *)

\* A log id read back from a readable entry, or from the purge point, is one.
LEMMA IdAtFacts ==
  ASSUME IInv, NEW i \in Index, i = meta.last_purged.index \/ Readable(meta, i)
  PROVE  IdAt(i) \in LogId /\ IdAt(i).index = i
<1>1. meta \in EzMeta /\ i \in -1 .. MaxIndex
  BY IndexFacts DEF IInv, TypeOK
<1>2. CASE i = meta.last_purged.index
  BY <1>1, <1>2 DEF IdAt, EzMeta
<1>3. CASE i # meta.last_purged.index
  <2>1. disk.logs[i] \in Term
    BY <1>3, IndexFacts DEF IInv, TypeOK, DiskType, ReachableWhole
  <2>2. QED
    BY <1>1, <1>3, <2>1 DEF IdAt, LogId
<1>4. QED
  BY <1>2, <1>3

\* A call that starts well formed, while no purge is owed or as that purge,
\* keeps the invariant.
LEMMA CallStartsInv ==
  ASSUME IInv, NEW op \in CoreOp \ {"none"}, NEW id \in LogId,
         NEW entries \in [Index -> Term \cup {Absent}], NEW next \in 0 .. MaxIndex + 1,
         Call(op, id, entries, next),
         UNCHANGED <<disk, lock, failed, meta, reader, smVars, promised, known>>,
         acked' \in [Index -> Term \cup {Absent}], owed' = NoLogId,
         op = "append" => /\ LogEnd < next /\ next <= id.index
                          /\ \A i \in Index : next <= i /\ i <= id.index => entries[i] \in Term
                          /\ \A i \in Index : LogEnd < i => next <= i,
         op = "truncate" => id.index <= meta.last_log_id.index,
         op = "purge" => meta.last_purged.index <= id.index
  PROVE  IInv'
<1> USE IndexFacts
<1>1. /\ core.pc = "idle" /\ ~failed
      /\ core' = [op |-> op, pc |-> "meta", id |-> id, entries |-> entries, next |-> next]
  BY DEF Call
<1>2. core' \in CoreType
  BY <1>1 DEF CoreType, CorePc
<1>3. TypeOK'
  BY <1>1, <1>2, IdleTypes DEF IInv, TypeOK, smVars
<1>4. ReachableWhole'
  BY DEF IInv, ReachableWhole, Readable
<1>5. CallInv' /\ OwedInv'
  BY <1>1 DEF IInv, CallInv, OwedInv
<1>6. AppendInv'
  <2>1. LogEnd' = LogEnd /\ LogEnd \in Int
    BY LogEndFacts DEF LogEnd, IInv, TypeOK
  <2>2. ASSUME op = "append", NEW i \in Index, LogEnd < i
        PROVE  ~(i < next)
    <3>1. next <= i /\ next \in Int /\ i \in Int
      BY <2>2, MaxIndexAssumption
    <3>2. QED
      BY <3>1
  <2>3. QED
    BY <1>1, <2>1, <2>2 DEF AppendInv
<1>7. TruncateInv' /\ PurgeInv'
  BY <1>1 DEF TruncateInv, PurgeInv
<1>8. StreamInv'
  BY DEF IInv, StreamInv, NextApplied, smVars
<1>9. QED
  BY <1>3, <1>4, <1>5, <1>6, <1>7, <1>8 DEF IInv

\* A vote is a term.
LEMMA RequestVoteInv ==
  ASSUME IInv, RequestVote
  PROVE  IInv'
<1>1. PICK t \in Term : Call("vote", [term |-> t, index |-> -1], NoEntries, 0)
  BY DEF RequestVote
<1>2. [term |-> t, index |-> -1] \in LogId /\ 0 \in 0 .. MaxIndex + 1
  BY MaxIndexAssumption DEF LogId
<1>3. "vote" \in CoreOp \ {"none"}
  BY DEF CoreOp
<1>4. /\ UNCHANGED <<disk, lock, failed, meta, reader, smVars, promised, known>>
      /\ acked' \in [Index -> Term \cup {Absent}] /\ owed' = NoLogId
  BY DEF RequestVote, raftVars, IInv, TypeOK
<1>5. QED
  BY <1>1, <1>2, <1>3, <1>4, IdleTypes, CallStartsInv

\* openraft appends the leader's entries from the end of the log on.
LEMMA RequestAppendInv ==
  ASSUME IInv, RequestAppend
  PROVE  IInv'
<1> USE IndexFacts
<1> DEFINE entries(last) ==
             [i \in Index |-> IF LogEnd < i /\ i <= last THEN Entry(i) ELSE Absent]
<1>1. PICK last \in Index :
        /\ last > LogEnd
        /\ \A i \in LogEnd + 1 .. last : Entry(i) # Absent
        /\ Call("append", [term |-> Entry(last), index |-> last], entries(last), LogEnd + 1)
  BY DEF RequestAppend
<1>2. meta \in EzMeta /\ meta.vote \in Term /\ LogEnd \in -1 .. MaxIndex
  BY LogEndFacts DEF IInv, TypeOK, EzMeta
<1>3. \A i \in Index : Entry(i) \in Term \cup {Absent}
  BY <1>2, LeaderLogAssumption DEF Entry
<1>4. LogEnd \in Int /\ LogEnd + 1 \in 0 .. MaxIndex + 1 /\ last \in -1 .. MaxIndex
  BY <1>2, MaxIndexAssumption
<1>5. \A i \in Index : LogEnd < i /\ i <= last => Entry(i) \in Term
  BY <1>1, <1>3, <1>4
<1>6. [term |-> Entry(last), index |-> last] \in LogId
  BY <1>1, <1>4, <1>5 DEF LogId
<1>7. entries(last) \in [Index -> Term \cup {Absent}]
  BY <1>3
<1>8. \A i \in Index : LogEnd + 1 <= i /\ i <= last => entries(last)[i] \in Term
  BY <1>4, <1>5
<1>9. /\ LogEnd < LogEnd + 1 /\ LogEnd + 1 <= last
      /\ \A i \in Index : LogEnd < i => LogEnd + 1 <= i
  BY <1>1, <1>4
<1>10. /\ UNCHANGED <<disk, lock, failed, meta, reader, smVars, promised, known>>
       /\ acked' \in [Index -> Term \cup {Absent}] /\ owed' = NoLogId
  BY DEF RequestAppend, raftVars, IInv, TypeOK
<1>11. "append" \in CoreOp \ {"none"}
  BY DEF CoreOp
<1> DEFINE id == [term |-> Entry(last), index |-> last]
<1>12. Call("append", id, entries(last), LogEnd + 1) /\ id.index = last
  BY <1>1
<1> HIDE DEF id, entries
<1>13. QED
  BY <1>4, <1>6, <1>7, <1>8, <1>9, <1>10, <1>11, <1>12, CallStartsInv DEF id

\* A truncation keeps the entry before the first the leader does not share.
LEMMA RequestTruncateInv ==
  ASSUME IInv, RequestTruncate
  PROVE  IInv'
<1> USE IndexFacts
<1> DEFINE id(c) == IF c = 0 THEN NoLogId ELSE IdAt(c - 1)
<1>1. PICK c \in Conflicts :
        /\ Call("truncate", id(c), NoEntries, 0)
        /\ acked' = [i \in Index |-> IF i < c THEN acked[i] ELSE Absent]
  BY DEF RequestTruncate
<1>2. c \in Index /\ Readable(meta, c) /\ meta \in EzMeta
  BY DEF Conflicts, IInv, TypeOK
<1>3. /\ c \in Int /\ 0 <= c /\ c <= MaxIndex /\ MaxIndex \in Int
      /\ meta.last_purged.index \in Int /\ meta.last_log_id.index \in Int
      /\ meta.last_purged.index < c /\ c <= meta.last_log_id.index
  BY <1>2, MaxIndexAssumption DEF Index, Readable, EzMeta
<1>4. id(c) \in LogId /\ id(c).index <= meta.last_log_id.index
  <2>1. CASE c = 0
    BY <2>1, <1>3, IdleTypes DEF NoLogId
  <2>2. CASE c # 0
    <3>1. c - 1 \in Index
      BY <2>2, <1>3
    <3>2. c - 1 = meta.last_purged.index \/ Readable(meta, c - 1)
      BY <1>3 DEF Readable
    <3>3. IdAt(c - 1) \in LogId /\ IdAt(c - 1).index = c - 1
      BY <3>1, <3>2, IdAtFacts
    <3>4. QED
      BY <2>2, <3>3, <1>3
  <2>3. QED
    BY <2>1, <2>2
<1>5. /\ UNCHANGED <<disk, lock, failed, meta, reader, smVars, promised, known>>
      /\ acked' \in [Index -> Term \cup {Absent}] /\ owed' = NoLogId
  BY <1>1 DEF RequestTruncate, IInv, TypeOK
<1>6. "truncate" \in CoreOp \ {"none"} /\ 0 \in 0 .. MaxIndex + 1
  BY MaxIndexAssumption DEF CoreOp
<1> HIDE DEF id
<1>7. QED
  BY <1>1, <1>4, <1>5, <1>6, IdleTypes, CallStartsInv

\* A purge ends at the snapshot an installation brought, or at a readable entry.
LEMMA RequestPurgeInv ==
  ASSUME IInv, RequestPurge
  PROVE  IInv'
<1> USE IndexFacts
<1>1. PICK id \in LogId : Call("purge", id, NoEntries, 0) /\ meta.last_purged.index <= id.index
  <2>1. CASE owed # NoLogId /\ Call("purge", owed, NoEntries, 0)
    BY <2>1 DEF IInv, OwedInv, TypeOK
  <2>2. ASSUME NEW i \in Index, Readable(meta, i), Call("purge", IdAt(i), NoEntries, 0)
        PROVE  \E id \in LogId : Call("purge", id, NoEntries, 0) /\ meta.last_purged.index <= id.index
    <3>1. IdAt(i) \in LogId /\ IdAt(i).index = i
      BY <2>2, IdAtFacts
    <3>2. meta.last_purged.index <= i
      BY <2>2 DEF Readable, IInv, TypeOK, EzMeta
    <3>3. QED
      BY <2>2, <3>1, <3>2
  <2>3. QED
    BY <2>1, <2>2 DEF RequestPurge
<1>2. /\ UNCHANGED <<disk, lock, failed, meta, reader, smVars, promised, known>>
      /\ acked' \in [Index -> Term \cup {Absent}] /\ owed' = NoLogId
  BY DEF RequestPurge, IInv, TypeOK
<1>3. "purge" \in CoreOp \ {"none"} /\ 0 \in 0 .. MaxIndex + 1
  BY MaxIndexAssumption DEF CoreOp
<1>4. QED
  BY <1>1, <1>2, <1>3, IdleTypes, CallStartsInv

-----------------------------------------------------------------------------
(* Steps that leave the log alone.                                         *)

\* What the invariant says of the log and its calls holds on, as long as the
\* log, its metadata and the call in progress are what they were.
LEMMA LogSideKept ==
  ASSUME IInv, UNCHANGED <<meta, core, owed>>,
         disk'.meta = disk.meta, disk'.logs = disk.logs, failed' = failed \/ failed' = TRUE
  PROVE  ReachableWhole' /\ CallInv' /\ AppendInv' /\ TruncateInv' /\ PurgeInv' /\ OwedInv'
<1>1. ReachableWhole'
  BY DEF IInv, ReachableWhole, Readable
<1>2. CallInv' /\ OwedInv'
  BY DEF IInv, CallInv, OwedInv
<1>3. AppendInv'
  <2>1. LogEnd' = LogEnd
    BY DEF LogEnd
  <2>2. QED
    BY <2>1 DEF IInv, AppendInv
<1>4. TruncateInv' /\ PurgeInv'
  BY DEF IInv, TruncateInv, PurgeInv, Readable
<1>5. QED
  BY <1>1, <1>2, <1>3, <1>4

\* A snapshot stored, or cut short, changes nothing else in storage.
LEMMA SnapshotStored ==
  ASSUME IInv, NEW s \in Snapshot,
         NEW d \in {Apply(disk, SnapshotOp(s))} \cup Interrupted(disk, SnapshotOp(s))
  PROVE  d \in DiskType /\ d.meta = disk.meta /\ d.logs = disk.logs
<1>1. disk \in DiskType
  BY DEF IInv, TypeOK
<1>2. d = disk \/ d = WithSnap(disk, s)
  BY ReplaceOps
<1>3. QED
  BY <1>1, <1>2 DEF WithSnap, DiskType

\* A reader asks for a range, takes its mutexes, clamps, reads and returns.
LEMMA ReaderInv ==
  ASSUME IInv, RequestRead \/ ReaderStep
  PROVE  IInv'
<1>1. UNCHANGED <<disk, meta, core, failed, smVars, raftVars>>
  BY DEF RequestRead, ReaderStep, ReadRequest, ReaderTakesMeta, ReaderTakesStorage, ReaderReads
<1>2. lock' \in [Mutex -> Task \cup {"free"}]
  BY LockTypes
     DEF RequestRead, ReaderStep, ReadRequest, ReaderTakesMeta, ReaderTakesStorage, ReaderReads,
         IInv, TypeOK, Mutex, Task
<1>3. reader' \in ReaderType
  <2>1. CASE RequestRead
    <3>1. PICK start \in ReadFrom : ReadRequest(start, MaxIndex + 1)
      BY <2>1 DEF RequestRead
    <3>2. start \in 0 .. MaxIndex + 1 /\ MaxIndex + 1 \in 0 .. MaxIndex + 1
      BY LeaderLogAssumption, MaxIndexAssumption DEF Index
    <3>3. QED
      BY <3>1, <3>2 DEF ReadRequest, ReaderType
  <2>2. CASE ReaderTakesMeta
    BY <2>2 DEF ReaderTakesMeta, IInv, TypeOK, ReaderType
  <2>3. CASE ReaderTakesStorage
    <3>1. /\ meta.last_purged.index \in -1 .. MaxIndex
          /\ meta.last_log_id.index \in -1 .. MaxIndex
          /\ reader.start \in 0 .. MaxIndex + 1 /\ reader.end \in 0 .. MaxIndex + 1
      BY DEF IInv, TypeOK, EzMeta, LogId, ReaderType
    <3>2. /\ Clamp(reader.start, reader.end).start \in 0 .. MaxIndex + 1
          /\ Clamp(reader.start, reader.end).end \in 0 .. MaxIndex + 1
      BY <3>1, MaxIndexAssumption DEF Clamp
    <3>3. QED
      BY <2>3, <3>2 DEF ReaderTakesStorage, ReaderType
  <2>4. CASE ReaderReads
    BY <2>4, IdleTypes DEF ReaderReads
  <2>5. QED
    BY <2>1, <2>2, <2>3, <2>4 DEF ReaderStep
<1>4. TypeOK'
  BY <1>1, <1>2, <1>3 DEF IInv, TypeOK, smVars, raftVars
<1>5. ReachableWhole' /\ CallInv' /\ AppendInv' /\ TruncateInv' /\ PurgeInv' /\ OwedInv'
  BY <1>1, LogSideKept DEF raftVars
<1>6. StreamInv'
  BY <1>1 DEF IInv, StreamInv, NextApplied, smVars
<1>7. QED
  BY <1>4, <1>5, <1>6 DEF IInv

-----------------------------------------------------------------------------
(* The state machine store.                                                *)

\* A job is handed to the worker or to the builder.
LEMMA RequestSmInv ==
  ASSUME IInv, RequestApply \/ RequestBuild
  PROVE  IInv'
<1>1. /\ UNCHANGED <<disk, lock, failed, meta, core, reader, promised, acked, known, owed>>
      /\ UNCHANGED <<sm, snapshot>>
  BY DEF RequestApply, RequestBuild, ApplyRequest, BuildRequest, logVars, raftVars
<1>2. /\ worker' \in WorkerType
      /\ worker' = worker \/ worker'.pc = "sm"
  <2>1. CASE RequestApply
    <3>1. PICK upto \in Index :
            worker' = [IdleWorker EXCEPT !.op = "apply", !.pc = "sm", !.upto = upto]
      BY <2>1 DEF RequestApply, ApplyRequest, Committable
    <3>2. upto \in -1 .. MaxIndex
      BY IndexFacts
    <3>3. QED
      BY <3>1, <3>2, IdleTypes DEF WorkerType
  <2>2. CASE RequestBuild
    BY <2>2 DEF RequestBuild, BuildRequest, IInv, TypeOK
  <2>3. QED
    BY <2>1, <2>2
<1>3. builder' \in BuilderType
  BY IdleTypes
     DEF RequestApply, RequestBuild, ApplyRequest, BuildRequest, BuilderType, IInv, TypeOK
<1>4. TypeOK'
  BY <1>1, <1>2, <1>3 DEF IInv, TypeOK
<1>5. ReachableWhole' /\ CallInv' /\ AppendInv' /\ TruncateInv' /\ PurgeInv' /\ OwedInv'
  BY <1>1, LogSideKept
<1>6. StreamInv'
  BY <1>1, <1>2 DEF IInv, StreamInv, NextApplied
<1>7. QED
  BY <1>4, <1>5, <1>6 DEF IInv

\* The snapshot handed over parses, and is past the purge point.
LEMMA RequestInstallInv ==
  ASSUME IInv, RequestInstall
  PROVE  IInv'
<1> USE IndexFacts
<1>1. PICK i \in Committable(meta.vote) :
        /\ BeyondCommitted(i) /\ InstallRequest(SentSnapshot(i))
        /\ owed' = SentSnapshot(i).last_log_id
  BY DEF RequestInstall
<1>2. /\ UNCHANGED <<disk, lock, failed, meta, core, reader, promised, acked, known>>
      /\ UNCHANGED <<sm, snapshot, builder>>
      /\ owed = NoLogId /\ core.pc = "idle"
  BY <1>1 DEF RequestInstall, InstallRequest, logVars
<1>3. /\ SentSnapshot(i) \in Snapshot
      /\ worker' = [IdleWorker EXCEPT !.op = "install", !.pc = "snapshot", !.snap = SentSnapshot(i)]
  BY <1>1 DEF InstallRequest, Parses
<1>4. worker' \in WorkerType /\ worker'.pc = "snapshot"
  BY <1>3, IdleTypes DEF WorkerType
<1>5. owed' \in LogId /\ meta.last_purged.index < owed'.index
  <2>1. owed' \in LogId
    BY <1>1, <1>3 DEF Snapshot
  <2>2. owed'.index = i
    BY <1>1 DEF SentSnapshot
  <2>3. meta.last_purged.index < i
    BY <1>1 DEF BeyondCommitted
  <2>4. QED
    BY <2>1, <2>2, <2>3
<1>6. TypeOK'
  BY <1>2, <1>4, <1>5 DEF IInv, TypeOK
<1>7. ReachableWhole' /\ CallInv' /\ AppendInv' /\ TruncateInv' /\ PurgeInv'
  <2>1. LogEnd' = LogEnd
    BY <1>2 DEF LogEnd
  <2>2. QED
    BY <1>2, <2>1
       DEF IInv, ReachableWhole, Readable, CallInv, AppendInv, TruncateInv, PurgeInv
<1>8. OwedInv'
  <2>1. meta.last_purged.index \in Int /\ owed'.index \in Int
    BY <1>5 DEF IInv, TypeOK, EzMeta
  <2>2. QED
    BY <1>2, <1>5, <2>1 DEF OwedInv
<1>9. StreamInv'
  BY <1>4 DEF StreamInv
<1>10. QED
  BY <1>6, <1>7, <1>8, <1>9 DEF IInv

\* Applying an entry keeps the state one: the batch ends within the log.
LEMMA ApplyNextTypes ==
  ASSUME IInv, ApplyNext
  PROVE  sm' \in StateMachineState
<1>1. /\ sm \in StateMachineState /\ worker \in WorkerType /\ worker.pc = "read"
      /\ NextApplied <= worker.upto
  BY DEF IInv, TypeOK, StreamInv, ApplyNext
<1>2. NextApplied \in -1 .. MaxIndex /\ NextApplied \in Index
  <2>1. sm.last_applied.index \in -1 .. MaxIndex /\ worker.upto \in -1 .. MaxIndex
    BY <1>1 DEF StateMachineState, LogId, WorkerType
  <2>2. QED
    BY <1>1, <2>1, MaxIndexAssumption DEF NextApplied, Index
<1>3. disk.logs[NextApplied] \in Term
  BY <1>2, IndexFacts DEF IInv, TypeOK, DiskType, ApplyNext
<1> DEFINE id == [term |-> disk.logs[NextApplied], index |-> NextApplied]
<1>4. id \in LogId
  BY <1>2, <1>3 DEF LogId
<1>5. sm' = ApplyEntry(sm, id)
  BY DEF ApplyNext
<1> HIDE DEF id
<1>6. /\ sm.membership \in LogId /\ sm.app \in App
      /\ Append(sm.app, id) \in App
  BY <1>1, <1>4 DEF StateMachineState, App
<1>7. QED
  BY <1>4, <1>5, <1>6 DEF ApplyEntry, StateMachineState

\* The newest of two snapshots' log ids is one.
LEMMA LaterType ==
  ASSUME NEW a \in LogId, NEW b \in LogId
  PROVE  Later(a, b) \in LogId
BY DEF Later

\* The worker's steps keep every type, and touch storage only to store the
\* snapshot they install.
LEMMA WorkerInv ==
  ASSUME IInv, WorkerStep
  PROVE  IInv'
<1>1. UNCHANGED <<failed, meta, core, reader, promised, acked, owed, builder>>
  BY DEF WorkerStep, logVars, ApplyTakesState, StreamTakesMeta, StreamTakesStorage, ApplyNext,
         ApplyReturns, InstallTakesSnapshot, InstallTakesStorage, InstallPersists, InstallReturns
<1>2. /\ disk \in DiskType /\ sm \in StateMachineState /\ snapshot \in Snapshot
      /\ worker \in WorkerType /\ worker.snap \in Snapshot /\ known \in LogId
  BY DEF IInv, TypeOK, WorkerType
<1> DEFINE Good == /\ disk' \in DiskType /\ disk'.meta = disk.meta /\ disk'.logs = disk.logs
                   /\ lock' \in [Mutex -> Task \cup {"free"}]
                   /\ sm' \in StateMachineState /\ snapshot' \in Snapshot
                   /\ worker' \in WorkerType /\ known' \in LogId /\ StreamInv'
<1>3. ASSUME ApplyTakesState \/ InstallTakesSnapshot \/ InstallTakesStorage, UNCHANGED known
      PROVE  Good
  <2>1. UNCHANGED <<disk, sm, snapshot>>
    BY <1>3 DEF ApplyTakesState, InstallTakesSnapshot, InstallTakesStorage
  <2>2. worker' \in WorkerType /\ worker'.pc \in {"next", "storage", "persist"}
    BY <1>2, <1>3 DEF ApplyTakesState, InstallTakesSnapshot, InstallTakesStorage, WorkerType
  <2>3. lock' \in [Mutex -> Task \cup {"free"}]
    BY <1>3, LockTypes
       DEF ApplyTakesState, InstallTakesSnapshot, InstallTakesStorage, IInv, TypeOK, Mutex, Task
  <2>4. QED
    BY <1>2, <1>3, <2>1, <2>2, <2>3 DEF StreamInv
<1>4. ASSUME StreamTakesMeta \/ StreamTakesStorage, UNCHANGED known
      PROVE  Good
  <2>1. UNCHANGED <<disk, sm, snapshot>>
    BY <1>4 DEF StreamTakesMeta, StreamTakesStorage
  <2>2. /\ worker' \in WorkerType /\ worker'.upto = worker.upto
        /\ (worker.pc = "next" /\ NextApplied <= worker.upto) \/ worker.pc = "meta"
    BY <1>2, <1>4 DEF StreamTakesMeta, StreamTakesStorage, WorkerType
  <2>3. lock' \in [Mutex -> Task \cup {"free"}]
    BY <1>4, LockTypes DEF StreamTakesMeta, StreamTakesStorage, IInv, TypeOK, Mutex, Task
  <2>4. StreamInv'
    BY <2>1, <2>2 DEF IInv, StreamInv, NextApplied
  <2>5. QED
    BY <1>2, <1>4, <2>1, <2>2, <2>3, <2>4
<1>5. ASSUME ApplyNext, UNCHANGED known
      PROVE  Good
  <2>1. UNCHANGED <<disk, snapshot>> /\ worker' = [worker EXCEPT !.pc = "next"]
    BY <1>5 DEF ApplyNext
  <2>2. worker' \in WorkerType /\ worker'.pc = "next"
    BY <1>2, <2>1 DEF WorkerType
  <2>3. lock' \in [Mutex -> Task \cup {"free"}]
    BY <1>5, LockTypes DEF ApplyNext, IInv, TypeOK
  <2>4. QED
    BY <1>2, <1>5, <2>1, <2>2, <2>3, ApplyNextTypes DEF StreamInv
<1>6. ASSUME ApplyReturns, UNCHANGED known
      PROVE  Good
  BY <1>2, <1>6, LockTypes, IdleTypes DEF ApplyReturns, StreamInv, IdleWorker, IInv, TypeOK
<1>7. ASSUME InstallPersists, UNCHANGED known
      PROVE  Good
  <2>1. disk' \in DiskType /\ disk'.meta = disk.meta /\ disk'.logs = disk.logs
    BY <1>2, <1>7, SnapshotStored DEF InstallPersists
  <2>2. UNCHANGED sm /\ snapshot' = worker.snap /\ worker' = [worker EXCEPT !.pc = "state"]
    BY <1>7 DEF InstallPersists
  <2>3. worker' \in WorkerType /\ worker'.pc = "state"
    BY <1>2, <2>2 DEF WorkerType
  <2>4. lock' \in [Mutex -> Task \cup {"free"}]
    BY <1>7, LockTypes DEF InstallPersists, IInv, TypeOK
  <2>5. QED
    BY <1>2, <1>7, <2>1, <2>2, <2>3, <2>4 DEF StreamInv
<1>8. ASSUME InstallReturns, known' = Later(known, worker.snap.last_log_id)
      PROVE  Good
  <2>1. UNCHANGED <<disk, lock, snapshot>> /\ sm' = RestoredState(worker.snap)
        /\ worker' = IdleWorker
    BY <1>8 DEF InstallReturns
  <2>2. sm' \in StateMachineState
    BY <1>2, <2>1 DEF RestoredState, StateMachineState, Snapshot
  <2>3. known' \in LogId
    BY <1>2, <1>8, LaterType DEF Snapshot
  <2>4. QED
    BY <1>2, <2>1, <2>2, <2>3, IdleTypes DEF StreamInv, IdleWorker, IInv, TypeOK
<1>9. Good
  BY <1>3, <1>4, <1>5, <1>6, <1>7, <1>8 DEF WorkerStep
<1>10. TypeOK'
  BY <1>1, <1>9 DEF IInv, TypeOK
<1>11. ReachableWhole' /\ CallInv' /\ AppendInv' /\ TruncateInv' /\ PurgeInv' /\ OwedInv'
  BY <1>1, <1>9, LogSideKept
<1>12. QED
  BY <1>9, <1>10, <1>11 DEF IInv

\* The builder's steps likewise.
LEMMA BuilderInv ==
  ASSUME IInv, BuilderStep
  PROVE  IInv'
<1>1. UNCHANGED <<failed, meta, core, reader, promised, acked, owed, sm, worker>>
  BY DEF BuilderStep, logVars, BuildCaptures, BuildTakesSnapshot, BuildTakesStorage, BuildReturns
<1>2. /\ disk \in DiskType /\ sm \in StateMachineState /\ snapshot \in Snapshot
      /\ builder \in BuilderType /\ builder.snap \in Snapshot /\ known \in LogId
  BY DEF IInv, TypeOK, BuilderType
<1> DEFINE Good == /\ disk' \in DiskType /\ disk'.meta = disk.meta /\ disk'.logs = disk.logs
                   /\ lock' \in [Mutex -> Task \cup {"free"}]
                   /\ snapshot' \in Snapshot /\ builder' \in BuilderType /\ known' \in LogId
<1>3. ASSUME BuildCaptures, UNCHANGED known
      PROVE  Good
  <2>1. Captured \in Snapshot
    BY <1>2 DEF Captured, Snapshot, StateMachineState
  <2>2. QED
    BY <1>2, <1>3, <2>1 DEF BuildCaptures, BuilderType, IInv, TypeOK
<1>4. ASSUME BuildTakesSnapshot \/ BuildTakesStorage, UNCHANGED known
      PROVE  Good
  <2>1. lock' \in [Mutex -> Task \cup {"free"}]
    BY <1>4, LockTypes DEF BuildTakesSnapshot, BuildTakesStorage, IInv, TypeOK, Mutex, Task
  <2>2. QED
    BY <1>2, <1>4, <2>1 DEF BuildTakesSnapshot, BuildTakesStorage, BuilderType
<1>5. ASSUME BuildReturns, known' = Later(known, builder.snap.last_log_id)
      PROVE  Good
  <2>1. disk' \in DiskType /\ disk'.meta = disk.meta /\ disk'.logs = disk.logs
    BY <1>2, <1>5, SnapshotStored DEF BuildReturns
  <2>2. snapshot' = builder.snap /\ builder' = IdleBuilder /\ Release({"snapshot", "storage"})
    BY <1>5 DEF BuildReturns
  <2>3. known' \in LogId
    BY <1>2, <1>5, LaterType DEF Snapshot
  <2>4. QED
    BY <1>2, <2>1, <2>2, <2>3, LockTypes, IdleTypes DEF IInv, TypeOK
<1>6. Good
  BY <1>3, <1>4, <1>5 DEF BuilderStep
<1>7. TypeOK'
  BY <1>1, <1>6 DEF IInv, TypeOK
<1>8. ReachableWhole' /\ CallInv' /\ AppendInv' /\ TruncateInv' /\ PurgeInv' /\ OwedInv'
  BY <1>1, <1>6, LogSideKept
<1>9. StreamInv'
  BY <1>1 DEF IInv, StreamInv, NextApplied
<1>10. QED
  BY <1>7, <1>8, <1>9 DEF IInv

\* A batch or a snapshot that returns an error stops the node and leaves the
\* log as it was.
LEMMA SmFailureInv ==
  ASSUME IInv, StreamFails \/ SnapshotFails
  PROVE  IInv'
<1>1. /\ UNCHANGED <<meta, core, reader, promised, acked, known, owed, sm, snapshot>>
      /\ failed' = TRUE
  BY DEF StreamFails, SnapshotFails, logVars, raftVars
<1>2. disk' \in DiskType /\ disk'.meta = disk.meta /\ disk'.logs = disk.logs
  BY SnapshotStored DEF StreamFails, SnapshotFails, IInv, TypeOK, WorkerType, BuilderType
<1>3. /\ worker' = worker \/ worker' = IdleWorker
      /\ builder' = builder \/ builder' = IdleBuilder
      /\ \E ms : Release(ms)
  BY DEF StreamFails, SnapshotFails
<1>4. TypeOK'
  BY <1>1, <1>2, <1>3, LockTypes, IdleTypes DEF IInv, TypeOK
<1>5. ReachableWhole' /\ CallInv' /\ AppendInv' /\ TruncateInv' /\ PurgeInv' /\ OwedInv'
  BY <1>1, <1>2, LogSideKept
<1>6. StreamInv'
  BY <1>1, <1>3 DEF IInv, StreamInv, NextApplied, IdleWorker
<1>7. QED
  BY <1>4, <1>5, <1>6 DEF IInv

-----------------------------------------------------------------------------
(* Stopping and opening again.                                             *)

\* What storage loads after a stop: metadata that promises only whole entries
\* that were there before, and it is the old metadata or the one being recorded.
LEMMA SurvivorFacts ==
  ASSUME IInv, NEW d \in Survivors
  PROVE  /\ d \in DiskType
         /\ \A i \in Index :
              Readable(d.meta, i) => d.logs[i] = disk.logs[i] /\ Whole(d.logs[i])
         /\ d.meta = disk.meta \/ (core.pc = "positions" /\ d.meta = NewMeta)
<1>1. CASE Persisting /\ d \in Interrupted(disk, CorePersist)
  <2>1. /\ d \in DiskType
        /\ \A i \in Index : Readable(d.meta, i) => d.logs[i] = disk.logs[i] /\ Whole(d.logs[i])
    BY <1>1, InterruptedCall
  <2>2. CASE core.pc = "positions"
    BY <1>1, <2>1, <2>2, InterruptedCall
  <2>3. CASE core.pc = "entries"
    <3>1. d.meta = disk.meta
      BY <1>1, <2>3, NextEntryFacts, EntryOps DEF WithLogs
    <3>2. QED
      BY <2>1, <3>1
  <2>4. CASE core.pc = "delete"
    BY <1>1, <2>1, <2>4, DeletedUnread
  <2>5. QED
    BY <1>1, <2>2, <2>3, <2>4 DEF Persisting
<1>2. ASSUME NEW s \in Snapshot, d = disk \/ d \in Interrupted(disk, SnapshotOp(s))
      PROVE  d \in DiskType /\ d.meta = disk.meta /\ d.logs = disk.logs
  BY <1>2, SnapshotStored DEF IInv, TypeOK
<1>3. \/ Persisting /\ d \in Interrupted(disk, CorePersist)
      \/ \E s \in Snapshot : d = disk \/ d \in Interrupted(disk, SnapshotOp(s))
  BY DEF Survivors, UnderWay, IInv, TypeOK, WorkerType, BuilderType
<1>4. QED
  BY <1>1, <1>2, <1>3 DEF IInv, ReachableWhole

\* Both stores come back from one load, with nothing in progress.
LEMMA RestartInv ==
  ASSUME IInv, Restart
  PROVE  IInv'
<1> USE IndexFacts
<1>1. /\ disk' \in Survivors /\ meta' = disk'.meta
      /\ snapshot' = disk'.snap /\ sm' = RestoredState(disk'.snap)
      /\ known' = disk'.snap.last_log_id
      /\ owed' = NoLogId \/ (owed' = known' /\ ~(known'.index <= meta'.last_purged.index))
      /\ lock' = AllFree /\ failed' = FALSE /\ core' = IdleCore /\ reader' = IdleReader
      /\ worker' = IdleWorker /\ builder' = IdleBuilder
      /\ UNCHANGED <<promised, acked>>
  BY DEF Restart
<1>2. /\ disk' \in DiskType
      /\ \A i \in Index : Readable(disk'.meta, i) => Whole(disk'.logs[i])
  BY <1>1, SurvivorFacts
<1>3. /\ disk'.meta \in EzMeta /\ disk'.snap \in Snapshot /\ disk'.snap.last_log_id \in LogId
      /\ sm' \in StateMachineState
  BY <1>1, <1>2 DEF DiskType, Snapshot, RestoredState, StateMachineState
<1>4. TypeOK'
  BY <1>1, <1>2, <1>3, IdleTypes DEF IInv, TypeOK
<1>5. ReachableWhole'
  BY <1>1, <1>2 DEF ReachableWhole, Readable
<1>6. OwedInv'
  <2>1. meta'.last_purged.index \in Int /\ known'.index \in Int
    BY <1>1, <1>3 DEF EzMeta
  <2>2. QED
    BY <1>1, <2>1 DEF OwedInv, IdleCore
<1>7. CallInv' /\ AppendInv' /\ TruncateInv' /\ PurgeInv' /\ StreamInv'
  BY <1>1 DEF CallInv, AppendInv, TruncateInv, PurgeInv, StreamInv, IdleCore, IdleWorker
<1>8. QED
  BY <1>4, <1>5, <1>6, <1>7 DEF IInv

-----------------------------------------------------------------------------
(* The invariant, for every state the adapter reaches.                     *)

\* An empty store satisfies it.
LEMMA InitInv == Init => IInv
<1> SUFFICES ASSUME Init PROVE IInv
  OBVIOUS
<1>1. TypeOK
  <2>1. disk \in DiskType
    BY IdleTypes DEF Init, DiskType, Cell
  <2>2. 0 \in Term
    BY MaxTermAssumption DEF Term
  <2>3. QED
    BY <2>1, <2>2, IdleTypes DEF Init, TypeOK
<1>2. ReachableWhole
  BY IndexFacts DEF Init, ReachableWhole, Readable, NoMeta, NoLogId
<1>3. CallInv /\ AppendInv /\ TruncateInv /\ PurgeInv /\ OwedInv /\ StreamInv
  BY DEF Init, CallInv, AppendInv, TruncateInv, PurgeInv, OwedInv, StreamInv, IdleCore, IdleWorker
<1>4. QED
  BY <1>1, <1>2, <1>3 DEF IInv

\* A state repeated satisfies it still.
LEMMA StutterInv ==
  ASSUME IInv, UNCHANGED vars
  PROVE  IInv'
<1>1. UNCHANGED <<disk, lock, failed, meta, core, reader, sm, snapshot, worker, builder>>
      /\ UNCHANGED <<promised, acked, known, owed>>
  BY DEF vars, logVars, smVars, raftVars
<1>2. TypeOK'
  BY <1>1 DEF IInv, TypeOK
<1>3. ReachableWhole' /\ CallInv' /\ AppendInv' /\ TruncateInv' /\ PurgeInv' /\ OwedInv'
  BY <1>1, LogSideKept
<1>4. StreamInv'
  BY <1>1 DEF IInv, StreamInv, NextApplied
<1>5. QED
  BY <1>2, <1>3, <1>4 DEF IInv

\* Every step keeps it.
LEMMA StepInv ==
  ASSUME IInv, [Next]_vars
  PROVE  IInv'
<1>1. CASE Requests
  BY <1>1, RequestVoteInv, RequestAppendInv, RequestTruncateInv, RequestPurgeInv, ReaderInv,
     RequestSmInv, RequestInstallInv DEF Requests
<1>2. CASE CoreStep
  BY <1>2, CoreTakesInv, AppendEntryInv, DeleteLogsInv, SavePositionsInv DEF CoreStep
<1>3. CASE ReaderStep \/ WorkerStep \/ BuilderStep
  BY <1>3, ReaderInv, WorkerInv, BuilderInv
<1>4. CASE CoreFailure \/ StreamFails \/ SnapshotFails \/ Restart
  BY <1>4, CoreFailureInv, SmFailureInv, RestartInv
<1>5. CASE UNCHANGED vars
  BY <1>5, StutterInv
<1>6. QED
  BY <1>1, <1>2, <1>3, <1>4, <1>5 DEF Next

\* The inductive invariant holds of every behaviour.
THEOREM Invariance == Spec => []IInv
<1>1. Init => IInv
  BY InitInv
<1>2. IInv /\ [Next]_vars => IInv'
  BY StepInv
<1>3. QED
  BY <1>1, <1>2, PTL DEF Spec

\* Every variable of the two stores, of the tasks in them and of openraft's
\* view of them keeps its type: no position, range or snapshot id an operation
\* computes ever leaves its bounds.
THEOREM TypeCorrect == Spec => []TypeOK
<1>1. IInv => TypeOK
  BY DEF IInv
<1>2. QED
  BY <1>1, Invariance, PTL

\* Whatever was interrupted and wherever the node stopped, every index between
\* the purge point and the last log id holds an entry that parses - the order
\* in which append, truncate_after and purge write entries and metadata.
THEOREM ReachableAlwaysWhole == Spec => []ReachableWhole
<1>1. IInv => ReachableWhole
  BY DEF IInv
<1>2. QED
  BY <1>1, Invariance, PTL

-----------------------------------------------------------------------------
(* The stored metadata: the vote, and the order of the positions.          *)

\* Only the call recording its positions changes the stored metadata, and the
\* cache takes that metadata or the stored one.
LEMMA MetadataWrites ==
  ASSUME IInv, [Next]_vars
  PROVE  /\ disk'.meta = disk.meta \/ (core.pc = "positions" /\ disk'.meta = NewMeta)
         /\ \/ meta' = meta /\ disk'.meta = disk.meta
            \/ meta' = disk'.meta
            \/ core.pc = "positions" /\ meta' = NewMeta
<1>1. CASE Requests \/ UNCHANGED vars
  BY <1>1
     DEF Requests, RequestVote, RequestAppend, RequestTruncate, RequestPurge, RequestRead,
         ReadRequest, RequestApply, RequestInstall, RequestBuild, vars, logVars
<1>2. CASE SavePositionsReturns
  <2>1. core.pc = "positions" /\ meta' = NewMeta
    BY <1>2 DEF SavePositionsReturns, SavePositions
  <2>2. disk' = WithMeta(disk, NewMeta)
    BY <1>2, <2>1, ReplaceOps DEF SavePositionsReturns, SavePositions, CorePersist
  <2>3. QED
    BY <2>1, <2>2 DEF WithMeta
<1>3. CASE CoreTakesMeta \/ CoreTakesStorage
  BY <1>3 DEF CoreTakesMeta, CoreTakesStorage
<1>4. CASE AppendEntry
  <2>1. disk' = WithLogs(disk, Put(disk.logs, core.next, core.entries[core.next])) /\ meta' = meta
    BY <1>4, NextEntryFacts, EntryOps DEF AppendEntry
  <2>2. QED
    BY <2>1 DEF WithLogs
<1>5. CASE DeleteLogs
  BY <1>5, DeletedUnread DEF DeleteLogs
<1>6. CASE CoreFailure
  <2>1. Persisting /\ disk' \in Interrupted(disk, CorePersist)
    BY <1>6 DEF CoreFailure, CoreFails
  <2>2. disk' \in Survivors
    BY <2>1 DEF Survivors, UnderWay
  <2>3. disk'.meta = disk.meta \/ (core.pc = "positions" /\ disk'.meta = NewMeta)
    BY <2>2, SurvivorFacts
  <2>4. meta' = IF core.pc = "positions" THEN NewMeta ELSE meta
    BY <1>6 DEF CoreFailure, CoreFails
  <2>5. QED
    BY <2>3, <2>4
<1>7. CASE ReaderStep
  BY <1>7 DEF ReaderStep, ReaderTakesMeta, ReaderTakesStorage, ReaderReads
<1>8. CASE WorkerStep \/ BuilderStep \/ StreamFails \/ SnapshotFails
  <2>1. meta' = meta
    BY <1>8 DEF WorkerStep, BuilderStep, StreamFails, SnapshotFails, logVars
  <2>2. \/ disk' = disk
        \/ \E s \in Snapshot : disk' \in {Apply(disk, SnapshotOp(s))} \cup Interrupted(disk, SnapshotOp(s))
    BY <1>8
       DEF WorkerStep, BuilderStep, StreamFails, SnapshotFails, IInv, TypeOK, WorkerType,
           BuilderType, ApplyTakesState, StreamTakesMeta, StreamTakesStorage, ApplyNext,
           ApplyReturns, InstallTakesSnapshot, InstallTakesStorage, InstallPersists,
           InstallReturns, BuildCaptures, BuildTakesSnapshot, BuildTakesStorage, BuildReturns
  <2>3. disk'.meta = disk.meta
    BY <2>2, SnapshotStored
  <2>4. QED
    BY <2>1, <2>3
<1>9. CASE Restart
  BY <1>9, SurvivorFacts DEF Restart
<1>10. QED
  BY <1>1, <1>2, <1>3, <1>4, <1>5, <1>6, <1>7, <1>8, <1>9 DEF Next, CoreStep

\* `persist_meta` leaves no last log id before the purge point, whatever call
\* records it and wherever it stops.
THEOREM PositionsStayOrdered == Spec => []PositionsOrdered
<1>1. ASSUME IInv, core.pc = "positions"
      PROVE  LogIdLeq(NewMeta.last_purged, NewMeta.last_log_id)
  <2> DEFINE m == CASE core.op = "vote"  -> [meta EXCEPT !.vote = core.id.term]
                    [] core.op = "purge" -> [meta EXCEPT !.last_purged = core.id]
                    [] OTHER             -> [meta EXCEPT !.last_log_id = core.id]
  <2>1. m \in EzMeta
    BY <1>1 DEF IInv, TypeOK, CallInv, EzMeta, CoreType, CoreOp, LogId
  <2>2. NewMeta = [m EXCEPT !.last_log_id = MaxLogId(m.last_log_id, m.last_purged)]
    BY DEF NewMeta, PersistMeta
  <2> HIDE DEF m
  <2>3. /\ NewMeta.last_purged = m.last_purged
        /\ NewMeta.last_log_id = MaxLogId(m.last_log_id, m.last_purged)
    BY <2>1, <2>2 DEF EzMeta
  <2>4. /\ m.last_log_id.term \in Int /\ m.last_log_id.index \in Int
        /\ m.last_purged.term \in Int /\ m.last_purged.index \in Int
    BY <2>1, MaxTermAssumption, MaxIndexAssumption DEF EzMeta, LogId, Term
  <2>5. QED
    BY <2>3, <2>4 DEF MaxLogId, LogIdLeq
<1>2. Init => PositionsOrdered
  BY DEF Init, PositionsOrdered, NoMeta, NoLogId, LogIdLeq
<1>3. IInv /\ PositionsOrdered /\ [Next]_vars => PositionsOrdered'
  BY <1>1, MetadataWrites DEF PositionsOrdered, LogIdLeq
<1>4. QED
  BY <1>2, <1>3, Invariance, PTL DEF Spec

\* The vote being saved is past the one saved; the cached and the stored vote
\* are at least what openraft was told.
VoteInv ==
  /\ promised <= disk.meta.vote /\ promised <= meta.vote
  /\ core.op = "vote" => meta.vote < core.id.term

\* No call but save_vote changes the vote.
LEMMA NewVote ==
  ASSUME IInv, VoteInv, core.pc = "positions"
  PROVE  /\ NewMeta.vote = IF core.op = "vote" THEN core.id.term ELSE meta.vote
         /\ NewMeta.vote \in Int /\ promised <= NewMeta.vote
<1>1. meta \in EzMeta /\ core.id \in LogId /\ promised \in Term
  BY DEF IInv, TypeOK, CoreType
<1>2. NewMeta.vote = IF core.op = "vote" THEN core.id.term ELSE meta.vote
  BY <1>1 DEF NewMeta, PersistMeta, EzMeta
<1>3. promised \in Int /\ meta.vote \in Int /\ core.id.term \in Int
  BY <1>1, MaxTermAssumption DEF EzMeta, LogId, Term
<1>4. QED
  BY <1>2, <1>3 DEF VoteInv

\* What a step does to the call in progress and to the promised vote.
LEMMA VoteCall ==
  ASSUME IInv, [Next]_vars
  PROVE  /\ \/ core'.op # "vote"
            \/ core'.op = "vote" /\ core'.id.term > meta.vote /\ meta' = meta
            \/ core.op = "vote" /\ core'.op = "vote" /\ core'.id = core.id /\ meta' = meta
         /\ \/ promised' = promised
            \/ /\ core.pc = "positions" /\ core.op = "vote" /\ promised' = core.id.term
               /\ disk'.meta = NewMeta /\ meta' = NewMeta
<1> USE DEF logVars, smVars, raftVars
<1>1. CASE RequestVote
  BY <1>1 DEF RequestVote, Call
<1>2. CASE RequestAppend \/ RequestTruncate \/ RequestPurge
  <2>1. core'.op # "vote" /\ promised' = promised
    BY <1>2 DEF RequestAppend, RequestTruncate, RequestPurge, Call
  <2>2. QED
    BY <2>1
<1>3. CASE RequestRead \/ RequestApply \/ RequestInstall \/ RequestBuild
  BY <1>3 DEF RequestRead, ReadRequest, RequestApply, RequestInstall, RequestBuild
<1>4. CASE (CoreTakesMeta \/ CoreTakesStorage) /\ UNCHANGED <<smVars, raftVars>>
  BY <1>4 DEF CoreTakesMeta, CoreTakesStorage, IInv, TypeOK, CoreType
<1>5. ASSUME AppendEntry /\ UNCHANGED <<smVars, raftVars>>
      PROVE  core'.op # "vote" /\ promised' = promised
  BY <1>5, NextEntryFacts DEF AppendEntry, IInv, TypeOK, CoreType
<1>6. CASE SavePositionsReturns
  <2>1. core.pc = "positions" /\ meta' = NewMeta
    BY <1>6 DEF SavePositionsReturns, SavePositions
  <2>2. disk'.meta = NewMeta
    BY <1>6, <2>1, ReplaceOps DEF SavePositionsReturns, SavePositions, CorePersist, WithMeta
  <2>3. core'.op # "vote"
    BY <1>6, <2>1
       DEF SavePositionsReturns, SavePositions, GoTo, NextStage, IdleCore, IInv, TypeOK, CoreType
  <2>4. QED
    BY <1>6, <2>1, <2>2, <2>3 DEF SavePositionsReturns
<1>7. ASSUME DeleteLogs \/ CoreFails, UNCHANGED <<smVars, raftVars>>
      PROVE  core'.op # "vote" /\ promised' = promised
  BY <1>7 DEF DeleteLogs, CoreFails, GoTo, NextStage, IdleCore
<1>8. CASE ReaderStep
  BY <1>8 DEF ReaderStep, ReaderTakesMeta, ReaderTakesStorage, ReaderReads
<1>9. CASE WorkerStep \/ BuilderStep \/ StreamFails \/ SnapshotFails
  BY <1>9 DEF WorkerStep, BuilderStep, StreamFails, SnapshotFails
<1>10. CASE Restart
  BY <1>10 DEF Restart, IdleCore
<1>11. CASE UNCHANGED vars
  BY <1>11 DEF vars
<1>12. QED
  BY <1>1, <1>2, <1>3, <1>4, <1>5, <1>6, <1>7, <1>8, <1>9, <1>10, <1>11
     DEF Next, Requests, CoreStep, CoreFailure

\* No step takes the votes out of order.
LEMMA VoteStep ==
  ASSUME IInv, VoteInv, [Next]_vars
  PROVE  VoteInv'
<1>1. /\ meta.vote \in Int /\ disk.meta.vote \in Int
  BY MaxTermAssumption DEF IInv, TypeOK, DiskType, EzMeta, Term
<1>2. promised <= disk'.meta.vote /\ promised <= meta'.vote
  BY NewVote, MetadataWrites DEF VoteInv
<1>3. promised' <= disk'.meta.vote /\ promised' <= meta'.vote
  BY <1>2, NewVote, VoteCall
<1>4. core'.op = "vote" => meta'.vote < core'.id.term
  <2>1. core' \in CoreType
    BY StepInv DEF IInv, TypeOK
  <2>2. core'.id.term \in Int
    BY <2>1, MaxTermAssumption DEF CoreType, LogId, Term
  <2>3. QED
    BY <1>1, <2>2, VoteCall DEF VoteInv
<1>5. QED
  BY <1>3, <1>4 DEF VoteInv

\* The votes are in order in every behaviour.
LEMMA VoteInvariance == Spec => []VoteInv
<1>1. Init => VoteInv
  BY DEF Init, VoteInv, NoMeta, IdleCore
<1>2. IInv /\ VoteInv /\ [Next]_vars => VoteInv'
  BY VoteStep
<1>3. QED
  BY <1>1, <1>2, Invariance, PTL DEF Spec

\* A vote openraft was told is saved survives every later write of the
\* metadata, every error and every stop: save_vote persists before it returns,
\* and every other call writes the vote it finds.
THEOREM VoteAlwaysKept == Spec => []VoteKept
<1>1. VoteInv => VoteKept
  BY DEF VoteInv, VoteKept
<1>2. QED
  BY <1>1, VoteInvariance, PTL
=============================================================================
