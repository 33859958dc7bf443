------------------------------ MODULE LogStore ------------------------------
(***************************************************************************)
(* The log half of the storage adapter (storage/adapter/log.rs): entries,  *)
(* and the metadata that bounds them.  Only the metadata is cached; the    *)
(* entries are read from storage.                                          *)
(*                                                                         *)
(* openraft's core task runs one call at a time - save_vote, append,       *)
(* truncate_after, purge - while readers (replication, the state machine's *)
(* stream) run beside it.  Every call takes the cache's mutex, then the    *)
(* storage's, persists in stages, and gives both up when it returns.       *)
(***************************************************************************)
EXTENDS SharedStorage

VARIABLES
  meta,                    \* the cached EzMeta
  core,                    \* the call in progress: [op, pc, id, entries, next]
  reader,                  \* a read of the log in progress: [pc, start, end]
  failed                   \* a persist returned an error, and the node is stopping

EzMeta == [vote : Term, last_log_id : LogId, last_purged : LogId]
NoMeta == [vote |-> 0, last_log_id |-> NoLogId, last_purged |-> NoLogId]

Cell == Term \cup {Absent, Torn}
NoEntries == [i \in Index |-> Absent]

CoreOp == {"none", "vote", "append", "truncate", "purge"}
CorePc == {"idle", "meta", "storage", "entries", "positions", "delete"}
CoreType == [op : CoreOp, pc : CorePc, id : LogId,
             entries : [Index -> Term \cup {Absent}], next : 0 .. MaxIndex + 1]
IdleCore == [op |-> "none", pc |-> "idle", id |-> NoLogId, entries |-> NoEntries, next |-> 0]

ReaderType == [pc : {"idle", "meta", "storage", "read"},
               start : 0 .. MaxIndex + 1, end : 0 .. MaxIndex + 1]
IdleReader == [pc |-> "idle", start |-> 0, end |-> 0]

-----------------------------------------------------------------------------
(* A call, from openraft's request to its return.                          *)

Call(op, id, entries, next) ==
  /\ core.pc = "idle" /\ ~failed
  /\ core' = [op |-> op, pc |-> "meta", id |-> id, entries |-> entries, next |-> next]

\* Mutants of NextStage: the entries are deleted before the position that
\* bounds them is recorded; append goes through save_meta, which takes the
\* mutexes it already holds.
NextStageDeletesFirst(op, pc) ==
  CASE pc = "storage"   -> IF op = "append" THEN "entries"
                           ELSE IF op = "vote" THEN "positions" ELSE "delete"
    [] pc = "entries"   -> "positions"
    [] pc = "positions" -> "idle"
    [] pc = "delete"    -> "positions"
NextStageRelocks(op, pc) ==
  CASE pc = "storage"   -> IF op = "append" THEN "entries" ELSE "positions"
    [] pc = "entries"   -> "meta"
    [] pc = "positions" -> IF op \in {"truncate", "purge"} THEN "delete" ELSE "idle"
    [] pc = "delete"    -> "idle"

\* What a call does after it holds both mutexes, stage by stage.
NextStage(op, pc) ==
  CASE pc = "storage"   -> IF op = "append" THEN "entries" ELSE "positions"
    [] pc = "entries"   -> "positions"
    [] pc = "positions" -> IF op \in {"truncate", "purge"} THEN "delete" ELSE "idle"
    [] pc = "delete"    -> "idle"

GoTo(pc) ==
  IF pc = "idle"
  THEN core' = IdleCore /\ Release({"meta", "storage"})
  ELSE core' = [core EXCEPT !.pc = pc] /\ UNCHANGED lock

CoreTakesMeta ==
  /\ core.pc = "meta"
  /\ Acquire("meta", "core")
  /\ core' = [core EXCEPT !.pc = "storage"]
  /\ UNCHANGED <<disk, meta, reader, failed>>

CoreTakesStorage ==
  /\ core.pc = "storage"
  /\ Acquire("storage", "core")
  /\ core' = [core EXCEPT !.pc = NextStage(core.op, "storage")]
  /\ UNCHANGED <<disk, meta, reader, failed>>

\* Mutant of PersistMeta: the positions are written as they are.
PersistMetaAsIs(m) == m

\* `persist_meta`: the positions are made consistent before they are written.
PersistMeta(m) == [m EXCEPT !.last_log_id = MaxLogId(m.last_log_id, m.last_purged)]

\* Mutant of NewMeta: append records the index after its last entry.
NewMetaNextIndex ==
  PersistMeta(CASE core.op = "vote"  -> [meta EXCEPT !.vote = core.id.term]
                [] core.op = "purge" -> [meta EXCEPT !.last_purged = core.id]
                [] OTHER             -> [meta EXCEPT !.last_log_id =
                                           [core.id EXCEPT !.index = core.id.index + 1]])

\* The metadata the call records: save_vote's closure, or the position the
\* append, the truncation or the purge moves.
NewMeta ==
  PersistMeta(CASE core.op = "vote"  -> [meta EXCEPT !.vote = core.id.term]
                [] core.op = "purge" -> [meta EXCEPT !.last_purged = core.id]
                [] OTHER             -> [meta EXCEPT !.last_log_id = core.id])

\* Mutant of DeleteRange: a truncation also deletes the entry it keeps.
DeleteRangeFromLast ==
  IF core.op = "truncate"
  THEN DeleteLogsOp(core.id.index, MaxIndex + 1)
  ELSE DeleteLogsOp(0, core.id.index + 1)

\* The range whose entries the call deletes: everything past the new end, or
\* everything up to the purge point.
DeleteRange ==
  IF core.op = "truncate"
  THEN DeleteLogsOp(core.id.index + 1, MaxIndex + 1)
  ELSE DeleteLogsOp(0, core.id.index + 1)

\* Mutant of CorePersist: the metadata is written before the call changes it.
CorePersistStale ==
  CASE core.pc = "entries"   -> LogEntryOp(core.next, core.entries[core.next])
    [] core.pc = "positions" -> MetaOp(PersistMeta(meta))
    [] core.pc = "delete"    -> DeleteLogsOp(DeleteRange.from, DeleteRange.to)

\* The `Persist` the call is about to hand to storage, in its present stage.
CorePersist ==
  CASE core.pc = "entries"   -> LogEntryOp(core.next, core.entries[core.next])
    [] core.pc = "positions" -> MetaOp(NewMeta)
    [] core.pc = "delete"    -> DeleteLogsOp(DeleteRange.from, DeleteRange.to)

Persisting == core.pc \in {"entries", "positions", "delete"}

\* Mutant of AppendEntry: an entry already stored at the index is kept.
AppendEntryKeeps ==
  /\ core.pc = "entries"
  /\ disk' = IF Whole(disk.logs[core.next]) THEN disk ELSE Apply(disk, CorePersist)
  /\ core' = IF core.next = core.id.index
             THEN [core EXCEPT !.pc = NextStage(core.op, "entries")]
             ELSE [core EXCEPT !.next = @ + 1]
  /\ UNCHANGED <<lock, meta, reader, failed>>

AppendEntry ==
  /\ core.pc = "entries"
  /\ disk' = Apply(disk, CorePersist)
  /\ core' = IF core.next = core.id.index
             THEN [core EXCEPT !.pc = NextStage(core.op, "entries")]
             ELSE [core EXCEPT !.next = @ + 1]
  /\ UNCHANGED <<lock, meta, reader, failed>>

SavePositions ==
  /\ core.pc = "positions"
  /\ meta' = NewMeta
  /\ disk' = Apply(disk, CorePersist)
  /\ GoTo(NextStage(core.op, "positions"))
  /\ UNCHANGED <<reader, failed>>

DeleteLogs ==
  /\ core.pc = "delete"
  /\ disk' = Apply(disk, CorePersist)
  /\ GoTo(NextStage(core.op, "delete"))
  /\ UNCHANGED <<meta, reader, failed>>

\* A persist returned an error, perhaps after part of its work: the call
\* returns it, the mutexes are given up, and openraft stops the node.  The
\* cache keeps what was assigned to it before the persist.
CoreFails ==
  /\ Persisting
  /\ disk' \in Interrupted(disk, CorePersist)
  /\ meta' = IF core.pc = "positions" THEN NewMeta ELSE meta
  /\ GoTo("idle")
  /\ failed' = TRUE
  /\ UNCHANGED reader

-----------------------------------------------------------------------------
(* try_get_log_entries.                                                    *)

\* The requested range, clamped to what the metadata says is there.
Clamp(start, end) ==
  LET lo == meta.last_purged.index + 1
      hi == meta.last_log_id.index + 1
  IN  [start |-> IF start < lo THEN lo ELSE start, end |-> IF end > hi THEN hi ELSE end]

ReadRequest(start, end) ==
  /\ reader.pc = "idle" /\ ~failed
  /\ reader' = [pc |-> "meta", start |-> start, end |-> end]
  /\ UNCHANGED <<disk, lock, meta, core, failed>>

ReaderTakesMeta ==
  /\ reader.pc = "meta"
  /\ Acquire("meta", "reader")
  /\ reader' = [reader EXCEPT !.pc = "storage"]
  /\ UNCHANGED <<disk, meta, core, failed>>

\* Mutant of ReaderTakesStorage: the mutexes are given up once the range is
\* clamped.
ReaderTakesStorageBriefly ==
  /\ reader.pc = "storage"
  /\ lock["storage"] = "free"
  /\ Release({"meta"})
  /\ LET range == Clamp(reader.start, reader.end)
     IN  reader' = [pc |-> "read", start |-> range.start, end |-> range.end]
  /\ UNCHANGED <<disk, meta, core, failed>>

ReaderTakesStorage ==
  /\ reader.pc = "storage"
  /\ Acquire("storage", "reader")
  /\ LET range == Clamp(reader.start, reader.end)
     IN  reader' = [pc |-> "read", start |-> range.start, end |-> range.end]
  /\ UNCHANGED <<disk, meta, core, failed>>

\* The entries are read one after the other; nothing is kept of them here.
ReaderReads ==
  /\ reader.pc = "read"
  /\ reader' = IdleReader
  /\ Release({"meta", "storage"})
  /\ UNCHANGED <<disk, meta, core, failed>>
=============================================================================
