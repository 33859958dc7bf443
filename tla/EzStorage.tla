----------------------------- MODULE EzStorage -----------------------------
(***************************************************************************)
(* What the framework asks of the storage a user gives it: the operations  *)
(* of `Persist` (storage/persist.rs), what one does to the stored state    *)
(* when it completes, and what it may leave behind when it does not: the   *)
(* machine stopped inside it, or it returned an error half way.            *)
(*                                                                         *)
(* The stored state is [meta, logs, snap].  Metadata and snapshot are      *)
(* single values, replaced whole; a log entry is a cell of its own, which  *)
(* may be missing or cut short.                                            *)
(***************************************************************************)
EXTENDS Integers

CONSTANT MaxIndex          \* bound: the log has the indexes 0 .. MaxIndex

ASSUME MaxIndexAssumption == MaxIndex \in Nat

Index == 0 .. MaxIndex

Absent == -1               \* no entry is stored at the index
Torn   == -2               \* the entry's bytes were cut short: it does not parse
Whole(cell) == cell >= 0   \* an entry, known by the term of its log id

-----------------------------------------------------------------------------
(* `Persist`: one constructor per variant.                                 *)

MetaOp(m)           == [kind |-> "Meta", meta |-> m]
LogEntryOp(i, e)    == [kind |-> "LogEntry", index |-> i, entry |-> e]
SnapshotOp(s)       == [kind |-> "Snapshot", snap |-> s]
DeleteLogsOp(from, to) == [kind |-> "DeleteLogs", from |-> from, to |-> to]

Put(logs, i, cell) == [logs EXCEPT ![i] = cell]
Without(logs, gone) == [i \in Index |-> IF i \in gone THEN Absent ELSE logs[i]]

\* The indexes of the half-open range [from, to).
Deleted(op) == {i \in Index : op.from <= i /\ i < op.to}

WithMeta(d, m)    == [meta |-> m, logs |-> d.logs, snap |-> d.snap]
WithLogs(d, logs) == [meta |-> d.meta, logs |-> logs, snap |-> d.snap]
WithSnap(d, s)    == [meta |-> d.meta, logs |-> d.logs, snap |-> s]

\* The stored state after `op` completed.
Apply(d, op) ==
  CASE op.kind = "Meta"       -> WithMeta(d, op.meta)
    [] op.kind = "LogEntry"   -> WithLogs(d, Put(d.logs, op.index, op.entry))
    [] op.kind = "Snapshot"   -> WithSnap(d, op.snap)
    [] op.kind = "DeleteLogs" -> WithLogs(d, Without(d.logs, Deleted(op)))

\* The stored states `op` may leave when it is cut short: metadata and
\* snapshot are published by one rename; an entry is written in place and may
\* be torn; a range is deleted one entry at a time, in any order.
Interrupted(d, op) ==
  CASE op.kind = "LogEntry"   -> {d, Apply(d, op), WithLogs(d, Put(d.logs, op.index, Torn))}
    [] op.kind = "DeleteLogs" -> {WithLogs(d, Without(d.logs, gone)) :
                                     gone \in SUBSET {i \in Deleted(op) : d.logs[i] # Absent}}
    [] OTHER                  -> {d, Apply(d, op)}
=============================================================================
