------------------------- MODULE EzStorageContract -------------------------
(***************************************************************************)
(* The abstract storage: what `EzStorage` promises (storage/mod.rs) and    *)
(* what the adapter's model relies on.  One persist at a time; one that    *)
(* returns took effect whole and stays; one the node stopped inside leaves *)
(* an outcome of Interrupted; a node that stops between two keeps          *)
(* everything.                                                             *)
(***************************************************************************)
EXTENDS EzStorage

CONSTANT Value             \* what metadata, a snapshot or an entry may hold

VARIABLES
  disk,                    \* what load and read_logs would return
  pending                  \* the persist in progress, or NoOp

NoOp == [kind |-> "none"]

PersistOps ==
  {MetaOp(v) : v \in Value} \cup {SnapshotOp(v) : v \in Value}
  \cup {LogEntryOp(i, v) : i \in Index, v \in Value}
  \cup {DeleteLogsOp(from, to) : from \in Index, to \in 1 .. MaxIndex + 1}

EmptyDisk == [meta |-> Absent, logs |-> [i \in Index |-> Absent], snap |-> Absent]

Init == disk = EmptyDisk /\ pending = NoOp

Begin ==
  /\ pending = NoOp
  /\ pending' \in PersistOps
  /\ UNCHANGED disk

Return ==
  /\ pending # NoOp
  /\ disk' = Apply(disk, pending)
  /\ pending' = NoOp

Stop ==
  /\ disk' \in IF pending = NoOp THEN {disk} ELSE Interrupted(disk, pending)
  /\ pending' = NoOp

Next == Begin \/ Return \/ Stop

Spec == Init /\ [][Next]_<<disk, pending>>
=============================================================================
