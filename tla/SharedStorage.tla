--------------------------- MODULE SharedStorage ---------------------------
(***************************************************************************)
(* The user's storage as both halves of the adapter reach it: one disk     *)
(* behind one mutex, and the mutexes of the three caches kept above it     *)
(* (storage/adapter/mod.rs).  tokio's mutexes are not reentrant and a      *)
(* guard is given up when its block ends.                                  *)
(***************************************************************************)
EXTENDS EzStorage

CONSTANT MaxTerm           \* bound: terms are 0 .. MaxTerm

ASSUME MaxTermAssumption == MaxTerm \in Nat

Term == 0 .. MaxTerm

\* `Option<EzLogId>`: (term, index), None below every log id.
LogId == [term : Term, index : -1 .. MaxIndex]
NoLogId == [term |-> 0, index |-> -1]

\* The order of the derived `Ord`: on the tuple, the term first.
LogIdLeq(a, b) == a.term < b.term \/ (a.term = b.term /\ a.index <= b.index)
MaxLogId(a, b) == IF LogIdLeq(a, b) THEN b ELSE a

VARIABLES
  disk,                    \* what storage would load now: [meta, logs, snap]
  lock                     \* mutex -> the task holding it, or "free"

Mutex == {"meta", "storage", "snapshot", "sm"}
Task  == {"core", "reader", "worker", "builder"}

AllFree == [m \in Mutex |-> "free"]

Acquire(m, task) == lock[m] = "free" /\ lock' = [lock EXCEPT ![m] = task]
Released(ms) == [m \in Mutex |-> IF m \in ms THEN "free" ELSE lock[m]]
Release(ms) == lock' = Released(ms)
=============================================================================
