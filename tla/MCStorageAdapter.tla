-------------------------- MODULE MCStorageAdapter --------------------------
(***************************************************************************)
(* Histories of the cluster's leaders for the adapter's runs.              *)
(***************************************************************************)
EXTENDS StorageAdapter, TLC

\* Term 1's leader wrote (1,1) and (1,2).  Term 2's, elected without them,
\* wrote (2,1) alone; term 3's is term 1's again and commits (1,1) and (1,2).
\* A node that followed all three overwrote two entries, then finds its last
\* log id (2,1) greater than (1,2) at a lower index.
MCReturnLog ==
  LET Log(a, b, c) == 0 :> a @@ 1 :> b @@ 2 :> c
  IN  0 :> Log(0, Absent, Absent) @@ 1 :> Log(0, 1, 1) @@ 2 :> Log(0, 2, Absent) @@ 3 :> Log(0, 1, 1)
MCReturnNormalIds == {[term |-> 1, index |-> 2], [term |-> 2, index |-> 1]}
MCReturnMembershipIds == {[term |-> 0, index |-> 0], [term |-> 1, index |-> 1]}

\* Two indexes: term 2's leader overwrites the one entry of term 1's.
MCShortLog ==
  LET Log(a, b) == 0 :> a @@ 1 :> b
  IN  0 :> Log(0, Absent) @@ 1 :> Log(0, 1) @@ 2 :> Log(0, 2)
MCShortNormalIds == {[term |-> 1, index |-> 1], [term |-> 2, index |-> 1]}
MCShortMembershipIds == {[term |-> 0, index |-> 0]}
=============================================================================
